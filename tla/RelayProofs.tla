----------------------------- MODULE RelayProofs -----------------------------
(***************************************************************************)
(* The relay's invariants, for any number of tokens, handlers and peers    *)
(* and any caps, budget and clock.  RInv is inductive; each action has a   *)
(* lemma of its own.                                                       *)
(***************************************************************************)
EXTENDS RelayServer, FiniteSetTheorems, TLAPS

Counting == {"overCap", "counted", "overBudget", "paid"}

\* A token whose allocation is not in the table yet has no trace anywhere else.
FreshUnused ==
    \A t \in Tokens : t \notin drawn \/ t \in allocating =>
        t \notin allocs /\ t \notin capped /\ carried[t] = {} /\ \A r \in Handlers : hd[r].tok # t

\* What a handler holds at each of its steps.
HandlerShape ==
    \A r \in Handlers :
        /\ hd[r].pc = "idle" => hd[r].dst = NoPeer
        /\ hd[r].pc # "idle" => hd[r].tok \in Tokens /\ hd[r].src \in Endpoints /\ now <= hd[r].at + MaxLag
        /\ hd[r].pc \in {"registering", "found"} => hd[r].dst = NoPeer
        /\ hd[r].pc = "registering" =>
             /\ hd[r].from \in Peer
             /\ hd[r].from.ep \in Udp => \E c \in cookies : c.tok = hd[r].tok /\ c.src = hd[r].from.ep

\* A datagram's span ends within the count of its session, and is within the cap
\* once it passed it.
SpanCounted ==
    \A r \in Handlers :
        /\ hd[r].pc \in Counting => hd[r].size <= hd[r].total /\ hd[r].total <= alloc[hd[r].tok].bytes
        /\ hd[r].pc \in Counting \ {"overCap"} => ~OverCap(hd[r].total)

\* What was forwarded was counted, and within the cap.
CarriedCounted ==
    \A t \in Tokens : \A k \in carried[t] :
        1 <= k /\ k <= alloc[t].bytes /\ (MaxBytesPerSession > 0 => k <= MaxBytesPerSession)

\* The budget knows of every byte it let through since its last roll.
BudgetCovers == windowBytes <= budget.used

\* The note of the last activity is late by no more than a handler's lag.
ActivityNoted == \A t \in Tokens : activeAt[t] <= alloc[t].lastActivity + MaxLag

RInv ==
    /\ RTypeOK
    /\ FreshUnused
    /\ HandlerShape
    /\ SpanCounted
    /\ CarriedCounted
    /\ EachByteOnce
    /\ BudgetCovers
    /\ WindowBudget
    /\ OneToOne
    /\ CutStaysCut
    /\ ActivityNoted

-----------------------------------------------------------------------------
\* The day of a time on the clock is one of the days.
LEMMA DayType ==
  ASSUME NEW t \in Times
  PROVE  DayOf(t) \in Days
<1>1. Day \in Nat /\ Day > 0 /\ MaxTime \in Nat /\ t \in Nat /\ t <= MaxTime
  BY RelayAssumption DEF Times
<1>2. /\ t \div Day \in Int /\ MaxTime \div Day \in Int
      /\ 0 <= t \div Day /\ t \div Day <= MaxTime \div Day
  BY <1>1
<1> QED BY <1>2 DEF DayOf, Days

\* Rolling gives a budget again (roll).
LEMMA RolledType ==
  ASSUME RTypeOK, NEW t \in Times
  PROVE  /\ Rolled(t) \in [day : Days, used : Nat]
         /\ RolledWindow(t) \in Nat
  BY DayType DEF RTypeOK, Rolled, RolledWindow

\* The handler that waits for a datagram.
LEMMA IdleType == IdleHandler \in Handler /\ 0 \in Times
  BY RelayAssumption DEF IdleHandler, Handler, Phases, Slot, Times

\* A registration that passed its checks is a handler's state.
LEMMA RegisteringType ==
  ASSUME RTypeOK, NEW t \in Tokens, NEW id \in PeerIDs, NEW src \in Endpoints
  PROVE  [IdleHandler EXCEPT !.pc = "registering", !.tok = t, !.src = src, !.at = now,
                             !.from = [id |-> id, ep |-> src]] \in Handler
  BY IdleType DEF RTypeOK, IdleHandler, Handler, Phases, Slot, Peer

\* The types of what a handler at work holds.
LEMMA BusyType ==
  ASSUME RTypeOK, HandlerShape, NEW r \in Handlers, hd[r].pc # "idle"
  PROVE  /\ hd[r] \in Handler
         /\ hd[r].tok \in Tokens /\ hd[r].src \in Endpoints
         /\ hd[r].size \in Nat /\ hd[r].total \in Nat
         /\ hd[r].at \in Times /\ hd[r].at \in Nat
         /\ hd[r].from \in Slot /\ hd[r].dst \in Slot
         /\ alloc[hd[r].tok] \in Allocation
         /\ alloc[hd[r].tok].bytes \in Nat
         /\ alloc[hd[r].tok].p0 \in Slot /\ alloc[hd[r].tok].p1 \in Slot
  BY DEF RTypeOK, HandlerShape, Handler, Allocation, Times

\* A cookie made at any time of the clock.
LEMMA CookieType ==
  ASSUME NEW t \in Tokens, NEW src \in Udp, NEW at \in Times
  PROVE  cookie(t, src, at) \in Cookie
<1>1. at \in Nat /\ cookieLifetime \in Nat /\ cookieLifetime > 0
  BY RelayAssumption DEF Times
<1>2. at \div cookieLifetime \in Nat
  BY <1>1
<1> QED BY <1>2 DEF cookie, cookieEpoch, Cookie

\* A tombstone set at any time of the clock.
LEMMA TombstoneType ==
  ASSUME NEW at \in Times, NEW reason \in Reasons
  PROVE  [reason |-> reason, expiresAt |-> at + TombstoneTTL] \in Tombstone
<1>1. at + TombstoneTTL \in Nat
  BY RelayAssumption DEF Times
<1> QED BY <1>1 DEF Tombstone

\* A registration changes the allocation's peers and its last activity, if anything.
LEMMA RegisterFrame ==
  ASSUME RTypeOK, HandlerShape, NEW r \in Handlers, register(r)
  PROVE  LET t == hd[r].tok
             slot == RegisterSlot(alloc[t], hd[r].from.id)
             a == [alloc[t] EXCEPT !.p0 = IF slot = "p0" THEN hd[r].from ELSE @,
                                   !.p1 = IF slot = "p1" THEN hd[r].from ELSE @,
                                   !.lastActivity = hd[r].at]
         IN  /\ t \in Tokens /\ a \in Allocation /\ a.bytes = alloc[t].bytes
             /\ \/ UNCHANGED <<alloc, activeAt>>
                \/ alloc' = [alloc EXCEPT ![t] = a] /\ activeAt' = [activeAt EXCEPT ![t] = now]
             /\ alloc' \in [Tokens -> Allocation]
<1> DEFINE t == hd[r].tok
           slot == RegisterSlot(alloc[t], hd[r].from.id)
           a == [alloc[t] EXCEPT !.p0 = IF slot = "p0" THEN hd[r].from ELSE @,
                                 !.p1 = IF slot = "p1" THEN hd[r].from ELSE @,
                                 !.lastActivity = hd[r].at]
<1>1. t \in Tokens /\ a \in Allocation /\ a.bytes = alloc[t].bytes
  BY BusyType DEF register, Allocation
<1>2. \/ UNCHANGED <<alloc, activeAt>>
      \/ alloc' = [alloc EXCEPT ![t] = a] /\ activeAt' = [activeAt EXCEPT ![t] = now]
  BY DEF register
<1> HIDE DEF a
<1>3. alloc' \in [Tokens -> Allocation]
  BY <1>1, <1>2 DEF RTypeOK
<1> QED BY <1>1, <1>2, <1>3 DEF a

\* Every step keeps every variable in its type.
LEMMA TypeStep ==
  ASSUME RTypeOK, HandlerShape, SpanCounted, [Next]_vars
  PROVE  RTypeOK'
<1> USE RelayAssumption
<1>1. ASSUME NEW t \in Tokens, allocateCheck(t) PROVE RTypeOK'
  <2>1. now \in Times
    BY DEF RTypeOK
  <2> QED BY <1>1, <2>1, RolledType DEF allocateCheck, RTypeOK, metrics
<1>2. ASSUME NEW t \in Tokens, allocateInsert(t) PROVE RTypeOK'
  <2>1. NewAllocation \in Allocation
    BY DEF RTypeOK, NewAllocation, Allocation, Slot
  <2> QED BY <1>2, <2>1 DEF allocateInsert, RTypeOK, metrics
<1>3. CASE Drain
  BY <1>3 DEF Drain, RTypeOK, metrics, history
<1>4. CASE usedToday
  <2>1. now \in Times
    BY DEF RTypeOK
  <2> QED BY <1>4, <2>1, RolledType DEF usedToday, RTypeOK, metrics, intake
<1>5. ASSUME NEW t \in Tokens, NEW src \in Udp, hello(t, src) PROVE RTypeOK'
  <2>1. cookie(t, src, now) \in Cookie
    BY CookieType DEF RTypeOK
  <2> QED BY <1>5, <2>1 DEF hello, challenge, RTypeOK, metrics, intake, history
<1>6. ASSUME NEW r \in Handlers, NEW t \in Tokens, NEW id \in PeerIDs, NEW src \in Udp, NEW c \in cookies,
             registerUDP(r, t, id, src, c)
      PROVE  RTypeOK'
  BY <1>6, RegisteringType DEF registerUDP, RTypeOK, metrics, intake, history, Endpoints
<1>7. ASSUME NEW r \in Handlers, NEW t \in Tokens, NEW id \in PeerIDs, NEW src \in Ws, registerWS(r, t, id, src)
      PROVE  RTypeOK'
  BY <1>7, RegisteringType DEF registerWS, RTypeOK, metrics, intake, history, Endpoints
<1>8. ASSUME NEW r \in Handlers, NEW t \in Tokens, NEW src \in Endpoints, NEW n \in HeaderSize..MaxDatagram,
             handle(r, t, src, n)
      PROVE  RTypeOK'
  <2>1. [IdleHandler EXCEPT !.pc = "found", !.tok = t, !.src = src, !.size = n, !.at = now] \in Handler
    <3>1. n \in Nat
      OBVIOUS
    <3> QED BY <3>1, IdleType DEF RTypeOK, IdleHandler, Handler, Phases, Slot
  <2> QED BY <1>8, <2>1 DEF handle, RTypeOK, metrics, intake, history
<1>9. ASSUME NEW r \in Handlers, register(r) PROVE RTypeOK'
  <2>1. alloc' \in [Tokens -> Allocation]
    BY <1>9, RegisterFrame
  <2> QED BY <1>9, <2>1, IdleType DEF register, RTypeOK, metrics, intake
<1>10. ASSUME NEW r \in Handlers, route(r) PROVE RTypeOK'
  <2> DEFINE t == hd[r].tok
             d == Direction(alloc[t], hd[r].src)
             h == [hd[r] EXCEPT !.pc = "routed", !.from = d.from, !.dst = d.dst]
  <2>1. t \in Tokens /\ [alloc[t] EXCEPT !.lastActivity = hd[r].at] \in Allocation
    BY <1>10, BusyType DEF route, Allocation
  <2>2. d.from \in Slot /\ d.dst \in Slot
    BY <1>10, BusyType DEF route, Direction
  <2>3. h \in Handler
    BY <1>10, <2>2, BusyType DEF route, Handler, Phases
  <2>4. hd' \in [Handlers -> Handler]
    BY <1>10, <2>3, IdleType DEF route, RTypeOK
  <2> QED BY <1>10, <2>1, <2>4 DEF route, RTypeOK, metrics, intake
<1>11. ASSUME NEW r \in Handlers, nudge(r) PROVE RTypeOK'
  <2> DEFINE t == hd[r].tok
  <2>1. t \in Tokens /\ [alloc[t] EXCEPT !.lastNudge = hd[r].at] \in Allocation
    BY <1>11, BusyType DEF nudge, Allocation
  <2>2. hd[r].src \in Udp => cookie(t, hd[r].src, hd[r].at) \in Cookie
    BY <1>11, BusyType, CookieType DEF nudge
  <2>3. cookies' \subseteq Cookie
    BY <1>11, <2>2 DEF nudge, challenge, RTypeOK
  <2> QED BY <1>11, <2>1, <2>3, IdleType DEF nudge, RTypeOK, metrics, intake, history
<1>12. ASSUME NEW r \in Handlers, countBytes(r) PROVE RTypeOK'
  <2> DEFINE t == hd[r].tok
             total == alloc[t].bytes + hd[r].size
             h == [hd[r] EXCEPT !.pc = IF OverCap(total) THEN "overCap" ELSE "counted", !.total = total]
  <2>1. t \in Tokens /\ total \in Nat /\ [alloc[t] EXCEPT !.bytes = total] \in Allocation
    BY <1>12, BusyType DEF countBytes, Allocation
  <2>2. h \in Handler
    BY <1>12, <2>1, BusyType DEF countBytes, Handler, Phases
  <2>3. hd' \in [Handlers -> Handler]
    BY <1>12, <2>2 DEF countBytes, RTypeOK
  <2> QED BY <1>12, <2>1, <2>3 DEF countBytes, BytesAdded, RTypeOK, intake, history
<1>13. ASSUME NEW r \in Handlers, charge(r) PROVE RTypeOK'
  <2> DEFINE b == [Rolled(hd[r].at) EXCEPT !.used = @ + hd[r].size]
  <2>1. /\ hd[r].size \in Nat /\ Rolled(hd[r].at) \in [day : Days, used : Nat]
        /\ RolledWindow(hd[r].at) \in Nat
    BY <1>13, BusyType, RolledType DEF charge
  <2>2. b \in [day : Days, used : Nat]
    BY <2>1
  <2>3. hd' \in [Handlers -> Handler]
    <3>1. \A pc \in Phases : [hd[r] EXCEPT !.pc = pc] \in Handler
      BY DEF RTypeOK, Handler
    <3> QED BY <1>13, <3>1 DEF charge, RTypeOK, Phases
  <2>4. budget' \in [day : Days, used : Nat]
    BY <1>13, <2>2 DEF charge, RTypeOK
  <2>5. windowBytes' \in Nat
    BY <1>13, <2>1 DEF charge, RTypeOK
  <2> QED BY <1>13, <2>3, <2>4, <2>5 DEF charge, RTypeOK, metrics, intake
<1>14. ASSUME NEW r \in Handlers, cutOff(r) PROVE RTypeOK'
  <2>1. hd[r].tok \in Tokens
    BY <1>14, BusyType DEF cutOff
  <2>2. \A reason \in Reasons : [reason |-> reason, expiresAt |-> now + TombstoneTTL] \in Tombstone
    BY TombstoneType DEF RTypeOK
  <2> QED BY <1>14, <2>1, <2>2, IdleType DEF cutOff, evict, RTypeOK, metrics, intake, Reasons
<1>15. ASSUME NEW r \in Handlers, forward(r) PROVE RTypeOK'
  <2> DEFINE t == hd[r].tok
  <2>1. t \in Tokens /\ [alloc[t] EXCEPT !.dataCounted = TRUE] \in Allocation
    BY <1>15, BusyType DEF forward, Allocation
  <2>2. Span(r) \subseteq Nat
    BY <1>15, BusyType DEF forward, Span, SpanCounted, Counting
  <2>3. carried' \in [Tokens -> SUBSET Nat]
    BY <1>15, <2>1, <2>2 DEF forward, RTypeOK
  <2> QED BY <1>15, <2>1, <2>3, IdleType DEF forward, RTypeOK, metrics, intake
<1>16. CASE sweep
  <2>1. [reason |-> "idle", expiresAt |-> now + TombstoneTTL] \in Tombstone
    BY TombstoneType DEF RTypeOK, Reasons
  <2>2. NoTombstone \in Tombstone
    BY DEF NoTombstone, Tombstone
  <2>3. tombstone' \in [Tokens -> Tombstone]
    BY <1>16, <2>1, <2>2 DEF sweep, RTypeOK
  <2> QED BY <1>16, <2>3 DEF sweep, RTypeOK, metrics, intake, history
<1>17. CASE Tick
  BY <1>17 DEF Tick, RTypeOK, metrics, intake, history, Times
<1>18. CASE UNCHANGED vars
  BY <1>18 DEF vars, RTypeOK, metrics, intake, history
<1> QED BY <1>1, <1>2, <1>3, <1>4, <1>5, <1>6, <1>7, <1>8, <1>9, <1>10, <1>11, <1>12, <1>13, <1>14,
           <1>15, <1>16, <1>17, <1>18 DEF Next, Datagram, Handling

-----------------------------------------------------------------------------
\* How a handler's step changes the handlers: the one that steps goes back to
\* idle, or keeps the token, the source and the time it has, and the others
\* keep everything.
Steps(r) ==
    /\ hd[r].pc # "idle"
    /\ \A q \in Handlers \ {r} : hd'[q] = hd[q]
    /\ \/ hd'[r] = IdleHandler
       \/ /\ hd'[r].pc \notin {"idle", "registering", "found"}
          /\ hd'[r].tok = hd[r].tok /\ hd'[r].src = hd[r].src /\ hd'[r].at = hd[r].at

\* How a datagram's arrival changes them: an idle one takes a token that is in
\* the table.
Takes(r) ==
    /\ hd[r].pc = "idle"
    /\ \A q \in Handlers \ {r} : hd'[q] = hd[q]
    /\ hd'[r].pc \in {"registering", "found"}
    /\ hd'[r].tok \in allocs /\ hd'[r].src \in Endpoints
    /\ hd'[r].at = now /\ hd'[r].dst = NoPeer
    /\ hd'[r].pc = "registering" =>
         /\ hd'[r].from \in Peer
         /\ hd'[r].from.ep \in Udp => \E c \in cookies : c.tok = hd'[r].tok /\ c.src = hd'[r].from.ep

\* Each step of a datagram's handling is one of the two (handle, handleControl).
LEMMA HandlingFrame ==
  ASSUME RTypeOK, NEW r \in Handlers, Handling(r)
  PROVE  Steps(r) /\ UNCHANGED <<now, draining, drawn, allocating>>
<1>0. /\ hd \in [Handlers -> Handler] /\ hd[r] \in Handler
      /\ \A h \in Handler : \A pc, from, dst, total :
            LET g == [h EXCEPT !.pc = pc, !.from = from, !.dst = dst]
                k == [h EXCEPT !.pc = pc, !.total = total]
                l == [h EXCEPT !.pc = pc]
            IN  /\ g.tok = h.tok /\ g.src = h.src /\ g.at = h.at /\ g.pc = pc
                /\ k.tok = h.tok /\ k.src = h.src /\ k.at = h.at /\ k.pc = pc
                /\ l.tok = h.tok /\ l.src = h.src /\ l.at = h.at /\ l.pc = pc
  BY DEF RTypeOK, Handler
<1>1. CASE register(r)
  BY <1>0, <1>1 DEF register, Steps, intake
<1>2. CASE route(r)
  BY <1>0, <1>2 DEF route, Steps, intake
<1>3. CASE nudge(r)
  BY <1>0, <1>3 DEF nudge, Steps, intake
<1>4. CASE countBytes(r)
  BY <1>0, <1>4 DEF countBytes, Steps, intake
<1>5. CASE charge(r)
  BY <1>0, <1>5 DEF charge, Steps, intake
<1>6. CASE cutOff(r)
  BY <1>0, <1>6 DEF cutOff, Steps, intake
<1>7. CASE forward(r)
  BY <1>0, <1>7 DEF forward, Steps, intake
<1> QED BY <1>1, <1>2, <1>3, <1>4, <1>5, <1>6, <1>7 DEF Handling

\* The arrival of a datagram touches nothing but its handler.
LEMMA DatagramFrame ==
  ASSUME RTypeOK, NEW r \in Handlers, Datagram(r)
  PROVE  /\ Takes(r)
         /\ UNCHANGED <<now, draining, drawn, allocating, allocs, alloc, tombstone, budget, cookies,
                        transfersCapped, transfersTotal, carried, windowBytes, activeAt, capped>>
<1>0. hd \in [Handlers -> Handler]
  BY DEF RTypeOK
<1>1. ASSUME NEW t \in Tokens, NEW id \in PeerIDs, NEW src \in Udp, NEW c \in cookies, registerUDP(r, t, id, src, c)
      PROVE  Takes(r)
  <2>1. c.tok = t /\ c.src = src
    BY <1>1 DEF registerUDP, cookieValid
  <2> QED BY <1>0, <1>1, <2>1 DEF registerUDP, IdleHandler, Takes, Peer, Endpoints
<1>w. ASSUME NEW t \in Tokens, NEW id \in PeerIDs, NEW src \in Ws, registerWS(r, t, id, src)
      PROVE  Takes(r)
  <2>1. src \notin Udp
    BY RelayAssumption
  <2> QED BY <1>0, <1>w, <2>1 DEF registerWS, IdleHandler, Takes, Peer, Endpoints
<1>2. ASSUME NEW t \in Tokens, NEW src \in Endpoints, NEW n, handle(r, t, src, n)
      PROVE  Takes(r)
  BY <1>0, <1>2 DEF handle, IdleHandler, Takes
<1>3. Takes(r)
  BY <1>1, <1>w, <1>2 DEF Datagram
<1> QED BY <1>3 DEF Datagram, registerUDP, registerWS, handle, intake, metrics, history

-----------------------------------------------------------------------------
\* A token that is not in the table yet stays unused until it is inserted.
LEMMA FreshStep ==
  ASSUME RTypeOK, HandlerShape, FreshUnused, Next
  PROVE  FreshUnused'
<1> USE RelayAssumption DEF FreshUnused
<1>1. ASSUME NEW t \in Tokens, allocateCheck(t) PROVE FreshUnused'
  BY <1>1 DEF allocateCheck
<1>2. ASSUME NEW t \in Tokens, allocateInsert(t) PROVE FreshUnused'
  BY <1>2 DEF allocateInsert, RTypeOK
<1>3. CASE Drain \/ usedToday \/ (\E t \in Tokens, src \in Udp : hello(t, src)) \/ Tick
  BY <1>3 DEF Drain, usedToday, hello, Tick, intake, history
<1>4. ASSUME NEW r \in Handlers, Datagram(r) PROVE FreshUnused'
  BY <1>4, DatagramFrame DEF Takes
<1>5. ASSUME NEW r \in Handlers, Handling(r) PROVE FreshUnused'
  <2>1. \A q \in Handlers, t \in Tokens : hd'[q].tok = t => \E p \in Handlers : hd[p].tok = t
    BY <1>5, HandlingFrame DEF Steps, IdleHandler
  <2>2. UNCHANGED <<drawn, allocating>>
    BY <1>5, HandlingFrame
  <2>3. allocs' \subseteq allocs
    BY <1>5 DEF Handling, register, route, nudge, countBytes, charge, cutOff, forward, evict
  <2>4. \A t \in Tokens : t \in capped' => t \in capped \/ hd[r].tok = t
    BY <1>5 DEF Handling, register, route, nudge, countBytes, charge, cutOff, forward, history
  <2>5. \A t \in Tokens : carried'[t] = carried[t] \/ hd[r].tok = t
    BY <1>5 DEF Handling, register, route, nudge, countBytes, charge, cutOff, forward, history, RTypeOK
  <2> QED BY <2>1, <2>2, <2>3, <2>4, <2>5
<1>6. CASE sweep
  BY <1>6 DEF sweep, intake, history
<1> QED BY <1>1, <1>2, <1>3, <1>4, <1>5, <1>6 DEF Next

\* The handlers keep what belongs to the step they are at.
LEMMA ShapeStep ==
  ASSUME RTypeOK, HandlerShape, Next
  PROVE  HandlerShape'
<1> USE RelayAssumption
<1>1. CASE UNCHANGED <<now, hd>> /\ cookies \subseteq cookies'
  BY <1>1 DEF HandlerShape
<1>2. ASSUME NEW t \in Tokens, allocateCheck(t) \/ allocateInsert(t) PROVE HandlerShape'
  BY <1>1, <1>2 DEF allocateCheck, allocateInsert
<1>3. CASE Drain \/ usedToday \/ (\E t \in Tokens, src \in Udp : hello(t, src)) \/ sweep
  BY <1>1, <1>3 DEF Drain, usedToday, hello, challenge, sweep
<1>4. ASSUME NEW r \in Handlers, Datagram(r) PROVE HandlerShape'
  <2>1. now <= now + MaxLag
    BY DEF RTypeOK, Times
  <2>2. UNCHANGED <<now, cookies>> /\ allocs \subseteq Tokens
    BY <1>4, DatagramFrame DEF RTypeOK
  <2> QED BY <1>4, <2>1, <2>2, DatagramFrame DEF Takes, HandlerShape
<1>5. ASSUME NEW r \in Handlers, Handling(r) PROVE HandlerShape'
  <2>1. now' = now /\ Steps(r)
    BY <1>5, HandlingFrame
  <2>2. cookies \subseteq cookies'
    BY <1>5 DEF Handling, register, route, nudge, countBytes, charge, cutOff, forward, challenge
  <2> QED BY <2>1, <2>2 DEF Steps, IdleHandler, HandlerShape
<1>6. CASE Tick
  <2>1. \A r \in Handlers : hd[r].pc # "idle" => now' <= hd[r].at + MaxLag
    BY <1>6 DEF Tick, RTypeOK, Times, Handler
  <2> QED BY <1>6, <2>1 DEF Tick, HandlerShape
<1> QED BY <1>2, <1>3, <1>4, <1>5, <1>6 DEF Next

-----------------------------------------------------------------------------
\* The byte count of a session moves only when a datagram is counted: the other
\* steps leave every counter but those of tokens that are not in use.
LEMMA BytesFrame ==
  ASSUME RTypeOK, HandlerShape, FreshUnused, Next, \A r \in Handlers : ~countBytes(r)
  PROVE  \A t \in Tokens :
            \/ alloc'[t].bytes = alloc[t].bytes
            \/ carried[t] = {} /\ UNCHANGED <<carried, hd>> /\ \A r \in Handlers : hd[r].tok # t
<1>1. ASSUME NEW r \in Handlers, Handling(r), ~countBytes(r)
      PROVE  \A t \in Tokens : alloc'[t].bytes = alloc[t].bytes
  <2>1. alloc \in [Tokens -> Allocation]
    BY DEF RTypeOK
  <2>2. CASE register(r)
    BY <2>1, <2>2, RegisterFrame DEF Allocation
  <2>3. CASE route(r)
    BY <2>1, <2>3 DEF route, Allocation
  <2>4. CASE nudge(r)
    BY <2>1, <2>4 DEF nudge, Allocation
  <2>5. CASE forward(r)
    BY <2>1, <2>5 DEF forward, Allocation
  <2>6. CASE charge(r) \/ cutOff(r)
    BY <2>6 DEF charge, cutOff
  <2> QED BY <1>1, <2>2, <2>3, <2>4, <2>5, <2>6 DEF Handling
<1>2. ASSUME NEW t \in Tokens, allocateInsert(t)
      PROVE  /\ carried[t] = {} /\ UNCHANGED <<carried, hd>> /\ \A r \in Handlers : hd[r].tok # t
             /\ \A u \in Tokens \ {t} : alloc'[u] = alloc[u]
  BY <1>2 DEF allocateInsert, FreshUnused, RTypeOK
<1>3. CASE \/ \E t \in Tokens : allocateCheck(t)
           \/ Drain \/ usedToday \/ (\E t \in Tokens, src \in Udp : hello(t, src)) \/ sweep \/ Tick
  BY <1>3 DEF allocateCheck, Drain, usedToday, hello, sweep, Tick
<1>4. ASSUME NEW r \in Handlers, Datagram(r) PROVE UNCHANGED alloc
  BY <1>4, DatagramFrame
<1> QED BY <1>1, <1>2, <1>3, <1>4 DEF Next

\* Where the counting handlers come from: only countBytes and charge leave one.
LEMMA CountingFrame ==
  ASSUME RTypeOK, Next, \A r \in Handlers : ~countBytes(r) /\ ~charge(r)
  PROVE  \A q \in Handlers : hd'[q] = hd[q] \/ hd'[q].pc \notin Counting
<1> USE DEF Counting
<1>1. ASSUME NEW r \in Handlers, Handling(r), ~countBytes(r), ~charge(r)
      PROVE  \A q \in Handlers : hd'[q] = hd[q] \/ hd'[q].pc \notin Counting
  <2>1. hd \in [Handlers -> Handler]
    BY DEF RTypeOK
  <2>2. CASE route(r)
    BY <2>1, <2>2 DEF route, IdleHandler, Handler
  <2>3. CASE register(r) \/ nudge(r) \/ cutOff(r) \/ forward(r)
    BY <2>1, <2>3 DEF register, nudge, cutOff, forward, IdleHandler
  <2> QED BY <1>1, <2>2, <2>3 DEF Handling
<1>2. ASSUME NEW r \in Handlers, Datagram(r)
      PROVE  \A q \in Handlers : hd'[q] = hd[q] \/ hd'[q].pc \notin Counting
  BY <1>2, DatagramFrame DEF Takes
<1>3. ASSUME NEW t \in Tokens, allocateCheck(t) \/ allocateInsert(t) PROVE UNCHANGED hd
  BY <1>3 DEF allocateCheck, allocateInsert
<1>4. CASE Drain \/ usedToday \/ (\E t \in Tokens, src \in Udp : hello(t, src)) \/ sweep \/ Tick
  BY <1>4 DEF Drain, usedToday, hello, sweep, Tick
<1> QED BY <1>1, <1>2, <1>3, <1>4 DEF Next

\* What countBytes and charge make of the handler that steps.
LEMMA CountSteps ==
  ASSUME RTypeOK, HandlerShape, NEW r \in Handlers
  PROVE  /\ countBytes(r) =>
              /\ hd'[r].size = hd[r].size /\ hd'[r].tok = hd[r].tok
              /\ hd'[r].total = alloc[hd[r].tok].bytes + hd[r].size
              /\ hd'[r].pc \in {"overCap", "counted"}
              /\ hd'[r].pc = "counted" => ~OverCap(hd'[r].total)
              /\ alloc'[hd[r].tok].bytes = hd'[r].total
              /\ \A t \in Tokens \ {hd[r].tok} : alloc'[t] = alloc[t]
              /\ UNCHANGED carried
         /\ charge(r) =>
              /\ hd[r].pc = "counted" /\ hd'[r].pc \in {"overBudget", "paid"}
              /\ hd'[r].size = hd[r].size /\ hd'[r].tok = hd[r].tok /\ hd'[r].total = hd[r].total
              /\ UNCHANGED <<alloc, carried>>
<1>0. hd \in [Handlers -> Handler] /\ alloc \in [Tokens -> Allocation]
  BY DEF RTypeOK
<1>1. ASSUME countBytes(r)
      PROVE  /\ hd'[r].size = hd[r].size /\ hd'[r].tok = hd[r].tok
             /\ hd'[r].total = alloc[hd[r].tok].bytes + hd[r].size
             /\ hd'[r].pc \in {"overCap", "counted"}
             /\ hd'[r].pc = "counted" => ~OverCap(hd'[r].total)
  BY <1>0, <1>1 DEF countBytes, Handler
<1>2. ASSUME countBytes(r)
      PROVE  /\ alloc'[hd[r].tok].bytes = alloc[hd[r].tok].bytes + hd[r].size
             /\ \A t \in Tokens \ {hd[r].tok} : alloc'[t] = alloc[t]
             /\ UNCHANGED carried
  BY <1>0, <1>2, BusyType DEF countBytes, BytesAdded, history, Allocation
<1>3. ASSUME charge(r)
      PROVE  /\ hd[r].pc = "counted" /\ hd'[r].pc \in {"overBudget", "paid"}
             /\ hd'[r].size = hd[r].size /\ hd'[r].tok = hd[r].tok /\ hd'[r].total = hd[r].total
             /\ UNCHANGED <<alloc, carried>>
  BY <1>0, <1>3 DEF charge, Handler
<1> QED BY <1>1, <1>2, <1>3

\* Every datagram that was counted lies within its session's count.
LEMMA SpanStep ==
  ASSUME RTypeOK, HandlerShape, FreshUnused, SpanCounted, Next
  PROVE  SpanCounted'
<1> USE DEF SpanCounted, Counting
<1>1. ASSUME NEW r \in Handlers, countBytes(r) PROVE SpanCounted'
  <2>1. hd[r].pc = "routed"
    BY <1>1 DEF countBytes
  <2>2. \A q \in Handlers \ {r} : hd'[q] = hd[q]
    BY <1>1, HandlingFrame DEF Handling, Steps
  <2>3. hd[r].size \in Nat /\ alloc[hd[r].tok].bytes \in Nat
    BY <2>1, BusyType
  <2>4. \A q \in Handlers : hd[q].pc \in Counting =>
          hd[q].total \in Nat /\ hd[q].tok \in Tokens /\ alloc[hd[q].tok].bytes \in Nat
    BY BusyType
  <2>5. \A t \in Tokens : alloc[t].bytes \in Nat =>
          alloc'[t].bytes \in Nat /\ alloc[t].bytes <= alloc'[t].bytes
    BY <1>1, <2>3, CountSteps
  <2>6. \A q \in Handlers \ {r} : hd[q].pc \in Counting => hd[q].total <= alloc'[hd[q].tok].bytes
    BY <2>4, <2>5
  <2>7. /\ hd'[r].size <= hd'[r].total /\ hd'[r].total <= alloc'[hd'[r].tok].bytes
        /\ hd'[r].pc \in {"overCap", "counted"} /\ (hd'[r].pc = "counted" => ~OverCap(hd'[r].total))
    BY <1>1, <2>3, CountSteps
  <2> HIDE DEF Counting
  <2>8. \A q \in Handlers \ {r} : /\ hd'[q].pc \in Counting =>
                                        hd'[q].size <= hd'[q].total /\ hd'[q].total <= alloc'[hd'[q].tok].bytes
                                  /\ hd'[q].pc \in Counting \ {"overCap"} => ~OverCap(hd'[q].total)
    BY <2>2, <2>6
  <2> QED BY <2>7, <2>8 DEF OverCap
<1>2. ASSUME NEW r \in Handlers, charge(r) PROVE SpanCounted'
  <2>1. \A q \in Handlers \ {r} : hd'[q] = hd[q]
    BY <1>2, HandlingFrame DEF Handling, Steps
  <2> QED BY <1>2, <2>1, CountSteps DEF OverCap
<1>3. CASE \A r \in Handlers : ~countBytes(r) /\ ~charge(r)
  <2>1. \A q \in Handlers : hd'[q] = hd[q] \/ hd'[q].pc \notin Counting
    BY <1>3, CountingFrame
  <2>2. \A q \in Handlers : hd[q].pc \in Counting => hd[q].tok \in Tokens
    BY BusyType
  <2>3. \A q \in Handlers : hd[q].pc \in Counting => alloc'[hd[q].tok].bytes = alloc[hd[q].tok].bytes
    BY <1>3, <2>2, BytesFrame
  <2> QED BY <2>1, <2>3 DEF OverCap
<1> QED BY <1>1, <1>2, <1>3

\* Everything forwarded was counted before, within the cap.
LEMMA CarriedStep ==
  ASSUME RTypeOK, HandlerShape, FreshUnused, SpanCounted, CarriedCounted, Next
  PROVE  CarriedCounted'
<1> SUFFICES ASSUME NEW t \in Tokens, NEW k \in carried'[t]
             PROVE  1 <= k /\ k <= alloc'[t].bytes /\ (MaxBytesPerSession > 0 => k <= MaxBytesPerSession)
  BY DEF CarriedCounted
<1>0. carried[t] \subseteq Nat /\ alloc[t].bytes \in Nat
  BY DEF RTypeOK, Allocation
<1>1. ASSUME NEW r \in Handlers, forward(r)
      PROVE  1 <= k /\ k <= alloc'[t].bytes /\ (MaxBytesPerSession > 0 => k <= MaxBytesPerSession)
  <2>1. alloc'[t].bytes = alloc[t].bytes
    BY <1>1 DEF forward, RTypeOK, Allocation
  <2>2. CASE k \in carried[t]
    BY <2>1, <2>2 DEF CarriedCounted
  <2>3. CASE k \notin carried[t]
    <3>1. t = hd[r].tok /\ k \in Span(r)
      BY <1>1, <2>3 DEF forward, RTypeOK
    <3>2. /\ hd[r].size \in Nat /\ hd[r].total \in Nat /\ hd[r].size <= hd[r].total
          /\ hd[r].total <= alloc[t].bytes /\ ~OverCap(hd[r].total)
      BY <1>1, <3>1, BusyType DEF forward, SpanCounted, Counting
    <3>3. k \in Nat /\ 1 <= k /\ k <= hd[r].total
      BY <3>1, <3>2 DEF Span
    <3> QED BY <1>0, <2>1, <3>2, <3>3, RelayAssumption DEF OverCap
  <2> QED BY <2>2, <2>3
<1>2. CASE \A r \in Handlers : ~forward(r)
  <2>1. UNCHANGED carried
    BY <1>2, ZenonT(60) DEF Next, Datagram, Handling, allocateCheck, allocateInsert, Drain, usedToday, hello, sweep, Tick,
                registerUDP, registerWS, handle, register, route, nudge, countBytes, charge, cutOff, history
  <2>2. 1 <= k /\ k <= alloc[t].bytes /\ (MaxBytesPerSession > 0 => k <= MaxBytesPerSession)
    BY <2>1 DEF CarriedCounted
  <2>3. alloc[t].bytes <= alloc'[t].bytes /\ alloc'[t].bytes \in Int
    <3>1. ASSUME NEW r \in Handlers, countBytes(r) PROVE alloc[t].bytes <= alloc'[t].bytes /\ alloc'[t].bytes \in Int
      <4>1. hd[r].size \in Nat
        BY <3>1, BusyType DEF countBytes
      <4> QED BY <1>0, <3>1, <4>1, CountSteps
    <3>2. CASE \A r \in Handlers : ~countBytes(r)
      BY <1>0, <2>1, <3>2, BytesFrame
    <3> QED BY <3>1, <3>2
  <2> QED BY <1>0, <2>1, <2>2, <2>3
<1> QED BY <1>1, <1>2

-----------------------------------------------------------------------------
\* The positions of a counted datagram are within the count of its session.
LEMMA SpanBounds ==
  ASSUME RTypeOK, HandlerShape, SpanCounted, NEW q \in Handlers, hd[q].pc \in Counting, NEW k \in Span(q)
  PROVE  k \in Nat /\ k <= alloc[hd[q].tok].bytes
<1>1. /\ hd[q].size \in Nat /\ hd[q].total \in Nat /\ hd[q].size <= hd[q].total
      /\ hd[q].total <= alloc[hd[q].tok].bytes /\ alloc[hd[q].tok].bytes \in Nat
  BY BusyType DEF SpanCounted, Counting
<1> QED BY <1>1 DEF Span

\* No position of a byte count is given out twice.
LEMMA EachByteStep ==
  ASSUME RTypeOK, HandlerShape, FreshUnused, SpanCounted, CarriedCounted, EachByteOnce, Next
  PROVE  EachByteOnce'
<1> DEFINE Apart(r) == /\ Span(r) \cap carried[hd[r].tok] = {}
                       /\ \A q \in Handlers \ {r} :
                             hd[q].pc \in Counting /\ hd[q].tok = hd[r].tok => Span(q) \cap Span(r) = {}
<1>0. EachByteOnce <=> \A r \in Handlers : hd[r].pc \in Counting => Apart(r)
  BY DEF EachByteOnce, Counting
<1>p. EachByteOnce' <=> \A r \in Handlers : hd'[r].pc \in Counting => Apart(r)'
  BY DEF EachByteOnce, Counting
<1>1. ASSUME NEW r \in Handlers, countBytes(r) PROVE EachByteOnce'
  <2> DEFINE B == alloc[hd[r].tok].bytes
  <2>1. \A q \in Handlers \ {r} : hd'[q] = hd[q] /\ Span(q)' = Span(q)
    BY <1>1, HandlingFrame DEF Handling, Steps, Span
  <2>2. B \in Nat /\ hd[r].size \in Nat /\ hd[r].tok \in Tokens
    BY <1>1, BusyType DEF countBytes
  <2>3. hd'[r].tok = hd[r].tok /\ UNCHANGED carried
    BY <1>1, CountSteps
  <2>4. \A k \in Span(r)' : k \in Int /\ k > B
    BY <1>1, <2>2, CountSteps DEF Span
  <2>5. \A k \in carried[hd[r].tok] : k \in Nat /\ k <= B
    BY <2>2 DEF CarriedCounted, RTypeOK
  <2>6. \A q \in Handlers \ {r} : hd[q].pc \in Counting /\ hd[q].tok = hd[r].tok =>
           \A k \in Span(q) : k \in Nat /\ k <= B
    BY SpanBounds
  <2> HIDE DEF B
  <2>7. \A q \in Handlers \ {r} : hd'[q].pc \in Counting /\ hd'[q].tok = hd'[r].tok =>
           Span(q)' \cap Span(r)' = {}
    BY <2>1, <2>2, <2>3, <2>4, <2>6
  <2>8. Span(r)' \cap carried'[hd'[r].tok] = {}
    BY <2>2, <2>3, <2>4, <2>5
  <2>9. ASSUME NEW q \in Handlers \ {r}, hd'[q].pc \in Counting PROVE Apart(q)'
    <3>1. Apart(q)
      BY <1>0, <2>1, <2>9
    <3>2. hd'[r].pc \in Counting /\ hd'[r].tok = hd'[q].tok => Span(r)' \cap Span(q)' = {}
      BY <2>7, <2>9
    <3>3. \A p \in Handlers \ {q, r} : hd'[p].pc \in Counting /\ hd'[p].tok = hd'[q].tok =>
             Span(p)' \cap Span(q)' = {}
      BY <2>1, <3>1
    <3> QED BY <2>1, <2>3, <3>1, <3>2, <3>3
  <2> QED BY <1>p, <2>7, <2>8, <2>9
<1>2. ASSUME NEW r \in Handlers, charge(r) PROVE EachByteOnce'
  <2>1. \A q \in Handlers \ {r} : hd'[q] = hd[q]
    BY <1>2, HandlingFrame DEF Handling, Steps
  <2>2. /\ hd[r].pc \in Counting
        /\ hd'[r].size = hd[r].size /\ hd'[r].tok = hd[r].tok /\ hd'[r].total = hd[r].total
        /\ UNCHANGED carried
    BY <1>2, CountSteps DEF Counting
  <2>3. \A q \in Handlers : /\ Span(q)' = Span(q) /\ hd'[q].tok = hd[q].tok
                            /\ hd'[q].pc \in Counting => hd[q].pc \in Counting
    BY <2>1, <2>2 DEF Span
  <2> QED BY <1>0, <1>p, <2>2, <2>3
<1>3. ASSUME NEW r \in Handlers, forward(r) PROVE EachByteOnce'
  <2>1. \A q \in Handlers \ {r} : hd'[q] = hd[q] /\ Span(q)' = Span(q)
    BY <1>3, HandlingFrame DEF Handling, Steps, Span
  <2>2. hd'[r].pc \notin Counting /\ hd[r].pc \in Counting
    BY <1>3 DEF forward, RTypeOK, IdleHandler, Counting
  <2>3. \A t \in Tokens : carried'[t] = IF t = hd[r].tok THEN carried[t] \cup Span(r) ELSE carried[t]
    BY <1>3 DEF forward, RTypeOK
  <2>4. \A q \in Handlers : hd[q].pc \in Counting => hd[q].tok \in Tokens
    BY BusyType DEF Counting
  <2>5. \A q \in Handlers : hd[q].pc \in Counting => Apart(q)
    BY <1>0
  <2>6. ASSUME NEW q \in Handlers \ {r}, hd'[q].pc \in Counting PROVE Apart(q)'
    <3>1. Apart(q) /\ (hd[r].tok = hd[q].tok => Span(r) \cap Span(q) = {}) /\ hd[q].tok \in Tokens
      BY <2>1, <2>2, <2>4, <2>5, <2>6
    <3>2. Span(q)' \cap carried'[hd'[q].tok] = {}
      BY <2>1, <2>3, <3>1
    <3>3. \A p \in Handlers \ {q} : hd'[p].pc \in Counting /\ hd'[p].tok = hd'[q].tok =>
             Span(p)' \cap Span(q)' = {}
      BY <2>1, <2>2, <3>1
    <3> QED BY <3>2, <3>3
  <2> QED BY <1>p, <2>2, <2>6
<1>4. CASE \A r \in Handlers : ~countBytes(r) /\ ~charge(r) /\ ~forward(r)
  <2>1. UNCHANGED carried
    BY <1>4 DEF Next, Datagram, Handling, allocateCheck, allocateInsert, Drain, usedToday, hello, sweep, Tick,
                registerUDP, registerWS, handle, register, route, nudge, cutOff, history
  <2>2. \A q \in Handlers : hd'[q] = hd[q] \/ hd'[q].pc \notin Counting
    BY <1>4, CountingFrame
  <2>3. \A q \in Handlers : hd'[q].pc \in Counting => hd'[q] = hd[q] /\ Span(q)' = Span(q)
    BY <2>2 DEF Span
  <2> QED BY <1>0, <1>p, <2>1, <2>3
<1> QED BY <1>1, <1>2, <1>3, <1>4

-----------------------------------------------------------------------------
\* Rolling keeps the budget ahead of what it let through, and what it let
\* through within the limit (roll).
LEMMA RolledCovers ==
  ASSUME RTypeOK, BudgetCovers, WindowBudget, NEW t \in Times
  PROVE  /\ RolledWindow(t) <= Rolled(t).used
         /\ MaxBytesPerDay > 0 => RolledWindow(t) <= MaxBytesPerDay
  BY RelayAssumption DEF RTypeOK, BudgetCovers, WindowBudget, Rolled, RolledWindow

\* The budget lets nothing through that it does not account.
LEMMA BudgetStep ==
  ASSUME RTypeOK, HandlerShape, BudgetCovers, WindowBudget, Next
  PROVE  BudgetCovers' /\ WindowBudget'
<1> USE DEF BudgetCovers, WindowBudget
<1>1. CASE UNCHANGED <<budget, windowBytes>>
  BY <1>1
<1>2. now \in Times
  BY DEF RTypeOK
<1>3. ASSUME NEW t \in Tokens, allocateCheck(t) PROVE BudgetCovers' /\ WindowBudget'
  BY <1>2, <1>3, RolledCovers DEF allocateCheck
<1>4. CASE usedToday
  BY <1>2, <1>4, RolledCovers DEF usedToday
<1>5. ASSUME NEW r \in Handlers, charge(r) PROVE BudgetCovers' /\ WindowBudget'
  <2> DEFINE R == Rolled(hd[r].at)
             W == RolledWindow(hd[r].at)
             n == hd[r].size
             b == [R EXCEPT !.used = @ + n]
  <2>1. hd[r].at \in Times /\ n \in Nat
    BY <1>5, BusyType DEF charge
  <2>2. /\ W <= R.used /\ (MaxBytesPerDay > 0 => W <= MaxBytesPerDay)
        /\ R \in [day : Days, used : Nat] /\ W \in Nat
    BY <2>1, RolledCovers, RolledType
  <2>3. b.used = R.used + n /\ R.used \in Nat
    BY <2>2
  <2>4. CASE MaxBytesPerDay = 0
    BY <1>1, <1>5, <2>4 DEF charge
  <2>5. CASE MaxBytesPerDay > 0
    <3>1. budget' = b /\ windowBytes' = W + (IF OverBudget(b.used) THEN 0 ELSE n)
      BY <1>5, <2>5 DEF charge
    <3> HIDE DEF R, W, n, b
    <3> QED BY <2>1, <2>2, <2>3, <2>5, <3>1, RelayAssumption DEF OverBudget
  <2> QED BY <2>4, <2>5, RelayAssumption
<1>6. CASE \/ \E t \in Tokens : allocateInsert(t)
           \/ Drain \/ (\E t \in Tokens, src \in Udp : hello(t, src)) \/ sweep \/ Tick
  BY <1>1, <1>6 DEF allocateInsert, Drain, hello, sweep, Tick, history
<1>7. ASSUME NEW r \in Handlers, Datagram(r) PROVE BudgetCovers' /\ WindowBudget'
  BY <1>1, <1>7, DatagramFrame
<1>8. ASSUME NEW r \in Handlers, Handling(r), ~charge(r) PROVE BudgetCovers' /\ WindowBudget'
  BY <1>1, <1>8 DEF Handling, register, route, nudge, countBytes, cutOff, forward, history
<1> QED BY <1>3, <1>4, <1>5, <1>6, <1>7, <1>8 DEF Next

\* What was cut is not put back, nor explained away.
LEMMA CutStep ==
  ASSUME RTypeOK, HandlerShape, FreshUnused, CutStaysCut, Next
  PROVE  CutStaysCut'
<1> USE DEF CutStaysCut
<1>1. ASSUME NEW t \in Tokens, allocateCheck(t) PROVE CutStaysCut'
  BY <1>1 DEF allocateCheck
<1>2. ASSUME NEW t \in Tokens, allocateInsert(t) PROVE CutStaysCut'
  <2>1. t \notin capped
    BY <1>2 DEF allocateInsert, FreshUnused
  <2> QED BY <1>2, <2>1 DEF allocateInsert
<1>3. CASE Drain \/ usedToday \/ (\E t \in Tokens, src \in Udp : hello(t, src)) \/ Tick
  BY <1>3 DEF Drain, usedToday, hello, Tick, history
<1>4. ASSUME NEW r \in Handlers, Datagram(r) PROVE CutStaysCut'
  BY <1>4, DatagramFrame
<1>5. ASSUME NEW r \in Handlers, cutOff(r) PROVE CutStaysCut'
  <2>1. tombstone'[hd[r].tok].reason # "idle"
    BY <1>5, BusyType DEF cutOff, evict, RTypeOK, Tombstone
  <2>2. \A t \in Tokens \ {hd[r].tok} : tombstone'[t] = tombstone[t]
    BY <1>5 DEF cutOff, evict, RTypeOK
  <2> QED BY <1>5, <2>1, <2>2 DEF cutOff, evict, RTypeOK
<1>6. ASSUME NEW r \in Handlers, Handling(r), ~cutOff(r) PROVE CutStaysCut'
  BY <1>6 DEF Handling, register, route, nudge, countBytes, charge, forward, history
<1>7. CASE sweep
  <2>1. \A t \in capped : t \in Tokens /\ (tombstone'[t] = NoTombstone \/ tombstone'[t] = tombstone[t])
    BY <1>7 DEF sweep, RTypeOK
  <2> QED BY <1>7, <2>1 DEF sweep, history, NoTombstone
<1> QED BY <1>1, <1>2, <1>3, <1>4, <1>5, <1>6, <1>7 DEF Next

\* The note of the last activity stays within a handler's lag of the activity.
LEMMA ActivityStep ==
  ASSUME RTypeOK, HandlerShape, ActivityNoted, Next
  PROVE  ActivityNoted'
<1> USE RelayAssumption DEF ActivityNoted
<1>0. alloc \in [Tokens -> Allocation] /\ activeAt \in [Tokens -> Times] /\ now \in Times
  BY DEF RTypeOK
<1>1. CASE UNCHANGED <<alloc, activeAt>>
  BY <1>1
<1>2. ASSUME NEW t \in Tokens, allocateInsert(t) PROVE ActivityNoted'
  <2>1. now <= now + MaxLag
    BY <1>0 DEF Times
  <2> QED BY <1>0, <1>2, <2>1 DEF allocateInsert, NewAllocation
<1>3. CASE \/ \E t \in Tokens : allocateCheck(t)
           \/ Drain \/ usedToday \/ (\E t \in Tokens, src \in Udp : hello(t, src)) \/ sweep \/ Tick
  BY <1>1, <1>3 DEF allocateCheck, Drain, usedToday, hello, sweep, Tick, history
<1>4. ASSUME NEW r \in Handlers, Datagram(r) PROVE ActivityNoted'
  BY <1>1, <1>4, DatagramFrame
<1>5. ASSUME NEW r \in Handlers, register(r) PROVE ActivityNoted'
  <2>1. now <= hd[r].at + MaxLag
    BY <1>5 DEF register, HandlerShape
  <2> DEFINE t == hd[r].tok
  <2>2. CASE UNCHANGED <<alloc, activeAt>>
    BY <1>1, <2>2
  <2>3. CASE ~UNCHANGED <<alloc, activeAt>>
    <3> DEFINE slot == RegisterSlot(alloc[t], hd[r].from.id)
               a == [alloc[t] EXCEPT !.p0 = IF slot = "p0" THEN hd[r].from ELSE @,
                                     !.p1 = IF slot = "p1" THEN hd[r].from ELSE @,
                                     !.lastActivity = hd[r].at]
    <3>1. alloc' = [alloc EXCEPT ![t] = a] /\ activeAt' = [activeAt EXCEPT ![t] = now] /\ t \in Tokens
      BY <1>5, <2>3, RegisterFrame
    <3>2. a.lastActivity = hd[r].at
      BY <1>0, <3>1 DEF Allocation
    <3> HIDE DEF a
    <3> QED BY <1>0, <2>1, <3>1, <3>2
  <2> QED BY <2>2, <2>3
<1>6. ASSUME NEW r \in Handlers, route(r) PROVE ActivityNoted'
  <2>1. now <= hd[r].at + MaxLag
    BY <1>6 DEF route, HandlerShape
  <2> QED BY <1>0, <1>6, <2>1 DEF route, Allocation
<1>7. ASSUME NEW r \in Handlers, nudge(r) \/ countBytes(r) \/ charge(r) \/ cutOff(r) \/ forward(r)
      PROVE  ActivityNoted'
  <2>1. \A t \in Tokens : alloc'[t].lastActivity = alloc[t].lastActivity
    BY <1>0, <1>7 DEF nudge, countBytes, charge, cutOff, forward, Allocation
  <2>2. UNCHANGED activeAt
    BY <1>7 DEF nudge, countBytes, charge, cutOff, forward, history
  <2> QED BY <2>1, <2>2
<1> QED BY <1>2, <1>3, <1>4, <1>5, <1>6, <1>7 DEF Next, Handling

-----------------------------------------------------------------------------
\* A UDP address is known to have answered for token t.
Answered(p, t) == p # NoPeer /\ p.ep \in Udp => \E c \in cookies : c.tok = t /\ c.src = p.ep

\* Only register puts a peer in a slot; the other steps keep it or, for a new
\* allocation, start without peers.
LEMMA PeersFrame ==
  ASSUME RTypeOK, Next, \A r \in Handlers : ~register(r)
  PROVE  \A t \in Tokens : \/ alloc'[t].p0 = alloc[t].p0 /\ alloc'[t].p1 = alloc[t].p1
                           \/ alloc'[t].p0 = NoPeer /\ alloc'[t].p1 = NoPeer
<1>0. alloc \in [Tokens -> Allocation]
  BY DEF RTypeOK
<1>1. ASSUME NEW t \in Tokens, allocateInsert(t)
      PROVE  alloc'[t] = NewAllocation /\ \A u \in Tokens \ {t} : alloc'[u] = alloc[u]
  BY <1>0, <1>1 DEF allocateInsert
<1>2. NewAllocation.p0 = NoPeer /\ NewAllocation.p1 = NoPeer
  BY DEF NewAllocation
<1>3. CASE \/ \E t \in Tokens : allocateCheck(t)
           \/ Drain \/ usedToday \/ (\E t \in Tokens, src \in Udp : hello(t, src)) \/ sweep \/ Tick
  BY <1>3 DEF allocateCheck, Drain, usedToday, hello, sweep, Tick
<1>4. ASSUME NEW r \in Handlers, Datagram(r) PROVE UNCHANGED alloc
  BY <1>4, DatagramFrame
<1>5. ASSUME NEW r \in Handlers, Handling(r), ~register(r)
      PROVE  \A t \in Tokens : alloc'[t].p0 = alloc[t].p0 /\ alloc'[t].p1 = alloc[t].p1
  BY <1>0, <1>5 DEF Handling, route, nudge, countBytes, charge, cutOff, forward, Allocation
<1> QED BY <1>1, <1>2, <1>3, <1>4, <1>5 DEF Next

\* The peers after a registration.
LEMMA RegisterPeers ==
  ASSUME RTypeOK, HandlerShape, NEW r \in Handlers, register(r), NEW t \in Tokens,
         NEW slot, slot = RegisterSlot(alloc[hd[r].tok], hd[r].from.id)
  PROVE  \/ alloc'[t] = alloc[t]
         \/ /\ t = hd[r].tok
            /\ alloc'[t].p0 = IF slot = "p0" THEN hd[r].from ELSE alloc[t].p0
            /\ alloc'[t].p1 = IF slot = "p1" THEN hd[r].from ELSE alloc[t].p1
<1> DEFINE u == hd[r].tok
           a == [alloc[u] EXCEPT !.p0 = IF slot = "p0" THEN hd[r].from ELSE @,
                                 !.p1 = IF slot = "p1" THEN hd[r].from ELSE @,
                                 !.lastActivity = hd[r].at]
<1>0. alloc \in [Tokens -> Allocation] /\ u \in Tokens
  BY BusyType DEF RTypeOK, register
<1>1. alloc' = alloc \/ alloc' = [alloc EXCEPT ![u] = a]
  BY DEF register
<1>2. /\ a.p0 = IF slot = "p0" THEN hd[r].from ELSE alloc[u].p0
      /\ a.p1 = IF slot = "p1" THEN hd[r].from ELSE alloc[u].p1
  BY <1>0 DEF Allocation
<1> HIDE DEF a
<1> QED BY <1>0, <1>1, <1>2

\* A registration takes a slot that keeps the two peers apart (register).
LEMMA RegisterApart ==
  ASSUME NEW a \in Allocation, NEW p \in Peer, a.p0 # NoPeer /\ a.p1 # NoPeer => a.p0.id # a.p1.id,
         NEW slot, slot = RegisterSlot(a, p.id)
  PROVE  LET q0 == IF slot = "p0" THEN p ELSE a.p0
             q1 == IF slot = "p1" THEN p ELSE a.p1
         IN  q0 # NoPeer /\ q1 # NoPeer => q0.id # q1.id \/ (q0 = a.p0 /\ q1 = a.p1)
  BY DEF RegisterSlot

\* Cookies are never taken back.
LEMMA CookiesKept == ASSUME Next PROVE cookies \subseteq cookies'
  BY ZenonT(60) DEF Next, Datagram, Handling, allocateCheck, allocateInsert, Drain, usedToday, hello, sweep, Tick,
         registerUDP, registerWS, handle, register, route, nudge, countBytes, charge, cutOff, forward, challenge

\* The allocation stays 1-1, between addresses that answered.
LEMMA OneToOneStep ==
  ASSUME RTypeOK, HandlerShape, OneToOne, Next
  PROVE  OneToOne'
<1>0. alloc \in [Tokens -> Allocation] /\ hd \in [Handlers -> Handler]
  BY DEF RTypeOK
<1>1. \A t \in Tokens : alloc'[t].p0 # NoPeer /\ alloc'[t].p1 # NoPeer => alloc'[t].p0.id # alloc'[t].p1.id
  <2>1. ASSUME NEW r \in Handlers, register(r), NEW t \in Tokens, alloc'[t].p0 # NoPeer, alloc'[t].p1 # NoPeer
        PROVE  alloc'[t].p0.id # alloc'[t].p1.id
    <3>1. hd[r].from \in Peer /\ hd[r].tok \in Tokens
      BY <2>1 DEF register, HandlerShape
    <3> DEFINE slot == RegisterSlot(alloc[hd[r].tok], hd[r].from.id)
    <3>2. CASE alloc'[t] = alloc[t]
      BY <2>1, <3>2 DEF OneToOne
    <3>3. CASE t = hd[r].tok /\ slot # "none" /\ alloc'[t] # alloc[t]
      <4>1. /\ alloc'[t].p0 = IF slot = "p0" THEN hd[r].from ELSE alloc[t].p0
            /\ alloc'[t].p1 = IF slot = "p1" THEN hd[r].from ELSE alloc[t].p1
        BY <2>1, <3>3, RegisterPeers
      <4> HIDE DEF slot
      <4>2. alloc[t] \in Allocation /\ (alloc[t].p0 # NoPeer /\ alloc[t].p1 # NoPeer => alloc[t].p0.id # alloc[t].p1.id)
        BY <1>0 DEF OneToOne
      <4>3. slot = RegisterSlot(alloc[t], hd[r].from.id)
        BY <3>3 DEF slot
      <4> QED BY <2>1, <3>1, <4>1, <4>2, <4>3, RegisterApart
    <3>4. alloc'[t] = alloc[t] \/ (t = hd[r].tok /\ slot # "none")
      BY <1>0, <2>1 DEF register
    <3> QED BY <3>2, <3>3, <3>4
  <2>2. CASE \A r \in Handlers : ~register(r)
    BY <2>2, PeersFrame DEF OneToOne
  <2> QED BY <2>1, <2>2
<1>2. \A r \in Handlers : hd'[r].dst # NoPeer => hd'[r].dst.id # hd'[r].from.id
  <2>1. ASSUME NEW r \in Handlers, route(r), hd'[r].dst # NoPeer PROVE hd'[r].dst.id # hd'[r].from.id
    <3> DEFINE a == alloc[hd[r].tok]
               d == Direction(a, hd[r].src)
    <3>1. hd[r].tok \in Tokens /\ Knows(a, hd[r].src)
      BY <2>1 DEF route, HandlerShape
    <3>2. hd'[r].dst = d.dst /\ hd'[r].from = d.from
      BY <1>0, <2>1 DEF route, IdleHandler, Handler
    <3>3. a.p0 # NoPeer /\ a.p1 # NoPeer => a.p0.id # a.p1.id
      BY <3>1 DEF OneToOne
    <3> HIDE DEF a
    <3> QED BY <2>1, <3>1, <3>2, <3>3 DEF Direction, Knows
  <2>2. ASSUME NEW r \in Handlers, hd'[r] = hd[r] \/ hd'[r].dst = NoPeer \/ 
                  (hd'[r].dst = hd[r].dst /\ hd'[r].from = hd[r].from), hd'[r].dst # NoPeer
        PROVE  hd'[r].dst.id # hd'[r].from.id
    BY <2>2 DEF OneToOne
  <2>3. ASSUME NEW r \in Handlers, Handling(r), ~route(r)
        PROVE  \A q \in Handlers : hd'[q] = hd[q] \/ hd'[q].dst = NoPeer \/
                  (hd'[q].dst = hd[q].dst /\ hd'[q].from = hd[q].from)
    <3>1. \A q \in Handlers \ {r} : hd'[q] = hd[q]
      BY <2>3, HandlingFrame DEF Steps
    <3>2. CASE countBytes(r)
      BY <1>0, <3>1, <3>2 DEF countBytes, Handler
    <3>3. CASE charge(r)
      BY <1>0, <3>1, <3>3 DEF charge, Handler
    <3>4. CASE register(r) \/ nudge(r) \/ cutOff(r) \/ forward(r)
      BY <1>0, <3>1, <3>4 DEF register, nudge, cutOff, forward, IdleHandler
    <3> QED BY <2>3, <3>2, <3>3, <3>4 DEF Handling
  <2>4. ASSUME NEW r \in Handlers, Datagram(r)
        PROVE  \A q \in Handlers : hd'[q] = hd[q] \/ hd'[q].dst = NoPeer
    BY <2>4, DatagramFrame DEF Takes
  <2>5. CASE \/ \E t \in Tokens : allocateCheck(t) \/ allocateInsert(t)
             \/ Drain \/ usedToday \/ (\E t \in Tokens, src \in Udp : hello(t, src)) \/ sweep \/ Tick
    BY <2>2, <2>5 DEF allocateCheck, allocateInsert, Drain, usedToday, hello, sweep, Tick
  <2>6. ASSUME NEW r \in Handlers, route(r) PROVE \A q \in Handlers \ {r} : hd'[q] = hd[q]
    BY <2>6, HandlingFrame DEF Handling, Steps
  <2> QED BY <2>1, <2>2, <2>3, <2>4, <2>5, <2>6 DEF Next
<1>3. \A t \in Tokens : \A p \in {alloc'[t].p0, alloc'[t].p1} : Answered(p, t)'
  <2>1. ASSUME NEW r \in Handlers, register(r), NEW t \in Tokens
        PROVE  \A p \in {alloc'[t].p0, alloc'[t].p1} : p \in {alloc[t].p0, alloc[t].p1} \/ (p = hd[r].from /\ t = hd[r].tok)
    BY <2>1, RegisterPeers
  <2>2. ASSUME NEW r \in Handlers, register(r) PROVE Answered(hd[r].from, hd[r].tok)
    BY <2>2 DEF register, HandlerShape, Answered
  <2>3. \A t \in Tokens : \A p \in {alloc'[t].p0, alloc'[t].p1} : p = NoPeer \/ Answered(p, t)
    <3>1. \A t \in Tokens : \A p \in {alloc[t].p0, alloc[t].p1} : Answered(p, t)
      BY DEF OneToOne, Answered
    <3>2. CASE \E r \in Handlers : register(r)
      BY <3>1, <3>2, <2>1, <2>2
    <3>3. CASE \A r \in Handlers : ~register(r)
      BY <3>1, <3>3, PeersFrame
    <3> QED BY <3>2, <3>3
  <2> QED BY <2>3, CookiesKept DEF Answered
<1> QED BY <1>1, <1>2, <1>3 DEF OneToOne, Answered

-----------------------------------------------------------------------------
\* The server starts with an empty table and idle handlers.
LEMMA InitInv == Init => RInv
<1> SUFFICES ASSUME Init PROVE RInv
  OBVIOUS
<1> USE RelayAssumption DEF Init
<1>1. RTypeOK
  <2>1. 0 \in Times /\ DayOf(0) \in Days
    BY IdleType, DayType
  <2>2. 0 \in Days
    BY DayType, IdleType DEF Days
  <2>3. NewAllocation \in Allocation
    BY <2>1 DEF NewAllocation, Allocation, Slot
  <2>4. NoTombstone \in Tombstone
    BY DEF NoTombstone, Tombstone
  <2> QED BY <2>1, <2>2, <2>3, <2>4, IdleType DEF RTypeOK
<1>2. FreshUnused
  BY DEF FreshUnused, IdleHandler
<1>3. HandlerShape /\ SpanCounted /\ EachByteOnce
  BY DEF HandlerShape, SpanCounted, EachByteOnce, Counting, IdleHandler
<1>4. CarriedCounted /\ BudgetCovers /\ WindowBudget /\ CutStaysCut
  BY DEF CarriedCounted, BudgetCovers, WindowBudget, CutStaysCut
<1>5. OneToOne
  BY DEF OneToOne, NewAllocation, IdleHandler
<1>6. ActivityNoted
  BY DEF ActivityNoted, NewAllocation
<1> QED BY <1>1, <1>2, <1>3, <1>4, <1>5, <1>6 DEF RInv

\* A stuttering step keeps all of it.
LEMMA StutterInv == RInv /\ UNCHANGED vars => RInv'
  BY DEF vars, intake, metrics, history, RInv, RTypeOK, FreshUnused, HandlerShape, SpanCounted, CarriedCounted,
         EachByteOnce, Span, BudgetCovers, WindowBudget, OneToOne, CutStaysCut, ActivityNoted, OverCap

\* RInv is an invariant of the relay.
THEOREM Invariance == Spec => []RInv
<1>1. RInv /\ Next => RInv'
  BY TypeStep, FreshStep, ShapeStep, SpanStep, CarriedStep, EachByteStep, BudgetStep, OneToOneStep,
     CutStep, ActivityStep DEF RInv
<1> QED BY <1>1, InitInv, StutterInv, PTL DEF Spec

\* Every variable of the relay keeps its type.
THEOREM RelayTypeCorrect == Spec => []RTypeOK
<1>1. RInv => RTypeOK
  BY DEF RInv
<1> QED BY <1>1, Invariance, PTL

\* No session carries more than the cap, whatever the number of read loops and
\* links that count its datagrams at once.
THEOREM CapCorrect == Spec => []CarriedWithinCap
<1>1. RInv => CarriedWithinCap
  <2> SUFFICES ASSUME RInv, MaxBytesPerSession > 0, NEW t \in Tokens
               PROVE  Cardinality(carried[t]) <= MaxBytesPerSession
    BY DEF CarriedWithinCap
  <2>1. MaxBytesPerSession \in Nat
    BY RelayAssumption
  <2>2. carried[t] \in SUBSET (1..MaxBytesPerSession)
    BY <2>1 DEF RInv, RTypeOK, CarriedCounted
  <2>3. IsFiniteSet(1..MaxBytesPerSession) /\ Cardinality(1..MaxBytesPerSession) = MaxBytesPerSession
    BY <2>1, FS_Interval
  <2>4. Cardinality(carried[t]) <= Cardinality(1..MaxBytesPerSession)
    BY <2>2, <2>3, FS_Subset
  <2> QED BY <2>3, <2>4
<1> QED BY <1>1, Invariance, PTL

\* No two datagrams of a session are accounted at the same place in its count.
THEOREM EachByteCorrect == Spec => []EachByteOnce
<1>1. RInv => EachByteOnce
  BY DEF RInv
<1> QED BY <1>1, Invariance, PTL

\* Between two rolls the relay forwards no more than the daily budget.
THEOREM BudgetCorrect == Spec => []WindowBudget
<1>1. RInv => WindowBudget
  BY DEF RInv
<1> QED BY <1>1, Invariance, PTL

\* An allocation is 1-1 between two addresses that answered a challenge.
THEOREM OneToOneCorrect == Spec => []OneToOne
<1>1. RInv => OneToOne
  BY DEF RInv
<1> QED BY <1>1, Invariance, PTL

\* A session that was cut off stays cut off, for the reason it was cut.
THEOREM CutCorrect == Spec => []CutStaysCut
<1>1. RInv => CutStaysCut
  BY DEF RInv
<1> QED BY <1>1, Invariance, PTL

\* The janitor drops for idleness no allocation that was heard within the timeout.
THEOREM ActiveCorrect == Spec => ActiveKept
<1> DEFINE A == \A t \in Tokens : t \in allocs \ allocs' /\ tombstone'[t].reason = "idle"
                   => activeAt[t] < now - sessionIdleTimeout + MaxLag
<1>1. RInv /\ [Next]_vars => [A]_vars
  <2> SUFFICES ASSUME RInv, Next, NEW t \in Tokens, t \in allocs \ allocs', tombstone'[t].reason = "idle"
               PROVE  activeAt[t] < now - sessionIdleTimeout + MaxLag
    OBVIOUS
  <2>1. \A r \in Handlers : ~Datagram(r)
    BY DatagramFrame DEF RInv
  <2>2. ASSUME NEW r \in Handlers, Handling(r) PROVE FALSE
    <3>1. cutOff(r)
      BY <2>2 DEF Handling, register, route, nudge, countBytes, charge, forward
    <3>2. tombstone'[t].reason \in {"cap_hit", "daily_budget"}
      BY <3>1 DEF cutOff, evict, RInv, RTypeOK
    <3> QED BY <3>2
  <2>3. sweep
    BY <2>1, <2>2 DEF Next, allocateCheck, allocateInsert, Drain, usedToday, hello, Tick
  <2>4. alloc[t].lastActivity < now - sessionIdleTimeout
    BY <2>3 DEF sweep, Idle
  <2>5. activeAt[t] <= alloc[t].lastActivity + MaxLag
    BY DEF RInv, ActivityNoted
  <2>6. activeAt[t] \in Int /\ alloc[t].lastActivity \in Int /\ now \in Int
    BY DEF RInv, RTypeOK, Times, Allocation
  <2> QED BY <2>4, <2>5, <2>6, RelayAssumption
<1> QED BY <1>1, Invariance, PTL DEF Spec, ActiveKept
=============================================================================
