----------------------------- MODULE RelayServer -----------------------------
(***************************************************************************)
(* The relay half of `fsend server` (internal/relay): a table of           *)
(* allocations, each of which forwards datagrams between two registered    *)
(* peers, under a byte cap per session and a byte budget per UTC day.      *)
(*                                                                         *)
(* Datagrams are handled concurrently: up to maxReaders read loops share   *)
(* the UDP socket and every WebSocket link has a goroutine of its own.  A  *)
(* Handler is one of them.  The hot path takes no lock for long, so handle *)
(* is one action per access to shared state: the table lookup, the peers,  *)
(* the byte counter, the budget, the eviction, the send.  A handler keeps  *)
(* the allocation it looked up, and the time it read, until it is done:    *)
(* alloc is the heap, and an entry outlives its removal from allocs.       *)
(*                                                                         *)
(* Token, PeerID and cookie are unguessable; a cookie is the triple that   *)
(* its HMAC covers.                                                        *)
(***************************************************************************)
EXTENDS Integers, FiniteSets

CONSTANTS
    Tokens,              \* bound: the allocations ever made
    Handlers,            \* the read loops and the links' goroutines
    PeerIDs,
    Udp,                 \* source addresses of datagrams
    Ws,                  \* WebSocket links
    NoPeer, NoToken, NoEndpoint,
    HeaderSize, ControlSize, MaxDatagram,
    DisableForwarding,
    MaxBytesPerSession,  \* 0 = unlimited
    MaxBytesPerDay,      \* 0 = unlimited
    Day,                 \* ticks in a UTC day
    sessionIdleTimeout, TombstoneTTL, cookieLifetime, nudgeInterval,
    MaxLag,              \* bound: ticks that can pass while a datagram is handled
    MaxTime              \* bound on the clock

ASSUME RelayAssumption ==
    /\ {HeaderSize, ControlSize, MaxDatagram} \subseteq Nat \ {0}
    /\ DisableForwarding \in BOOLEAN
    /\ {MaxBytesPerSession, MaxBytesPerDay, MaxLag, MaxTime} \subseteq Nat
    /\ {sessionIdleTimeout, TombstoneTTL, nudgeInterval} \subseteq Nat
    /\ {Day, cookieLifetime} \subseteq Nat \ {0}
    /\ NoToken \notin Tokens
    /\ NoEndpoint \notin Udp \cup Ws
    /\ Udp \cap Ws = {}
    /\ \A id \in PeerIDs, ep \in Udp \cup Ws : NoPeer # [id |-> id, ep |-> ep]

VARIABLES
    now,             \* the clock
    draining,
    drawn,           \* the random tokens Allocate has drawn; they never repeat
    allocating,      \* those whose Allocate has passed its checks and not inserted yet
    allocs,          \* the tokens in the table
    alloc,           \* the allocations behind them
    tombstone,       \* why and until when an evicted token is remembered
    budget,          \* dayBudget
    cookies,         \* the cookies sent in CHALLENGEs so far
    hd,              \* the handlers
    transfersCapped, transfersTotal,
    carried,         \* history: per token, the positions in the byte count forwarded
    windowBytes,     \* history: bytes the budget let through since it last rolled
    activeAt,        \* history: per token, when a peer was last heard
    capped           \* history: tokens cut at the cap or by the budget

intake == <<draining, drawn, allocating>>
metrics == <<transfersCapped, transfersTotal>>
history == <<carried, windowBytes, activeAt, capped>>
vars == <<now, intake, allocs, alloc, tombstone, budget, cookies, hd, metrics, history>>

Times == 0..MaxTime
Days == 0..(MaxTime \div Day)
Endpoints == Udp \cup Ws
Peer == [id : PeerIDs, ep : Endpoints]
Slot == Peer \cup {NoPeer}
Cookie == [tok : Tokens, src : Udp, epoch : Nat]

Allocation == [p0 : Slot, p1 : Slot, bytes : Nat, lastActivity : Times, lastNudge : Int, dataCounted : BOOLEAN]

Phases == {"idle", "registering", "found", "routed", "overCap", "counted", "overBudget", "paid"}
Handler == [pc : Phases, tok : Tokens \cup {NoToken}, src : Endpoints \cup {NoEndpoint},
            size : Nat, at : Times, from : Slot, dst : Slot, total : Nat]
IdleHandler == [pc |-> "idle", tok |-> NoToken, src |-> NoEndpoint, size |-> 0, at |-> 0,
                from |-> NoPeer, dst |-> NoPeer, total |-> 0]

Reasons == {"cap_hit", "daily_budget", "idle"}
Tombstone == [reason : Reasons \cup {""}, expiresAt : Nat]
NoTombstone == [reason |-> "", expiresAt |-> 0]

RTypeOK ==
    /\ now \in Times
    /\ draining \in BOOLEAN
    /\ drawn \subseteq Tokens
    /\ allocating \subseteq drawn
    /\ allocs \subseteq Tokens
    /\ alloc \in [Tokens -> Allocation]
    /\ tombstone \in [Tokens -> Tombstone]
    /\ budget \in [day : Days, used : Nat]
    /\ cookies \subseteq Cookie
    /\ hd \in [Handlers -> Handler]
    /\ transfersCapped \in Nat /\ transfersTotal \in Nat
    /\ carried \in [Tokens -> SUBSET Nat]
    /\ windowBytes \in Nat
    /\ activeAt \in [Tokens -> Times]
    /\ capped \subseteq Tokens

-----------------------------------------------------------------------------
\* (b *dayBudget) roll: the window follows the day of the time it is given.
DayOf(t) == t \div Day
Rolled(t) == IF DayOf(t) # budget.day THEN [day |-> DayOf(t), used |-> 0] ELSE budget
RolledWindow(t) == IF DayOf(t) # budget.day THEN 0 ELSE windowBytes

\* exhausted, after its roll.
exhausted(t) == MaxBytesPerDay > 0 /\ Rolled(t).used >= MaxBytesPerDay

NewAllocation == [p0 |-> NoPeer, p1 |-> NoPeer, bytes |-> 0, lastActivity |-> now,
                  lastNudge |-> -nudgeInterval, dataCounted |-> FALSE]

\* Allocate, up to the insertion: draining and the budget are checked, and a
\* token is drawn.
allocateCheck(t) ==
    /\ ~draining
    /\ t \notin drawn
    /\ budget' = IF MaxBytesPerDay > 0 THEN Rolled(now) ELSE budget
    /\ windowBytes' = IF MaxBytesPerDay > 0 THEN RolledWindow(now) ELSE windowBytes
    /\ \/ exhausted(now) /\ UNCHANGED <<drawn, allocating>>
       \/ ~exhausted(now) /\ drawn' = drawn \cup {t} /\ allocating' = allocating \cup {t}
    /\ UNCHANGED <<now, draining, allocs, alloc, tombstone, cookies, hd, metrics,
                   carried, activeAt, capped>>

allocateInsert(t) ==
    /\ t \in allocating
    /\ allocating' = allocating \ {t}
    /\ allocs' = allocs \cup {t}
    /\ alloc' = [alloc EXCEPT ![t] = NewAllocation]
    /\ activeAt' = [activeAt EXCEPT ![t] = now]
    /\ UNCHANGED <<now, draining, drawn, tombstone, budget, cookies, hd, metrics,
                   carried, windowBytes, capped>>

Drain ==
    /\ ~draining
    /\ draining' = TRUE
    /\ UNCHANGED <<now, drawn, allocating, allocs, alloc, tombstone, budget, cookies, hd, metrics, history>>

\* usedToday, read by /metrics, rolls the window too.
usedToday ==
    /\ budget' = Rolled(now)
    /\ windowBytes' = RolledWindow(now)
    /\ UNCHANGED <<now, intake, allocs, alloc, tombstone, cookies, hd, metrics,
                   carried, activeAt, capped>>

-----------------------------------------------------------------------------
cookieEpoch(t) == t \div cookieLifetime
cookie(t, src, at) == [tok |-> t, src |-> src, epoch |-> cookieEpoch(at)]

\* challenge: the reply cap may keep it from being sent.
challenge(t, src, at) == cookies' = cookies \cup {cookie(t, src, at)} \/ cookies' = cookies

cookieAnySource(c, t, src) ==   \* mutant: the cookie does not cover the address
    /\ c.tok = t
    /\ c.epoch \in {cookieEpoch(now), cookieEpoch(now) - 1}

cookieValid(c, t, src) ==
    /\ c.tok = t
    /\ c.src = src
    /\ c.epoch \in {cookieEpoch(now), cookieEpoch(now) - 1}

RegisterSlotFree(a, id) ==   \* mutant: a free slot is preferred to the peer's own
    IF a.p0 = NoPeer THEN "p0" ELSE IF a.p1 = NoPeer THEN "p1"
    ELSE IF a.p0.id = id THEN "p0" ELSE IF a.p1.id = id THEN "p1" ELSE "none"

\* The slot that register gives to peer id: its own, else a free one.
RegisterSlot(a, id) ==
    IF a.p0 # NoPeer /\ a.p0.id = id THEN "p0" ELSE IF a.p1 # NoPeer /\ a.p1.id = id THEN "p1"
    ELSE IF a.p0 = NoPeer THEN "p0" ELSE IF a.p1 = NoPeer THEN "p1" ELSE "none"

\* handleControl, HELLO over UDP.
hello(t, src) ==
    /\ ~DisableForwarding
    /\ t \in allocs
    /\ challenge(t, src, now)
    /\ UNCHANGED <<now, intake, allocs, alloc, tombstone, budget, hd, metrics, history>>

\* handleControl, REGISTER that echoes cookie c over UDP, up to the lookup.
registerUDP(r, t, id, src, c) ==
    /\ ~DisableForwarding
    /\ hd[r].pc = "idle"
    /\ t \in allocs
    /\ cookieValid(c, t, src)
    /\ hd' = [hd EXCEPT ![r] = [IdleHandler EXCEPT !.pc = "registering", !.tok = t, !.src = src,
                                                  !.at = now, !.from = [id |-> id, ep |-> src]]]
    /\ UNCHANGED <<now, intake, allocs, alloc, tombstone, budget, cookies, metrics, history>>

\* handleControl over a WebSocket: HELLO and REGISTER both register.
registerWS(r, t, id, src) ==
    /\ ~DisableForwarding
    /\ hd[r].pc = "idle"
    /\ t \in allocs
    /\ hd' = [hd EXCEPT ![r] = [IdleHandler EXCEPT !.pc = "registering", !.tok = t, !.src = src,
                                                  !.at = now, !.from = [id |-> id, ep |-> src]]]
    /\ UNCHANGED <<now, intake, allocs, alloc, tombstone, budget, cookies, metrics, history>>

\* (a *allocation) register and what handleControl does with its verdict.
register(r) ==
    LET t == hd[r].tok
        slot == RegisterSlot(alloc[t], hd[r].from.id)
    IN  /\ hd[r].pc = "registering"
        /\ hd' = [hd EXCEPT ![r] = IdleHandler]
        /\ \/ slot = "none" /\ UNCHANGED <<alloc, activeAt>>
           \/ /\ slot # "none"
              /\ alloc' = [alloc EXCEPT ![t] =
                             [alloc[t] EXCEPT !.p0 = IF slot = "p0" THEN hd[r].from ELSE @,
                                              !.p1 = IF slot = "p1" THEN hd[r].from ELSE @,
                                              !.lastActivity = hd[r].at]]
              /\ activeAt' = [activeAt EXCEPT ![t] = now]
        /\ UNCHANGED <<now, intake, allocs, tombstone, budget, cookies, metrics,
                       carried, windowBytes, capped>>

-----------------------------------------------------------------------------
\* handle, a data datagram of n bytes from src: the table lookup.
handle(r, t, src, n) ==
    /\ ~DisableForwarding
    /\ hd[r].pc = "idle"
    /\ t \in allocs
    /\ hd' = [hd EXCEPT ![r] = [IdleHandler EXCEPT !.pc = "found", !.tok = t, !.src = src,
                                                  !.size = n, !.at = now]]
    /\ UNCHANGED <<now, intake, allocs, alloc, tombstone, budget, cookies, metrics, history>>

Knows(a, src) == (a.p0 # NoPeer /\ a.p0.ep = src) \/ (a.p1 # NoPeer /\ a.p1.ep = src)

\* The sending side and the other one, for a source the allocation knows.
Direction(a, src) == IF a.p0 # NoPeer /\ a.p0.ep = src THEN [from |-> a.p0, dst |-> a.p1]
                                                       ELSE [from |-> a.p1, dst |-> a.p0]

\* A registered source: the peers are read and the activity noted.
route(r) ==
    LET t == hd[r].tok
        d == Direction(alloc[t], hd[r].src)
    IN  /\ hd[r].pc = "found"
        /\ Knows(alloc[t], hd[r].src)
        /\ alloc' = [alloc EXCEPT ![t].lastActivity = hd[r].at]
        /\ activeAt' = [activeAt EXCEPT ![t] = now]
        /\ hd' = [hd EXCEPT ![r] = IF d.dst = NoPeer THEN IdleHandler
                                   ELSE [@ EXCEPT !.pc = "routed", !.from = d.from, !.dst = d.dst]]
        /\ UNCHANGED <<now, intake, allocs, tombstone, budget, cookies, metrics,
                       carried, windowBytes, capped>>

\* An unknown source with a live token is dropped, and challenged when it may
\* be a peer whose NAT rebound.
nudge(r) ==
    LET t == hd[r].tok
        due == /\ hd[r].src \in Udp
               /\ hd[r].size >= ControlSize
               /\ hd[r].at - alloc[t].lastNudge >= nudgeInterval
    IN  /\ hd[r].pc = "found"
        /\ ~Knows(alloc[t], hd[r].src)
        /\ hd' = [hd EXCEPT ![r] = IdleHandler]
        /\ \/ /\ due
              /\ alloc' = [alloc EXCEPT ![t].lastNudge = hd[r].at]
              /\ challenge(t, hd[r].src, hd[r].at)
           \/ ~due /\ UNCHANGED <<alloc, cookies>>
        /\ UNCHANGED <<now, intake, allocs, tombstone, budget, metrics, history>>

OverCapPayload(total) ==   \* mutant: the header does not count
    MaxBytesPerSession > 0 /\ total - HeaderSize > MaxBytesPerSession
OverCap(total) == MaxBytesPerSession > 0 /\ total > MaxBytesPerSession

\* The counter after wireSize is added to it.
BytesRead(t, n) == alloc[t].bytes   \* mutant: Load where the code has Add
BytesAdded(t, n) == alloc[t].bytes + n

\* total := a.bytes.Add(wireSize), and the cap.
countBytes(r) ==
    LET t == hd[r].tok
        total == alloc[t].bytes + hd[r].size
    IN  /\ hd[r].pc = "routed"
        /\ alloc' = [alloc EXCEPT ![t].bytes = BytesAdded(t, hd[r].size)]
        /\ hd' = [hd EXCEPT ![r] = [@ EXCEPT !.pc = IF OverCap(total) THEN "overCap" ELSE "counted",
                                             !.total = total]]
        /\ transfersCapped' = IF OverCap(total) THEN transfersCapped + 1 ELSE transfersCapped
        /\ UNCHANGED <<now, intake, allocs, tombstone, budget, cookies, transfersTotal, history>>

OverBudgetPayload(used) ==   \* mutant: the last header does not count
    MaxBytesPerDay > 0 /\ used - HeaderSize > MaxBytesPerDay
OverBudget(used) == MaxBytesPerDay > 0 /\ used > MaxBytesPerDay

\* (b *dayBudget) charge, with the time the handler read at its start.
charge(r) ==
    LET b == [Rolled(hd[r].at) EXCEPT !.used = @ + hd[r].size]
        over == OverBudget(b.used)
    IN  /\ hd[r].pc = "counted"
        /\ budget' = IF MaxBytesPerDay > 0 THEN b ELSE budget
        /\ windowBytes' = IF MaxBytesPerDay > 0
                          THEN RolledWindow(hd[r].at) + (IF over THEN 0 ELSE hd[r].size) ELSE windowBytes
        /\ hd' = [hd EXCEPT ![r].pc = IF over THEN "overBudget" ELSE "paid"]
        /\ UNCHANGED <<now, intake, allocs, alloc, tombstone, cookies, metrics,
                       carried, activeAt, capped>>

evictKeeps(t, reason) ==   \* mutant: the entry stays in the table
    /\ allocs' = allocs
    /\ tombstone' = [tombstone EXCEPT ![t] = [reason |-> reason, expiresAt |-> now + TombstoneTTL]]

\* The token need not be live any more.
evict(t, reason) ==
    /\ allocs' = allocs \ {t}
    /\ tombstone' = [tombstone EXCEPT ![t] = [reason |-> reason, expiresAt |-> now + TombstoneTTL]]

\* The handler cuts its session off, for the cap or for the budget.
cutOff(r) ==
    LET t == hd[r].tok
    IN  /\ hd[r].pc \in {"overCap", "overBudget"}
        /\ evict(t, IF hd[r].pc = "overCap" THEN "cap_hit" ELSE "daily_budget")
        /\ hd' = [hd EXCEPT ![r] = IdleHandler]
        /\ capped' = capped \cup {t}
        /\ UNCHANGED <<now, intake, alloc, budget, cookies, metrics,
                       carried, windowBytes, activeAt>>

\* The positions that the handler's datagram has in its session's byte count.
Span(r) == (hd[r].total - hd[r].size + 1) .. hd[r].total

\* a.dataCounted.CompareAndSwap(false, true)
FirstByte(t) == ~alloc[t].dataCounted

\* The datagram is counted as forwarded and sent.
forward(r) ==
    LET t == hd[r].tok
    IN  /\ hd[r].pc = "paid"
        /\ transfersTotal' = IF FirstByte(t) THEN transfersTotal + 1 ELSE transfersTotal
        /\ alloc' = [alloc EXCEPT ![t].dataCounted = TRUE]
        /\ carried' = [carried EXCEPT ![t] = @ \cup Span(r)]
        /\ hd' = [hd EXCEPT ![r] = IdleHandler]
        /\ UNCHANGED <<now, intake, allocs, tombstone, budget, cookies, transfersCapped,
                       windowBytes, activeAt, capped>>

-----------------------------------------------------------------------------
IdleEarly(t) ==   \* mutant: silent for exactly the timeout counts as idle
    alloc[t].lastActivity <= now - sessionIdleTimeout
Idle(t) == alloc[t].lastActivity < now - sessionIdleTimeout

\* The janitor.
sweep ==
    /\ allocs' = {t \in allocs : ~Idle(t)}
    /\ tombstone' = [t \in Tokens |->
                       IF t \in allocs /\ Idle(t)
                       THEN [reason |-> "idle", expiresAt |-> now + TombstoneTTL]
                       ELSE IF tombstone[t].expiresAt < now THEN NoTombstone ELSE tombstone[t]]
    /\ UNCHANGED <<now, intake, alloc, budget, cookies, hd, metrics, history>>

\* What /v1/relay/status tells about a token.
Status(t) == IF t \in allocs THEN "" ELSE tombstone[t].reason

Tick ==
    /\ now < MaxTime
    /\ \A r \in Handlers : hd[r].pc # "idle" => now < hd[r].at + MaxLag
    /\ now' = now + 1
    /\ UNCHANGED <<intake, allocs, alloc, tombstone, budget, cookies, hd, metrics, history>>

-----------------------------------------------------------------------------
Init ==
    /\ now = 0
    /\ draining = FALSE
    /\ drawn = {} /\ allocating = {} /\ allocs = {}
    /\ alloc = [t \in Tokens |-> NewAllocation]
    /\ tombstone = [t \in Tokens |-> NoTombstone]
    /\ budget = [day |-> 0, used |-> 0]
    /\ cookies = {}
    /\ hd = [r \in Handlers |-> IdleHandler]
    /\ transfersCapped = 0 /\ transfersTotal = 0
    /\ carried = [t \in Tokens |-> {}]
    /\ windowBytes = 0
    /\ activeAt = [t \in Tokens |-> 0]
    /\ capped = {}

Datagram(r) ==
    \/ \E t \in Tokens, id \in PeerIDs, src \in Udp, c \in cookies : registerUDP(r, t, id, src, c)
    \/ \E t \in Tokens, id \in PeerIDs, src \in Ws : registerWS(r, t, id, src)
    \/ \E t \in Tokens, src \in Endpoints, n \in HeaderSize..MaxDatagram : handle(r, t, src, n)

Handling(r) ==
    register(r) \/ route(r) \/ nudge(r) \/ countBytes(r) \/ charge(r) \/ cutOff(r) \/ forward(r)

Next ==
    \/ \E t \in Tokens : allocateCheck(t) \/ allocateInsert(t)
    \/ Drain
    \/ usedToday
    \/ \E t \in Tokens, src \in Udp : hello(t, src)
    \/ \E r \in Handlers : Datagram(r) \/ Handling(r)
    \/ sweep
    \/ Tick

Spec == Init /\ [][Next]_vars

-----------------------------------------------------------------------------
\* A session never forwards more than MaxBytesPerSession bytes, however many
\* read loops and links count and forward its datagrams at once (handle).
CarriedWithinCap ==
    MaxBytesPerSession > 0 => \A t \in Tokens : Cardinality(carried[t]) <= MaxBytesPerSession

\* Concurrent handlers never account the same part of a session's byte count:
\* what is forwarded, and what each handler is about to forward, are disjoint
\* (a.bytes.Add is read and updated in one step).
EachByteOnce ==
    \A r \in Handlers : hd[r].pc \in {"overCap", "counted", "overBudget", "paid"} =>
        /\ Span(r) \cap carried[hd[r].tok] = {}
        /\ \A q \in Handlers \ {r} :
              hd[q].pc \in {"overCap", "counted", "overBudget", "paid"} /\ hd[q].tok = hd[r].tok
              => Span(q) \cap Span(r) = {}

\* An allocation that was cut stays cut, and the janitor does not rewrite the
\* reason to idle under the status query that explains the cut.
CutStaysCut == \A t \in capped : t \notin allocs /\ tombstone[t].reason # "idle"

\* Between two rolls the budget lets through at most MaxBytesPerDay bytes.
WindowBudget == MaxBytesPerDay > 0 => windowBytes <= MaxBytesPerDay

\* The allocation is 1-1 between two addresses that answered: its slots never
\* hold the same peer, a datagram is routed from one to the other and never
\* back (register, handle), and a UDP address is recorded, and so forwarded to,
\* only once a cookie for this allocation was sent to that very address
\* (handleControl).
OneToOne ==
    /\ \A t \in Tokens : LET a == alloc[t]
                         IN  a.p0 # NoPeer /\ a.p1 # NoPeer => a.p0.id # a.p1.id
    /\ \A r \in Handlers : hd[r].dst # NoPeer => hd[r].dst.id # hd[r].from.id
    /\ \A t \in Tokens : \A p \in {alloc[t].p0, alloc[t].p1} :
        p # NoPeer /\ p.ep \in Udp => \E c \in cookies : c.tok = t /\ c.src = p.ep

\* The janitor takes no allocation for idle that heard one of its peers within
\* the timeout, up to the time a datagram takes to be handled.
ActiveKept ==
    [][\A t \in Tokens : t \in allocs \ allocs' /\ tombstone'[t].reason = "idle"
          => activeAt[t] < now - sessionIdleTimeout + MaxLag]_vars
=============================================================================
