--------------------------------- MODULE Link ---------------------------------
(***************************************************************************)
(* How the two paired sides agree on an internet path and set it up        *)
(* (cmd/fsend/internet.go, internal/iceconn, the candidate endpoints of     *)
(* internal/server, internal/relay's client).  Each side runs an ICE agent, *)
(* a goroutine that pushes its candidates to the pairing server and one     *)
(* that pulls the other's.  The sender dials within a budget and publishes  *)
(* its choice among its candidates; the receiver accepts and follows it.    *)
(* A side that is not on ICE allocates the session's relay and registers    *)
(* with it over UDP, or over a WebSocket when UDP stays unanswered.         *)
(*                                                                          *)
(* UDP datagrams may be delayed, lost, reordered; a resend may duplicate    *)
(* them.  A cookie outlives a registration by far, so it is reduced to the  *)
(* address that it covers.                                                  *)
(***************************************************************************)
EXTENDS Naturals, Sequences, FiniteSets

CONSTANTS maxCandidatesPerSide,  \* what the server stores for a side
          MaxGather,             \* bound on the candidates a side gathers
          MaxRebinds,            \* bound on the changes of a side's UDP address
          MaxInFlight,           \* bound on a side's datagrams that are under way
          MaxFaults              \* bound on faults

ASSUME LinkAssumption == /\ maxCandidatesPerSide \in Nat /\ MaxGather \in Nat
                         /\ MaxRebinds \in Nat /\ MaxInFlight \in Nat \ {0} /\ MaxFaults \in Nat

VARIABLES side,      \* the process on each side
          published, \* what the server holds for each side
          relay,     \* the server's relay: kind, allocation, registered endpoints
          net,       \* UDP datagrams between the sides and the relay
          faults,    \* faults so far
          seen       \* history: what became of the sender's choice

vars == <<side, published, relay, net, faults, seen>>

Sides == {"sender", "receiver"}
Other(s) == IF s = "sender" THEN "receiver" ELSE "sender"
Items == {"candidate", "ice", "relay"}
Choices == {"none", "ice", "relay"}

(* An address of the side's UDP socket, its WebSocket, or nothing. *)
Tcp == MaxRebinds + 1
Unregistered == MaxRebinds + 2
Addrs == 0..MaxRebinds

Side == [pc : {"new", "check", "publish", "wind", "fall", "alloc", "udp", "tcp", "up", "failed"},
         agent : {"none", "open", "closed"},
         left : 0..MaxGather, local : 0..MaxGather, localClosed : BOOLEAN,  \* gathering, localCh
         push : {"idle", "busy", "done"}, batch : 0..MaxGather,             \* the pushing goroutine
         pull : {"on", "done"}, since : 0..maxCandidatesPerSide,            \* the pulling one
         knows : BOOLEAN,                     \* the agent has a remote candidate
         check : {"none", "ok", "err"},       \* what Dial or Accept returned
         decision : Choices, choice : Choices,
         stop : BOOLEAN, cancel : BOOLEAN,
         path : {"none", "ice", "udp", "tcp"},
         addr : Addrs, hello : BOOLEAN, inbound : BOOLEAN]

NewSide == [pc |-> "new", agent |-> "none", left |-> MaxGather, local |-> 0, localClosed |-> FALSE,
            push |-> "idle", batch |-> 0, pull |-> "on", since |-> 0, knows |-> FALSE,
            check |-> "none", decision |-> "none", choice |-> "none",
            stop |-> FALSE, cancel |-> FALSE, path |-> "none",
            addr |-> 0, hello |-> TRUE, inbound |-> FALSE]

Types == {"HELLO", "CHALLENGE", "REGISTER", "REGISTERED"}
Datagram == [t : Types, of : Sides, addr : Addrs]

Server == UNCHANGED <<published, relay, net, seen>>
Fault == faults < MaxFaults /\ faults' = faults + 1
Set(s, r) == side' = [side EXCEPT ![s] = r]

----------------------------------------------------------------------------
(* The agent and its candidates *)

(* stunAddrForICE and iceconn.New.  An old server does not advertise the     *)
(* STUN address, so the relay is allocated for it.                           *)
iceNew(s) ==
    /\ side[s].pc = "new"
    /\ \/ Set(s, [side[s] EXCEPT !.pc = "check", !.agent = "open"]) /\ UNCHANGED faults
       \/ Fault /\ Set(s, [side[s] EXCEPT !.pc = IF s = "sender" THEN "publish" ELSE "fall",
                                          !.choice = IF s = "sender" THEN "relay" ELSE "none",
                                          !.check = "err", !.push = "done", !.pull = "done"])
    /\ relay' = [relay EXCEPT !.allocated = @ \/ relay.kind = "old"]
    /\ UNCHANGED <<published, net, seen>>

(* OnCandidate: sendLocal never blocks, and drops what comes after closeLocal. *)
gather(s) ==
    /\ side[s].agent = "open" /\ ~side[s].localClosed
    /\ \/ side[s].left > 0 /\ Set(s, [side[s] EXCEPT !.left = @ - 1, !.local = @ + 1])
       \/ Set(s, [side[s] EXCEPT !.left = 0, !.localClosed = TRUE])
    /\ UNCHANGED faults /\ Server

(* PushCandidates at the server: a batch is stored whole or refused. *)
Stored(s, items) == IF Len(published[s]) + Len(items) > maxCandidatesPerSide
                    THEN published ELSE [published EXCEPT ![s] = @ \o items]
Batch(n) == [i \in 1..n |-> "candidate"]

(* The goroutine that pushes: it takes all that is gathered, ... *)
pushTake(s) ==
    /\ side[s].agent # "none" /\ side[s].push = "idle" /\ side[s].local > 0
    /\ Set(s, [side[s] EXCEPT !.push = "busy", !.batch = side[s].local, !.local = 0])
    /\ UNCHANGED faults /\ Server

(* ... makes its request, which may fail or be cancelled, ... *)
pushCandidates(s) ==
    /\ side[s].push = "busy"
    /\ \/ published' = Stored(s, Batch(side[s].batch)) /\ UNCHANGED faults
       \/ UNCHANGED published /\ (Fault \/ (side[s].stop /\ UNCHANGED faults))
    /\ Set(s, [side[s] EXCEPT !.push = "idle", !.batch = 0])
    /\ UNCHANGED <<relay, net, seen>>

(* Mutant: it only ends with the channel. *)
pushEndsOnClose(s) ==
    /\ side[s].agent # "none" /\ side[s].push = "idle"
    /\ side[s].localClosed /\ side[s].local = 0
    /\ Set(s, [side[s] EXCEPT !.push = "done"])
    /\ UNCHANGED faults /\ Server

(* ... and ends when gathering is over, or with the pumps. *)
pushEnds(s) ==
    /\ side[s].agent # "none" /\ side[s].push = "idle"
    /\ side[s].stop \/ (side[s].localClosed /\ side[s].local = 0)
    /\ Set(s, [side[s] EXCEPT !.push = "done", !.local = 0])
    /\ UNCHANGED faults /\ Server

(* pullCandidates at the server, from the index the side has reached; *)
Fresh(s) == SubSeq(published[Other(s)], side[s].since + 1, Len(published[Other(s)]))
NextSince(s) == Len(published[Other(s)])

(* a choice goes to the channel of one, everything else to the agent. *)
pull(s) ==
    /\ side[s].agent # "none" /\ side[s].pull = "on" /\ ~side[s].stop
    /\ LET items == Fresh(s)
           picks == {items[i] : i \in 1..Len(items)}
       IN  Set(s, [side[s] EXCEPT !.since = NextSince(s),
                      !.knows = @ \/ "candidate" \in picks,
                      !.decision = IF @ # "none" THEN @
                                   ELSE IF "relay" \in picks THEN "relay"
                                   ELSE IF "ice" \in picks THEN "ice" ELSE @])
    /\ seen' = [seen EXCEPT !.polled = @ \/ (s = "receiver" /\ seen.choice \in {"stored", "lost", "refused"})]
    /\ UNCHANGED <<published, relay, net, faults>>

pullEnds(s) ==
    /\ side[s].agent # "none" /\ side[s].pull = "on" /\ side[s].stop
    /\ Set(s, [side[s] EXCEPT !.pull = "done"])
    /\ UNCHANGED faults /\ Server

(* pion's connectivity checks find a pair while both agents live and one of  *)
(* them knows a candidate of the other.                                      *)
connects(s) ==
    /\ side[s].pc = "check" /\ side[s].check = "none"
    /\ side[s].agent = "open" /\ side[Other(s)].agent = "open"
    /\ side[s].knows \/ side[Other(s)].knows
    /\ Set(s, [side[s] EXCEPT !.check = "ok"])
    /\ UNCHANGED faults /\ Server

----------------------------------------------------------------------------
(* iceEstablish: who takes which path *)

(* The sender's budget ends, or the user cancels. *)
dialTimesOut ==
    /\ side["sender"].pc = "check" /\ side["sender"].check = "none"
    /\ Set("sender", [side["sender"] EXCEPT !.check = "err"])
    /\ UNCHANGED faults /\ Server

(* Dial returned; a connection without a selected pair does not count. *)
dialEnds ==
    /\ side["sender"].pc = "check" /\ side["sender"].check # "none"
    /\ \E r \in {side["sender"].check, "err"} :
          /\ IF r = side["sender"].check THEN UNCHANGED faults ELSE Fault
          /\ Set("sender", [side["sender"] EXCEPT !.pc = "publish", !.check = r,
                               !.choice = IF r = "ok" THEN "ice" ELSE "relay"])
    /\ Server

(* publishPathChoice, best effort *)
publishPathChoice ==
    LET s == "sender"
        stored == Stored(s, <<side[s].choice>>)
    IN  /\ side[s].pc = "publish"
        /\ \/ published' = stored /\ UNCHANGED faults
              /\ seen' = [seen EXCEPT !.choice = IF stored = published THEN "refused" ELSE "stored"]
           \/ Fault /\ UNCHANGED published /\ seen' = [seen EXCEPT !.choice = "lost"]
        /\ Set(s, [side[s] EXCEPT !.pc = "wind", !.stop = TRUE])
        /\ UNCHANGED <<relay, net>>

(* The receiver has made up its mind. *)
Decides(check) == Set("receiver", [side["receiver"] EXCEPT !.pc = "wind", !.check = check, !.stop = TRUE])

(* Mutant: its own result is enough. *)
acceptTrustsItself ==
    LET r == side["receiver"]
    IN  /\ r.pc = "check"
        /\ \/ r.decision = "relay" /\ Decides("err")
           \/ r.check # "none" /\ Decides(r.check)
        /\ UNCHANGED faults /\ Server

(* acceptFollowingSender: the sender's relay is followed at once, its ICE    *)
(* when this side connects, and an error of its own needs no choice.         *)
acceptFollowingSender ==
    LET r == side["receiver"]
    IN  /\ r.pc = "check"
        /\ \/ r.decision = "relay" /\ Decides("err")
           \/ r.decision = "ice" /\ r.check = "ok" /\ Decides("ok")
           \/ r.check = "err" /\ Decides("err")
        /\ UNCHANGED faults /\ Server

(* Accept fails on its own. *)
acceptFails ==
    /\ side["receiver"].pc = "check" /\ side["receiver"].check = "none"
    /\ Fault /\ Set("receiver", [side["receiver"] EXCEPT !.check = "err"])
    /\ Server

(* iceBudget + pathDecisionWait: the receiver trusts its own result.  It is   *)
(* pathDecisionWait behind the sender's budget and a pull takes a fraction of *)
(* that, so it has polled since the choice was made and acted on it, or       *)
(* something was slow.                                                        *)
acceptTimesOut ==
    LET r == side["receiver"]
    IN  /\ r.pc = "check"
        /\ IF seen.polled /\ r.decision # "relay" THEN UNCHANGED faults ELSE Fault
        /\ Decides(IF r.check = "ok" THEN "ok" ELSE "err")
        /\ Server

(* The user cancels: nothing more is asked of the server. *)
cancels(s) ==
    /\ side[s].pc = "check" /\ ~side[s].cancel /\ Fault
    /\ Set(s, [side[s] EXCEPT !.cancel = TRUE, !.check = "err", !.pc = "wind", !.stop = TRUE])
    /\ seen' = [seen EXCEPT !.choice = IF s = "sender" THEN "lost" ELSE @]
    /\ UNCHANGED <<published, relay, net>>

(* Mutant: an agent without a connection is forgotten. *)
closedIfConnected(r) == IF r.check = "ok" THEN "closed" ELSE r.agent

(* agent.Close *)
closedAgent(r) == IF r.agent = "open" THEN "closed" ELSE r.agent

(* What of the agent's work is over; the goroutines' state goes with them. *)
iceOver(r) == [r EXCEPT !.left = 0, !.local = 0, !.localClosed = TRUE, !.since = 0,
                        !.decision = "none"]

(* wg.Wait for both goroutines; a failed or pairless agent is closed, the    *)
(* other lives on inside iceOwningConn.                                      *)
iceEstablish(s) ==
    LET r == side[s]
    IN  /\ r.pc = "wind" /\ r.push = "done" /\ r.pull = "done"
        /\ \/ /\ r.check = "ok"
              /\ Set(s, [iceOver(r) EXCEPT !.pc = "up", !.path = "ice"])
              /\ UNCHANGED faults
           \/ /\ IF r.check = "ok" THEN Fault ELSE UNCHANGED faults
              /\ Set(s, [iceOver(r) EXCEPT !.pc = "fall", !.agent = closedAgent(r)])
        /\ Server

----------------------------------------------------------------------------
(* The relay *)

(* The fallback ends here for a cancelled side and a server that only answers STUN. *)
fallBack(s) ==
    /\ side[s].pc = "fall"
    /\ Set(s, [side[s] EXCEPT !.pc = IF side[s].cancel \/ relay.kind = "stun" THEN "failed" ELSE "alloc"])
    /\ UNCHANGED faults /\ Server

(* allocateRelay: one token for the session, so only its first caller meets  *)
(* a spent budget.                                                           *)
allocateRelay(s) ==
    /\ side[s].pc = "alloc"
    /\ \/ /\ Set(s, [side[s] EXCEPT !.pc = "udp"])
          /\ relay' = [relay EXCEPT !.allocated = TRUE]
          /\ UNCHANGED faults
       \/ /\ Fault
          /\ Set(s, [side[s] EXCEPT !.pc = "failed"])
          /\ UNCHANGED relay
    /\ UNCHANGED <<published, net, seen>>

D(t, s, a) == [t |-> t, of |-> s, addr |-> a]
Sent(m) == IF Cardinality({d \in net : d.of = m.of}) < MaxInFlight THEN net \cup {m} ELSE net

(* Register: HELLO, then REGISTER with the cookie, repeated until answered. *)
register(s) ==
    /\ side[s].pc = "udp"
    /\ net' = Sent(D(IF side[s].hello THEN "HELLO" ELSE "REGISTER", s, side[s].addr))
    /\ UNCHANGED <<side, published, relay, faults, seen>>

Current(s) == IF side[s].path = "tcp" THEN Tcp ELSE side[s].addr
Listens(s) == side[s].pc = "udp" \/ side[s].path = "udp"

(* Mutant: a challenge is taken for the answer. *)
clientGetsEager(s, m) ==
    /\ m.of = s /\ m.t \in {"CHALLENGE", "REGISTERED"}
    /\ net' = net \ {m}
    /\ side' = IF m.addr = side[s].addr /\ side[s].pc = "udp"
               THEN [side EXCEPT ![s] = [@ EXCEPT !.pc = "up", !.path = "udp"]] ELSE side
    /\ UNCHANGED <<published, relay, faults, seen>>

(* A datagram reaches the socket, which is closed or has another address by  *)
(* now, or is read: by Register, and later by ReadFrom, which answers a      *)
(* challenge too.                                                            *)
clientGets(s, m) ==
    /\ m.of = s /\ m.t \in {"CHALLENGE", "REGISTERED"}
    /\ CASE ~Listens(s) \/ m.addr # side[s].addr -> net' = net \ {m} /\ UNCHANGED side
         [] Listens(s) /\ m.addr = side[s].addr /\ m.t = "CHALLENGE" ->
                /\ net' = (net \ {m}) \cup {D("REGISTER", s, m.addr)}
                /\ side' = [side EXCEPT ![s].hello = FALSE]
         [] OTHER ->
                /\ net' = net \ {m}
                /\ side' = IF side[s].pc = "udp"
                           THEN [side EXCEPT ![s] = [@ EXCEPT !.pc = "up", !.path = "udp"]]
                           ELSE side
    /\ UNCHANGED <<published, relay, faults, seen>>

(* handleControl at the relay *)
relayGets(m) ==
    /\ m.t \in {"HELLO", "REGISTER"}
    /\ net' = (net \ {m}) \cup {D(IF m.t = "HELLO" THEN "CHALLENGE" ELSE "REGISTERED", m.of, m.addr)}
    /\ relay' = IF m.t = "REGISTER" THEN [relay EXCEPT !.at[m.of] = m.addr] ELSE relay
    /\ UNCHANGED <<side, published, faults, seen>>

loses(m) == Fault /\ net' = net \ {m} /\ UNCHANGED <<side, published, relay, seen>>

(* ErrNoReply after relayUDPWait, or UDP failed outright: the socket is      *)
(* closed, and the TCP fallback is next where the server has it.             *)
udpTimesOut(s) ==
    /\ side[s].pc = "udp"
    /\ Set(s, [side[s] EXCEPT !.pc = IF relay.kind = "full" THEN "tcp" ELSE "failed"])
    /\ UNCHANGED faults /\ Server

(* DialWS: over a WebSocket HELLO registers at once. *)
dialWS(s) ==
    /\ side[s].pc = "tcp"
    /\ \/ /\ Set(s, [side[s] EXCEPT !.pc = "up", !.path = "tcp"])
          /\ relay' = [relay EXCEPT !.at[s] = Tcp]
          /\ UNCHANGED faults
       \/ Fault /\ Set(s, [side[s] EXCEPT !.pc = "failed"]) /\ UNCHANGED relay
    /\ UNCHANGED <<published, net, seen>>

OnRelay(s) == side[s].path \in {"udp", "tcp"}

(* Mutant: only a UDP registration is refreshed. *)
keepaliveUDP(s) ==
    /\ side[s].path = "udp" /\ ~side[s].inbound
    /\ net' = Sent(D("HELLO", s, side[s].addr))
    /\ UNCHANGED <<side, published, relay, faults, seen>>

(* keepalive repeats HELLO until the peer's first datagram. *)
keepalive(s) ==
    /\ OnRelay(s) /\ ~side[s].inbound
    /\ IF side[s].path = "tcp" THEN relay' = [relay EXCEPT !.at[s] = Tcp] /\ UNCHANGED net
                               ELSE net' = Sent(D("HELLO", s, side[s].addr)) /\ UNCHANGED relay
    /\ UNCHANGED <<side, published, faults, seen>>

(* WriteTo, the relay's handle and the peer's ReadFrom: a source the relay   *)
(* knows is forwarded, another one is challenged if it is a UDP address.     *)
data(s) ==
    /\ OnRelay(s)
    /\ IF relay.at[s] = Current(s)
       THEN /\ side' = IF OnRelay(Other(s)) /\ relay.at[Other(s)] = Current(Other(s))
                       THEN [side EXCEPT ![Other(s)].inbound = TRUE] ELSE side
            /\ UNCHANGED net
       ELSE /\ net' = IF side[s].path = "udp" THEN Sent(D("CHALLENGE", s, side[s].addr)) ELSE net
            /\ UNCHANGED side
    /\ UNCHANGED <<published, relay, faults, seen>>

(* The NAT in front of a side gives it another address. *)
rebinds(s) ==
    /\ Listens(s) /\ side[s].addr < MaxRebinds /\ Fault
    /\ Set(s, [side[s] EXCEPT !.addr = @ + 1])
    /\ Server

----------------------------------------------------------------------------
Init == /\ side = [s \in Sides |-> NewSide]
        /\ published = [s \in Sides |-> <<>>]
        /\ \E k \in {"full", "old", "stun"} :
              relay = [kind |-> k, allocated |-> FALSE, at |-> [s \in Sides |-> Unregistered]]
        /\ net = {} /\ faults = 0
        /\ seen = [choice |-> "none", polled |-> FALSE]

Agent(s) == iceNew(s) \/ connects(s) \/ gather(s)
Pumps(s) == pushTake(s) \/ pushCandidates(s) \/ pushEnds(s) \/ pull(s) \/ pullEnds(s)
Chooses == \/ dialTimesOut \/ dialEnds \/ publishPathChoice
           \/ acceptFollowingSender \/ acceptFails \/ acceptTimesOut
Relays(s) == \/ fallBack(s) \/ allocateRelay(s) \/ register(s) \/ udpTimesOut(s) \/ dialWS(s)
             \/ keepalive(s) \/ data(s) \/ rebinds(s)

Next == \/ Chooses
        \/ \E s \in Sides : Agent(s) \/ Pumps(s) \/ cancels(s) \/ iceEstablish(s) \/ Relays(s)
        \/ \E m \in net : relayGets(m) \/ loses(m) \/ \E s \in Sides : clientGets(s, m)

Spec == Init /\ [][Next]_vars

(* Timers fire, goroutines and the relay run, datagrams that are not lost    *)
(* arrive, and QUIC keeps sending; gathering and the checks may never end.   *)
Dials == dialTimesOut \/ dialEnds \/ publishPathChoice
Moves(s) == \/ iceNew(s) \/ iceEstablish(s) \/ fallBack(s) \/ allocateRelay(s)
            \/ udpTimesOut(s) \/ dialWS(s)
Delivers(s, t) == \E m \in net : m.of = s /\ m.t = t /\ (relayGets(m) \/ clientGets(s, m))

FairSpec == /\ Spec
            /\ WF_vars(Dials) /\ WF_vars(acceptFollowingSender) /\ WF_vars(acceptTimesOut)
            /\ \A s \in Sides :
                  /\ WF_vars(Moves(s)) /\ WF_vars(keepalive(s)) /\ WF_vars(data(s))
                  /\ WF_vars(pushCandidates(s) \/ pushEnds(s)) /\ WF_vars(pull(s) \/ pullEnds(s))
                  /\ \A t \in Types : WF_vars(Delivers(s, t))

----------------------------------------------------------------------------
(* Type correctness of the link's state. *)
LinkTypeOK ==
    /\ side \in [Sides -> Side]
    /\ published \in [Sides -> Seq(Items)]
    /\ \A s \in Sides : Len(published[s]) <= maxCandidatesPerSide
    /\ relay \in [kind : {"full", "old", "stun"}, allocated : BOOLEAN, at : [Sides -> 0..Unregistered]]
    /\ net \subseteq Datagram
    /\ faults \in 0..MaxFaults
    /\ seen \in [choice : {"none", "stored", "lost", "refused"}, polled : BOOLEAN]

(* The two sides never split between ICE and the relay, even when ICE        *)
(* completes at the edge of the budget (iceEstablish and                     *)
(* acceptFollowingSender): a receiver on ICE has a sender that chose it.     *)
(* Exempt are faults, and a choice the server refused because the sender's   *)
(* candidates already filled its list.                                       *)
SamePath ==
    \/ faults > 0 \/ seen.choice = "refused"
    \/ side["receiver"].path = "ice" =>
          /\ side["sender"].choice = "ice"
          /\ side["sender"].path \in {"none", "ice"}

(* A side that left ICE holds nothing of it: both goroutines have ended and  *)
(* the agent is closed; a side on ICE keeps its agent for the connection     *)
(* (iceEstablish, iceOwningConn).                                            *)
Released ==
    \A s \in Sides :
        /\ side[s].pc \in {"fall", "alloc", "udp", "tcp", "up", "failed"} =>
               side[s].push = "done" /\ side[s].pull = "done"
        /\ side[s].pc \in {"fall", "alloc", "udp", "tcp", "failed"} => side[s].agent # "open"
        /\ side[s].path \in {"udp", "tcp"} => side[s].agent # "open"
        /\ side[s].path = "ice" => side[s].agent = "open"

(* Register returns over UDP only when the relay has recorded the address    *)
(* this side has, whatever was lost, late or sent twice meanwhile.           *)
RegisteredIsRecorded ==
    \A s \in Sides : side[s].path = "udp" /\ side[s].addr = 0 => relay.at[s] = 0

(* Both sides come to a path or to an error: no goroutine is waited for that *)
(* cannot end, though gathering and ICE's checks may never do.               *)
LinkEnds == \A s \in Sides : <>(side[s].pc \in {"up", "failed"})

(* A side the relay has under another address than its own (a NAT rebound,   *)
(* a late REGISTER of the socket it had before the TCP fallback) gets its    *)
(* slot back.  Exempt is the TCP fallback once the peer was heard: its       *)
(* keepalive has ended, and the relay challenges UDP sources only.           *)
SlotReclaimed ==
    \A s \in Sides : OnRelay(s) /\ relay.at[s] # Current(s)
        ~> relay.at[s] = Current(s) \/ (side[s].path = "tcp" /\ side[s].inbound)
=============================================================================
