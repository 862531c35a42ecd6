------------------------------- MODULE Pairing -------------------------------
(***************************************************************************)
(* How a sender and its receivers find each other and stay together        *)
(* (cmd/fsend/sendpair.go, receive.go, internet.go, resume.go and the       *)
(* signaling client).  A sender runs rounds: a LAN and an internet          *)
(* goroutine race for the first authenticated connection, the winner        *)
(* switches the session to a resume key, the loser is drained, the transfer *)
(* runs with in-place re-accepts and a drop starts the next round.  A       *)
(* receiver looks on the LAN, then joins through the server, dials, and     *)
(* re-dials or re-discovers after drops; it may be killed and rerun.  The   *)
(* pairing server is reduced to the state of each slot, which the module    *)
(* Signaling details; how the two sides agree on an internet path is the    *)
(* module Link; what moves on a connection is the module Transfer.          *)
(***************************************************************************)
EXTENDS Listener

CONSTANTS maxAuthFailures,    \* failed authentications a session tolerates
          maxPasswordRounds,  \* rounds lost to a wrong password
          DefaultAttempts,    \* tries of one transfer on one route
          maxRepairRounds,    \* re-discoveries of a receiver
          MaxRounds,          \* bound on the sender's rounds
          MaxStarts,          \* bound on the runs of the receiving command
          MaxFaults           \* bound on faults: cuts, kills, lost answers, lost sessions

ASSUME PairingAssumption == /\ maxAuthFailures \in Nat \ {0} /\ maxPasswordRounds \in Nat \ {0}
                            /\ DefaultAttempts \in Nat \ {0} /\ maxRepairRounds \in Nat
                            /\ MaxRounds \in Nat \ {0} /\ MaxStarts \in Nat /\ MaxFaults \in Nat

VARIABLES snd,    \* the sending process: session, round, its two goroutines
          rcv,    \* the receiving process of each device, and its saved key
          slot,   \* the pairing server's slots
          faults, \* faults so far
          seen    \* history: what the properties compare with

vars == <<conn, ln, snd, rcv, slot, faults, seen>>

NoConn == 0
LanOutcomes == {"paired", "failed", "capped", "cancelled"}
NetOutcomes == {"paired", "gone", "capped", "claimed", "denied", "budget", "cancelled"}

Sender == [pc : {"pair", "won", "drain", "xfer", "reaccept", "finish", "leave", "over"},
           key : Secrets, resumed : BOOLEAN,             \* sendSession
           rkey : Secrets, resume : BOOLEAN,             \* sendRound
           winner : Paths \cup {"none"}, paired : BOOLEAN,
           lan : {"bind", "accept", "done"} \cup LanOutcomes,
           net : {"create", "wait", "path", "accept", "done"} \cup NetOutcomes,
           lanConn : Conns \cup {NoConn}, netConn : Conns \cup {NoConn},
           cur : Conns \cup {NoConn}, peer : Devices \cup {Nobody},
           lanErr : BOOLEAN, downCh : BOOLEAN, down : BOOLEAN,
           held : BOOLEAN, cancel : BOOLEAN,
           attempt : 1..DefaultAttempts, fails : 0..maxAuthFailures,
           misses : 0..(maxPasswordRounds - 1), rounds : 1..MaxRounds,
           result : {"none", "ok", "again", "stop"}]

Receiver == [pc : {"idle", "find", "hit", "join", "last", "link", "dial", "shake", "xfer", "done", "over"},
             key : Secrets, resumed : BOOLEAN, saved : Secrets,
             port : Secrets, conn : Conns \cup {NoConn}, via : Paths,
             first : BOOLEAN, armed : BOOLEAN,
             attempt : 1..DefaultAttempts, round : 0..maxRepairRounds, starts : 0..MaxStarts,
             unsaved : BOOLEAN]

Slot == [st : {"none", "waiting", "joined", "consumed"}, dev : Devices \cup {Nobody}]

----------------------------------------------------------------------------
(* The sender's session and its rounds. *)

(* Mutant: every round rendezvous on the code. *)
RoundOnCode(s) == [s EXCEPT !.pc = "pair", !.rkey = Code, !.resume = s.resumed,
    !.winner = "none", !.paired = FALSE, !.lan = "bind", !.net = "create",
    !.lanConn = NoConn, !.netConn = NoConn, !.cur = NoConn, !.peer = Nobody,
    !.lanErr = FALSE, !.downCh = FALSE, !.down = FALSE, !.held = FALSE,
    !.cancel = FALSE, !.attempt = 1, !.result = "none"]

(* runSendOnce at its start: a round on the session's current key. *)
Round(s) == [s EXCEPT !.pc = "pair", !.rkey = s.key, !.resume = s.resumed,
    !.winner = "none", !.paired = FALSE, !.lan = "bind", !.net = "create",
    !.lanConn = NoConn, !.netConn = NoConn, !.cur = NoConn, !.peer = Nobody,
    !.lanErr = FALSE, !.downCh = FALSE, !.down = FALSE, !.held = FALSE,
    !.cancel = FALSE, !.attempt = 1, !.result = "none"]

(* The command ends; of its process only what the session became is kept. *)
Left(s) == [Round(s) EXCEPT !.pc = "over", !.lan = "done", !.net = "done", !.fails = 0, !.misses = 0]

(* Mutant: every handshake sets the key. *)
pairedKeyAlways(s, c) == c

(* sendSession.paired: the first successful handshake sets the resume key. *)
pairedKey(s, c) == IF s.resumed THEN s.key ELSE c

(* sendSession.authFailed counts; past the cap the count no longer matters. *)
authFailed(s) == IF s.fails < maxAuthFailures THEN s.fails + 1 ELSE maxAuthFailures
capHit(s) == authFailed(s) >= maxAuthFailures

(* Mutants: the pairing is not recorded in time; resume slots are spent too. *)
consumeCodeLate(s) == FALSE
consumeAnyKey(s) == s.paired

(* sendRound.consumeCode *)
consumeCode(s) == s.paired /\ ~s.resume

(* Ending the server session of the round: best effort, the request may be   *)
(* lost.  The session may also be gone already.                              *)
endSession(s) ==
    \/ ~s.held /\ UNCHANGED <<slot, faults, seen>>
    \/ /\ s.held
       /\ slot' = IF slot[s.rkey].st \in {"none", "consumed"} THEN slot
                  ELSE [slot EXCEPT ![s.rkey] =
                           [st |-> IF consumeCode(s) THEN "consumed" ELSE "none", dev |-> Nobody]]
       /\ UNCHANGED <<faults, seen>>
    \/ /\ s.held /\ faults < MaxFaults
       /\ faults' = faults + 1
       /\ seen' = [seen EXCEPT !.stale = @ \cup {s.rkey}]
       /\ UNCHANGED slot

UnchangedServer == UNCHANGED <<slot, faults, seen>>

----------------------------------------------------------------------------
(* pairOverLAN *)

bindLAN ==
    /\ snd.lan = "bind"
    /\ \/ ~snd.cancel /\ snd' = [snd EXCEPT !.lan = "accept"]
          /\ ln' = [ln EXCEPT !["lan"] = NewListener(snd.rkey)]
       \/ snd' = [snd EXCEPT !.lan = "failed"] /\ UNCHANGED ln
    /\ UNCHANGED <<conn, rcv>> /\ UnchangedServer

closeLAN(cs) == /\ conn' = Closed(cs, "lan")
                /\ ln' = [ln EXCEPT !["lan"] = NotListening]

(* acceptCounting on the announced listener: a connection, ... *)
lanPairs == \E c \in Conns :
    /\ snd.lan = "accept" /\ Handed("lan", c)
    /\ conn' = [conn EXCEPT ![c].s = "handed"]
    /\ snd' = [snd EXCEPT !.lan = "paired", !.lanConn = c]
    /\ UNCHANGED <<ln, rcv>> /\ UnchangedServer

(* ... a failed handshake, which counts when it was an authentication, ... *)
lanAbsorbs == \E kind \in {"auth", "other"} :
    /\ snd.lan = "accept" /\ ~snd.cancel /\ ln["lan"][kind] > 0
    /\ IF kind = "auth" /\ capHit(snd)
       THEN /\ closeLAN(conn)
            /\ snd' = [snd EXCEPT !.lan = "capped", !.fails = authFailed(snd)]
       ELSE /\ FailTaken("lan", kind)
            /\ snd' = IF kind = "auth" THEN [snd EXCEPT !.fails = authFailed(snd)] ELSE snd
            /\ UNCHANGED conn
    /\ UNCHANGED rcv /\ UnchangedServer

(* Mutant: the accept does not watch the race. *)
lanIgnoresCancel == lanAbsorbs

(* ... or the end of the race. *)
lanCancelled ==
    /\ snd.lan = "accept" /\ snd.cancel
    /\ closeLAN(conn)
    /\ snd' = [snd EXCEPT !.lan = "cancelled"]
    /\ UNCHANGED rcv /\ UnchangedServer

LanGoroutine == bindLAN \/ lanPairs \/ lanAbsorbs \/ lanCancelled

----------------------------------------------------------------------------
(* pairOverInternet *)

(* createWithRetry: the server creates the session, ... *)
create ==
    /\ snd.net = "create" /\ slot[snd.rkey].st = "none"
    /\ slot' = [slot EXCEPT ![snd.rkey] = [st |-> "waiting", dev |-> Nobody]]
    /\ snd' = [snd EXCEPT !.net = "wait", !.held = TRUE]
    /\ UNCHANGED <<conn, ln, rcv, faults, seen>>

(* ... refuses a slot it still holds, ... *)
createClaimed ==
    /\ snd.net = "create" /\ slot[snd.rkey].st # "none"
    /\ snd' = [snd EXCEPT !.net = "claimed"]
    /\ UNCHANGED <<conn, ln, rcv>> /\ UnchangedServer

(* ... refuses the client (password, version, retired), cannot be reached,  *)
(* or creates the session and its answer is lost; the last two are retried. *)
createFails ==
    /\ snd.net = "create" /\ faults < MaxFaults
    /\ faults' = faults + 1
    /\ \/ snd' = [snd EXCEPT !.net = "denied"] /\ UNCHANGED <<slot, seen>>
       \/ snd' = [snd EXCEPT !.downCh = TRUE] /\ UNCHANGED <<slot, seen>>
       \/ /\ slot[snd.rkey].st = "none"
          /\ slot' = [slot EXCEPT ![snd.rkey] = [st |-> "waiting", dev |-> Nobody]]
          /\ seen' = [seen EXCEPT !.stale = @ \cup {snd.rkey}]
          /\ snd' = [snd EXCEPT !.downCh = TRUE]
    /\ UNCHANGED <<conn, ln, rcv>>

(* A create the race ended may still have reached the server. *)
createCancelled ==
    /\ snd.net = "create" /\ snd.cancel
    /\ snd' = [snd EXCEPT !.net = "cancelled"]
    /\ \/ UNCHANGED <<slot, seen>>
       \/ /\ slot[snd.rkey].st = "none"
          /\ slot' = [slot EXCEPT ![snd.rkey] = [st |-> "waiting", dev |-> Nobody]]
          /\ seen' = [seen EXCEPT !.stale = @ \cup {snd.rkey}]
    /\ UNCHANGED <<conn, ln, rcv, faults>>

(* waitForReceiver: a receiver joined, the session is gone and is created   *)
(* again, or polls keep failing.                                            *)
waitForReceiver ==
    /\ snd.net = "wait"
    /\ \/ /\ slot[snd.rkey].st = "joined"
          /\ snd' = [snd EXCEPT !.net = "path", !.peer = slot[snd.rkey].dev]
       \/ /\ slot[snd.rkey].st \in {"none", "consumed"} /\ ~snd.cancel
          /\ snd' = [snd EXCEPT !.net = "create", !.held = FALSE]
    /\ UNCHANGED <<conn, ln, rcv>> /\ UnchangedServer

pollsFail ==
    /\ snd.net = "wait" /\ ~snd.downCh /\ faults < MaxFaults
    /\ faults' = faults + 1
    /\ snd' = [snd EXCEPT !.downCh = TRUE]
    /\ UNCHANGED <<conn, ln, rcv, slot, seen>>

waitCancelled ==
    /\ snd.net = "wait" /\ snd.cancel
    /\ endSession(snd)
    /\ snd' = [snd EXCEPT !.net = "cancelled", !.held = FALSE]
    /\ UNCHANGED <<conn, ln, rcv>>

(* establishInternetDataPath, the module Link: a path, none, or a relay     *)
(* whose budget is spent, which leaves the session to the receiver.         *)
pathFound ==
    /\ snd.net = "path" /\ ~snd.cancel
    /\ ln' = [ln EXCEPT !["net"] = NewListener(snd.rkey)]
    /\ snd' = [snd EXCEPT !.net = "accept"]
    /\ UNCHANGED <<conn, rcv>> /\ UnchangedServer

pathFails ==
    /\ snd.net = "path"
    /\ endSession(snd)
    /\ snd' = [snd EXCEPT !.net = IF snd.cancel THEN "cancelled" ELSE "gone", !.held = FALSE]
    /\ UNCHANGED <<conn, ln, rcv>>

budgetSpent ==
    /\ snd.net = "path"
    /\ snd' = [snd EXCEPT !.net = "budget", !.held = FALSE]
    /\ seen' = [seen EXCEPT !.stale = @ \cup {snd.rkey}]
    /\ UNCHANGED <<conn, ln, rcv, slot, faults>>

(* senderQUICAccept: one connection, ... *)
netPairs == \E c \in Conns :
    /\ snd.net = "accept" /\ Handed("net", c)
    /\ conn' = [conn EXCEPT ![c].s = "handed"]
    /\ snd' = [snd EXCEPT !.net = "paired", !.netConn = c]
    /\ UNCHANGED <<ln, rcv>> /\ UnchangedServer

tearDown(cs) == /\ conn' = TornDown(cs, "net")
                /\ ln' = [ln EXCEPT !["net"] = NotListening]

(* ... or one failure: of a handshake, by timeout, or the end of the race. *)
netGone ==
    /\ snd.net = "accept"
    /\ \/ /\ ln["net"].auth > 0
          /\ snd' = [snd EXCEPT !.fails = authFailed(snd), !.held = FALSE, !.net =
                        IF capHit(snd) THEN "capped"
                        ELSE IF snd.cancel THEN "cancelled" ELSE "gone"]
       \/ /\ ln["net"].other > 0 \/ ~\E c \in Conns : /\ conn[c].path = "net" /\ conn[c].live
                                                      /\ conn[c].s \in {"arrived", "handshake", "ready"}
          /\ snd' = [snd EXCEPT !.held = FALSE, !.net = IF snd.cancel THEN "cancelled" ELSE "gone"]
       \/ snd.cancel /\ snd' = [snd EXCEPT !.net = "cancelled", !.held = FALSE]
    /\ tearDown(conn)
    /\ endSession(snd)
    /\ UNCHANGED rcv

NetGoroutine == \/ create \/ createClaimed \/ createFails \/ createCancelled
                \/ waitForReceiver \/ pollsFail \/ waitCancelled
                \/ pathFound \/ pathFails \/ budgetSpent \/ netPairs \/ netGone

----------------------------------------------------------------------------
(* runSendOnce, the coordinator *)

UnchangedNet == UNCHANGED <<conn, ln, rcv>> /\ UnchangedServer

aborted(s) == [s EXCEPT !.pc = "drain", !.cancel = TRUE, !.result = "stop"]

takeLAN ==
    /\ snd.pc = "pair" /\ snd.lan \in LanOutcomes
    /\ snd' = CASE snd.lan = "paired" -> [snd EXCEPT !.lan = "done", !.pc = "won", !.winner = "lan"]
                [] snd.lan = "capped" -> aborted([snd EXCEPT !.lan = "done"])
                [] OTHER -> LET s == [snd EXCEPT !.lan = "done", !.lanErr = TRUE]
                            IN  IF snd.down THEN aborted(s) ELSE s
    /\ UnchangedNet

takeNet ==
    /\ snd.pc = "pair" /\ snd.net \in NetOutcomes
    /\ snd' = CASE snd.net = "paired" -> [snd EXCEPT !.net = "done", !.pc = "won", !.winner = "net"]
                [] snd.net \in {"gone", "capped"} -> aborted([snd EXCEPT !.net = "done"])
                [] OTHER -> [snd EXCEPT !.net = "done", !.down = TRUE]
    /\ UnchangedNet

(* The server is down: abort if the LAN has failed too. *)
takeDown ==
    /\ snd.pc = "pair" /\ snd.downCh
    /\ LET s == [snd EXCEPT !.downCh = FALSE, !.down = TRUE]
       IN  snd' = IF snd.lanErr THEN aborted(s) ELSE s
    /\ UnchangedNet

(* The round's TTL, or the user's cancel. *)
expire == snd.pc = "pair" /\ snd' = aborted(snd) /\ UnchangedNet

bothFailed ==
    /\ snd.pc = "pair" /\ snd.lan = "done" /\ snd.net = "done"
    /\ snd' = Left(snd)
    /\ UnchangedNet

(* The winner switches the session and its listener to the resume key before *)
(* the race is cancelled.                                                    *)
commit ==
    /\ snd.pc = "won"
    /\ LET c == IF snd.winner = "lan" THEN snd.lanConn ELSE snd.netConn
           k == pairedKey(snd, c)
       IN  /\ snd' = [snd EXCEPT !.pc = "xfer", !.paired = TRUE, !.key = k, !.resumed = TRUE,
                                 !.cur = c, !.cancel = TRUE, !.lanErr = FALSE, !.down = FALSE]
           /\ ln' = [ln EXCEPT ![snd.winner] = SetSecret(@, k)]
           /\ seen' = [seen EXCEPT !.first = IF snd.resumed THEN @ ELSE conn[c].dev,
                                   !.owed = @ \/ (~snd.resume /\ snd.held)]
    /\ UNCHANGED <<conn, rcv, slot, faults>>

(* Mutant: only the listener is closed. *)
cleanupListener == closeLAN(conn) /\ UnchangedServer

(* The cleanup of a pairing: the LAN's closes the listener and the accepted *)
(* connection, the internet's tears the transport down and ends the session. *)
cleanupLAN == /\ closeLAN(IF snd.lanConn = NoConn THEN conn ELSE ConnClosed(conn, snd.lanConn))
              /\ UnchangedServer

cleanupNet == tearDown(conn) /\ endSession(snd)

(* Collecting a goroutine's outcome; a pairing that landed late is released. *)
drainLAN ==
    /\ snd.lan \in LanOutcomes
    /\ IF snd.lan = "paired" THEN cleanupLAN ELSE UNCHANGED <<conn, ln>> /\ UnchangedServer
    /\ snd' = [snd EXCEPT !.lan = "done"]

drainNet ==
    /\ snd.net \in NetOutcomes
    /\ IF snd.net = "paired" THEN cleanupNet ELSE UNCHANGED <<conn, ln>> /\ UnchangedServer
    /\ snd' = [snd EXCEPT !.net = "done", !.held = FALSE]

(* drainBoth, the LAN first *)
drainBoth ==
    /\ snd.pc = "drain"
    /\ \/ drainLAN
       \/ snd.lan = "done" /\ drainNet
       \/ /\ snd.lan = "done" /\ snd.net = "done"
          /\ snd' = Left(snd)
          /\ UNCHANGED <<conn, ln>> /\ UnchangedServer
    /\ UNCHANGED rcv

(* drainLoser, in the background of the transfer *)
drainLoser ==
    /\ snd.paired /\ snd.pc \in {"xfer", "reaccept", "finish", "leave"}
    /\ IF snd.winner = "lan" THEN drainNet ELSE drainLAN
    /\ UNCHANGED rcv

loserDone(s) == IF s.winner = "lan" THEN s.net = "done" ELSE s.lan = "done"

----------------------------------------------------------------------------
(* runSenderTransferLoop: attempts on the winner's listener *)

(* One attempt ended; its connection is closed. *)
attemptOver(result) ==
    /\ conn' = ConnClosed(conn, snd.cur)
    /\ snd' = [snd EXCEPT !.pc = "finish", !.cur = NoConn, !.result = result]
    /\ UNCHANGED <<ln, rcv>> /\ UnchangedServer

sent == /\ snd.pc = "xfer" /\ conn[snd.cur].r = "done" /\ ~conn[snd.cur].cut
        /\ attemptOver("ok")

(* isReceiverClose: the device closed deliberately, no re-dial is coming. *)
receiverClosed ==
    /\ snd.pc = "xfer" /\ conn[snd.cur].r \in {"closed", "failed"} /\ ~conn[snd.cur].cut
    /\ attemptOver("again")

(* A transient failure: the next attempt re-accepts, the last one ends the round. *)
retried(s) == IF s.attempt < DefaultAttempts
              THEN [s EXCEPT !.pc = "reaccept", !.attempt = @ + 1, !.cur = NoConn]
              ELSE [s EXCEPT !.pc = "finish", !.result = "again", !.cur = NoConn]

dropped ==
    /\ snd.pc = "xfer" /\ conn[snd.cur].cut
    /\ conn' = ConnClosed(conn, snd.cur)
    /\ snd' = retried(snd)
    /\ UNCHANGED <<ln, rcv>> /\ UnchangedServer

(* The receiver declined, failed to write, or ran out of password tries. *)
refused ==
    /\ snd.pc = "xfer" /\ conn[snd.cur].r = "open" /\ ~conn[snd.cur].cut
    /\ faults < MaxFaults /\ faults' = faults + 1
    /\ conn' = ConnClosed(conn, snd.cur)
    /\ \/ snd' = [snd EXCEPT !.pc = "finish", !.cur = NoConn, !.result = "stop"]
       \/ snd' = [snd EXCEPT !.pc = "finish", !.cur = NoConn,
                     !.misses = IF @ < maxPasswordRounds - 1 THEN @ + 1 ELSE @,
                     !.result = IF snd.misses < maxPasswordRounds - 1 THEN "again" ELSE "stop"]
    /\ UNCHANGED <<ln, rcv, slot, seen>>

reaccept == \E c \in Conns :
    /\ snd.pc = "reaccept" /\ Handed(snd.winner, c)
    /\ conn' = [conn EXCEPT ![c].s = "handed"]
    /\ snd' = [snd EXCEPT !.pc = "xfer", !.cur = c]
    /\ UNCHANGED <<ln, rcv>> /\ UnchangedServer

(* The cap's error quotes the handshake's, which may read as transient. *)
reacceptAbsorbs == \E kind \in {"auth", "other"} :
    /\ snd.pc = "reaccept" /\ FailTaken(snd.winner, kind)
    /\ \/ kind = "other" /\ snd' = snd
       \/ kind = "auth" /\ ~capHit(snd) /\ snd' = [snd EXCEPT !.fails = authFailed(snd)]
       \/ /\ kind = "auth" /\ capHit(snd)
          /\ \/ snd' = [snd EXCEPT !.fails = authFailed(snd), !.pc = "finish", !.result = "stop"]
             \/ snd' = retried([snd EXCEPT !.fails = authFailed(snd)])
    /\ UNCHANGED <<conn, rcv>> /\ UnchangedServer

(* reacceptTimeout *)
reacceptTimesOut ==
    /\ snd.pc = "reaccept" /\ ~\E c \in Conns : Handed(snd.winner, c)
    /\ snd' = retried(snd)
    /\ UnchangedNet

(* The winner's cleanup, ... *)
finish ==
    /\ snd.pc = "finish"
    /\ IF snd.winner = "lan" THEN cleanupLAN ELSE cleanupNet
    /\ snd' = [snd EXCEPT !.pc = "leave", !.held = IF snd.winner = "net" THEN FALSE ELSE @]
    /\ UNCHANGED rcv

(* ... and, once the loser is drained, the next round or the end. *)
leave ==
    /\ snd.pc = "leave" /\ loserDone(snd)
    /\ snd' = IF snd.result = "again" /\ snd.rounds < MaxRounds
              THEN Round([snd EXCEPT !.rounds = @ + 1])
              ELSE Left(snd)
    /\ UnchangedNet

Coordinator == \/ takeLAN \/ takeNet \/ takeDown \/ expire \/ bothFailed \/ commit \/ drainBoth
               \/ sent \/ receiverClosed \/ dropped \/ refused
               \/ reaccept \/ reacceptAbsorbs \/ reacceptTimesOut \/ finish \/ leave

----------------------------------------------------------------------------
(* The receiving command *)

RcvOnly == UNCHANGED <<ln, snd>> /\ UnchangedServer

(* mDNS answers while the LAN goroutine waits, for the round's rendezvous. *)
announced(k) == snd.lan = "accept" /\ snd.rkey = k

(* A command that is not running: the saved key is all it has. *)
NotRunning == [pc |-> "idle", key |-> Code, resumed |-> FALSE, saved |-> Code,
               port |-> Code, conn |-> NoConn, via |-> "lan", first |-> FALSE, armed |-> FALSE,
               attempt |-> 1, round |-> 0, starts |-> 0, unsaved |-> FALSE]
receiveEnds(r) == [NotRunning EXCEPT !.pc = "over", !.saved = r.saved, !.starts = r.starts, !.unsaved = r.unsaved]

(* newRecvSession: the saved key, else the code. *)
runReceive(d) ==
    /\ rcv[d].pc \in {"idle", "over"} /\ rcv[d].starts < MaxStarts
    /\ rcv' = [rcv EXCEPT ![d] = [rcv[d] EXCEPT !.pc = "find", !.key = rcv[d].saved,
                  !.resumed = rcv[d].saved # Code, !.armed = TRUE, !.starts = @ + 1]]
    /\ UNCHANGED conn /\ RcvOnly

(* discoverSender: the head start of the mDNS query ends without an answer, ... *)
headStart(d) ==
    /\ rcv[d].pc = "find"
    /\ \E armed \in BOOLEAN : rcv' = [rcv EXCEPT ![d].pc = "join", ![d].armed = armed]
    /\ UNCHANGED conn /\ RcvOnly

(* ... or an answer comes: at once, while joining, or after the server failed. *)
lanAnswer(d) ==
    /\ rcv[d].pc \in {"find", "join", "last"} /\ rcv[d].armed /\ announced(rcv[d].key)
    /\ rcv' = [rcv EXCEPT ![d].pc = "hit", ![d].armed = FALSE, ![d].port = rcv[d].key]
    /\ UNCHANGED conn /\ RcvOnly

lanMiss(d) ==
    /\ rcv[d].pc \in {"join", "last"} /\ rcv[d].armed
    /\ rcv' = [rcv EXCEPT ![d] = IF rcv[d].pc = "last" THEN receiveEnds(rcv[d])
                                        ELSE [rcv[d] EXCEPT !.armed = FALSE]]
    /\ UNCHANGED conn /\ RcvOnly

Reachable(d) == IF rcv[d].via = "lan" THEN ln["lan"].open /\ ln["lan"].port = rcv[d].port
                                      ELSE ln["net"].open /\ snd.peer = d

(* dialLAN: the answer may be stale, or a firewall in the way. *)
dialLAN(d) ==
    /\ rcv[d].pc = "hit"
    /\ \/ /\ ln["lan"].open /\ ln["lan"].port = rcv[d].port
          /\ \E c \in Fresh :
                /\ Dialled(d, "lan", c, rcv[d].key)
                /\ rcv' = [rcv EXCEPT ![d].pc = "shake", ![d].conn = c, ![d].via = "lan", ![d].first = TRUE]
       \/ rcv' = [rcv EXCEPT ![d].pc = "join"] /\ UNCHANGED conn
    /\ RcvOnly

(* joinRace gives up: a LAN query still running decides. *)
joinLost(r) == IF r.armed THEN [r EXCEPT !.pc = "last"] ELSE receiveEnds(r)

join(d) ==
    /\ rcv[d].pc = "join" /\ slot[rcv[d].key].st = "waiting"
    /\ slot' = [slot EXCEPT ![rcv[d].key] = [st |-> "joined", dev |-> d]]
    /\ rcv' = [rcv EXCEPT ![d].pc = "link", ![d].via = "net", ![d].armed = FALSE]
    /\ UNCHANGED <<conn, ln, snd, faults, seen>>

(* 404 until the budget is spent; 409 at once on the code, within the budget *)
(* on a resume key.                                                          *)
joinRefused(d) ==
    /\ rcv[d].pc = "join" /\ slot[rcv[d].key].st # "waiting"
    /\ rcv' = [rcv EXCEPT ![d] = joinLost(rcv[d])]
    /\ UNCHANGED conn /\ RcvOnly

(* The server cannot be reached; the request may have reached it all the same. *)
joinFails(d) ==
    /\ rcv[d].pc = "join" /\ faults < MaxFaults
    /\ faults' = faults + 1
    /\ slot' \in {slot} \cup {[slot EXCEPT ![k] = [st |-> "joined", dev |-> d]] :
                              k \in {rcv[d].key} \cap {j \in Secrets : slot[j].st = "waiting"}}
    /\ rcv' = [rcv EXCEPT ![d] = joinLost(rcv[d])]
    /\ UNCHANGED <<conn, ln, snd, seen>>

(* linkViaInternet, the module Link *)
link(d) ==
    /\ rcv[d].pc = "link"
    /\ \/ /\ slot[rcv[d].key].dev = d
          /\ rcv' = [rcv EXCEPT ![d].pc = "dial", ![d].attempt = 1]
       \/ rcv' = [rcv EXCEPT ![d] = receiveEnds(rcv[d])]
    /\ UNCHANGED conn /\ RcvOnly

(* receiveOver: one attempt failed.  A transient failure re-dials the route, *)
(* then looks for the sender again; a terminal one ends the command.         *)
receiveAgain(r) ==
    IF r.attempt < DefaultAttempts THEN [r EXCEPT !.pc = "dial", !.attempt = @ + 1]
    ELSE IF r.resumed /\ r.round < maxRepairRounds
    THEN [r EXCEPT !.pc = "find", !.armed = TRUE, !.attempt = 1, !.round = @ + 1,
                   !.port = Code, !.via = "lan", !.first = FALSE]
    ELSE receiveEnds(r)

dial(d) ==
    /\ rcv[d].pc = "dial"
    /\ \/ /\ Reachable(d)
          /\ \E c \in Fresh :
                /\ Dialled(d, rcv[d].via, c, rcv[d].key)
                /\ rcv' = [rcv EXCEPT ![d].pc = "shake", ![d].conn = c, ![d].first = FALSE]
       \/ /\ ~Reachable(d) \/ Fresh = {}
          /\ rcv' = [rcv EXCEPT ![d] = receiveAgain(rcv[d])]
          /\ UNCHANGED conn
    /\ RcvOnly

(* recvSession.paired on the first success; saving the key is best effort. *)
paired(d) ==
    /\ rcv[d].pc = "shake" /\ ReceiverHandshake(rcv[d].conn)
    /\ \E saves \in BOOLEAN :
          /\ saves \/ faults < MaxFaults
          /\ rcv' = [rcv EXCEPT ![d] =
                 LET r == [rcv[d] EXCEPT !.pc = "xfer", !.attempt = IF rcv[d].first THEN 1 ELSE @]
                 IN  IF r.resumed THEN r
                     ELSE [r EXCEPT !.key = r.conn, !.resumed = TRUE,
                                    !.saved = IF saves THEN r.conn ELSE @, !.unsaved = @ \/ ~saves]]
          /\ faults' = IF saves THEN faults ELSE faults + 1
    /\ UNCHANGED <<ln, snd, slot, seen>>

shakeFails(d) ==
    /\ rcv[d].pc = "shake" /\ ReceiverFails(rcv[d].conn)
    /\ \/ rcv[d].first /\ rcv' = [rcv EXCEPT ![d].pc = "join", ![d].conn = NoConn]
       \/ ~rcv[d].first /\ rcv' = [rcv EXCEPT ![d] = receiveAgain([rcv[d] EXCEPT !.conn = NoConn])]
       \/ ~rcv[d].first /\ rcv' = [rcv EXCEPT ![d] = receiveEnds([rcv[d] EXCEPT !.conn = NoConn])]
    /\ RcvOnly

(* The transfer ends well and the saved key is forgotten, ... *)
received(d) ==
    /\ rcv[d].pc = "xfer" /\ snd.pc = "xfer" /\ snd.cur = rcv[d].conn
    /\ conn[rcv[d].conn].s = "handed" /\ ~conn[rcv[d].conn].cut
    /\ conn' = [conn EXCEPT ![rcv[d].conn].r = "done"]
    /\ rcv' = [rcv EXCEPT ![d] = [receiveEnds(rcv[d]) EXCEPT !.pc = "done", !.saved = Code]]
    /\ RcvOnly

(* ... the connection is lost or closed by the sender, ... *)
lost(d) ==
    /\ rcv[d].pc = "xfer"
    /\ conn[rcv[d].conn].cut \/ conn[rcv[d].conn].s = "closed"
    /\ conn' = [conn EXCEPT ![rcv[d].conn].r = "closed"]
    /\ \E r \in {receiveAgain(rcv[d]), receiveEnds(rcv[d])} :
          rcv' = [rcv EXCEPT ![d] = [r EXCEPT !.conn = NoConn]]
    /\ RcvOnly

(* ... the user quits, or the process dies without a word. *)
Ended(d, silent) == IF rcv[d].conn = NoConn THEN conn
                    ELSE [conn EXCEPT ![rcv[d].conn].r = IF @ = "open" THEN "closed" ELSE "failed",
                               ![rcv[d].conn].cut = @ \/ (silent /\ conn[rcv[d].conn].s # "closed")]

quit(d) ==
    /\ rcv[d].pc \notin {"idle", "done", "over"} /\ faults < MaxFaults
    /\ \E silent \in BOOLEAN : conn' = Ended(d, silent)
    /\ rcv' = [rcv EXCEPT ![d] = receiveEnds(rcv[d])]
    /\ faults' = faults + 1
    /\ UNCHANGED <<ln, snd, slot, seen>>

ReceiverSteps(d) == \/ headStart(d) \/ lanAnswer(d) \/ lanMiss(d) \/ dialLAN(d) \/ join(d)
                    \/ joinRefused(d) \/ joinFails(d) \/ link(d) \/ dial(d)
                    \/ paired(d) \/ shakeFails(d) \/ received(d) \/ lost(d)

----------------------------------------------------------------------------
(* The network and the server *)

Cut(c) == /\ faults < MaxFaults /\ faults' = faults + 1
          /\ cut(c) /\ UNCHANGED <<snd, rcv, slot, seen>>

(* A crash, a restart without its state, or the TTL loses what a slot held. *)
serverLoses(k) ==
    /\ slot[k].st # "none" /\ faults < MaxFaults
    /\ faults' = faults + 1
    /\ slot' = [slot EXCEPT ![k] = [st |-> "none", dev |-> Nobody]]
    /\ seen' = [seen EXCEPT !.stale = @ \cup {k}]
    /\ UNCHANGED <<conn, ln, snd, rcv>>

Listens(c) == ListenerSteps(c) /\ UNCHANGED <<snd, rcv>> /\ UnchangedServer

----------------------------------------------------------------------------
Init ==
    /\ ListenerInit
    /\ snd = [pc |-> "pair", key |-> Code, resumed |-> FALSE, rkey |-> Code, resume |-> FALSE,
              winner |-> "none", paired |-> FALSE, lan |-> "bind", net |-> "create",
              lanConn |-> NoConn, netConn |-> NoConn, cur |-> NoConn, peer |-> Nobody,
              lanErr |-> FALSE, downCh |-> FALSE, down |-> FALSE, held |-> FALSE, cancel |-> FALSE,
              attempt |-> 1, fails |-> 0, misses |-> 0, rounds |-> 1, result |-> "none"]
    /\ rcv = [d \in Devices |-> NotRunning]
    /\ slot = [k \in Secrets |-> [st |-> "none", dev |-> Nobody]]
    /\ faults = 0
    /\ seen = [first |-> Nobody, owed |-> FALSE, stale |-> {}]

Next == \/ LanGoroutine \/ NetGoroutine \/ Coordinator \/ drainLoser
        \/ \E c \in Conns : Listens(c) \/ Cut(c)
        \/ \E d \in Devices : runReceive(d) \/ quit(d) \/ ReceiverSteps(d)
        \/ \E k \in Secrets : serverLoses(k)

Spec == Init /\ [][Next]_vars

(* Every goroutine and process that can move does: each blocking step of the *)
(* code has a timeout.  Faults, users and reruns are not promised.           *)
FairSpec == /\ Spec
            /\ WF_vars(LanGoroutine) /\ WF_vars(NetGoroutine)
            /\ WF_vars(Coordinator) /\ WF_vars(drainLoser)
            /\ \A c \in Conns : WF_vars(Listens(c))
            /\ \A d \in Devices : WF_vars(ReceiverSteps(d))

----------------------------------------------------------------------------
(* Type correctness of the pairing's state. *)
PairTypeOK == /\ ListenerTypeOK
              /\ snd \in Sender /\ rcv \in [Devices -> Receiver]
              /\ slot \in [Secrets -> Slot]
              /\ faults \in 0..MaxFaults
              /\ seen \in [first : Devices \cup {Nobody}, owed : BOOLEAN, stale : SUBSET Secrets]

(* A device that ever opened a connection to the sender whose session key    *)
(* comes from it can find the sender again: while its command runs it looks  *)
(* for the sender under that very key, and between runs the key is saved     *)
(* (sendSession.paired and recvSession.paired, each switching only once).    *)
(* Exempt are a transfer that was completed and a key that could not be      *)
(* written.                                                                  *)
Opened(c) == conn[c].r \in {"open", "closed", "done"}
KeysAgree ==
    snd.resumed /\ Opened(snd.key) => \A d \in {conn[snd.key].dev} \cap Devices :
        \/ rcv[d].pc = "done" \/ rcv[d].unsaved
        \/ rcv[d].pc \in {"idle", "over"} /\ rcv[d].saved = snd.key
        \/ rcv[d].pc \notin {"idle", "done", "over"} /\ rcv[d].key = snd.key

(* A round after the first pairing is only won by the device of that first   *)
(* pairing: the round listens on the resume key, which no other device has.  *)
ReturnsToFirst ==
    \A c \in Conns : snd.resume /\ c \in {snd.lanConn, snd.netConn} => conn[c].dev = seen.first

(* Once a code round picked a winner while the server still held the code's  *)
(* session, the code is spent when the round is left: its slot is claimed or *)
(* tombstoned, unless the server lost it or never heard of the end of it.    *)
CodeSpent ==
    seen.owed /\ (snd.pc = "over" \/ snd.rounds > 1) /\ Code \notin seen.stale
        => slot[Code].st \in {"joined", "consumed"}

(* The server refuses to create the round's session as claimed only when an  *)
(* answer or the end of an earlier session was lost, or a session was left   *)
(* behind on purpose: rounds do not block each other.                        *)
RefusedOnlyIfLeft == snd.net = "claimed" => snd.rkey \in seen.stale

(* Between rounds the sender holds no connection: the winner's, the loser's  *)
(* and those that were re-accepted are closed, so no device waits on a       *)
(* sender that went on.                                                      *)
LoserReleased ==
    (snd.pc = "over" \/ (snd.pc = "pair" /\ snd.lan = "bind" /\ snd.net = "create"))
        => \A c \in Conns : conn[c].s # "handed"

(* Nobody is left waiting. A round that is aborted, or whose transfer has    *)
(* ended, is left: neither goroutine keeps the coordinator waiting for an    *)
(* outcome it has had. And a receiving command comes to an end, whatever the *)
(* sender, the server and the network do.                                    *)
PairingEnds ==
    /\ snd.pc \in {"drain", "finish"} ~> snd.pc \in {"pair", "over"}
    /\ \A d \in Devices : rcv[d].pc = "find" ~> rcv[d].pc \in {"done", "over"}
=============================================================================
