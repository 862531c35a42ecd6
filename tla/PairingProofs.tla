----------------------------- MODULE PairingProofs -----------------------------
(***************************************************************************)
(* The invariants of a pairing, for any number of devices, connections,    *)
(* rounds, attempts and faults.  PInv is inductive: where the sender's     *)
(* process can be, what the server holds of its sessions, which            *)
(* connections it holds, and which device knows which secret.              *)
(***************************************************************************)
EXTENDS Pairing, TLAPS

Winning == {"won", "xfer", "reaccept", "finish"}   \* the winner's listener is in use
After == {"xfer", "reaccept", "finish", "leave"}   \* a winner is committed
Busy == {"arrived", "handshake", "ready", "handed"}

\* Where the sender's process can be.
SenderShape ==
    /\ snd.pc \in {"pair", "drain", "over"} => snd.winner = "none" /\ ~snd.paired
    /\ snd.pc = "won" => snd.winner \in Paths /\ ~snd.paired
    /\ snd.pc \in After => snd.winner \in Paths /\ snd.paired /\ snd.cancel /\ snd.resumed
    /\ snd.lan = "paired" \/ snd.winner = "lan" => snd.lanConn \in Conns
    /\ snd.net = "paired" \/ snd.winner = "net" => snd.netConn \in Conns
    /\ snd.winner = "lan" => snd.lan = "done"
    /\ snd.winner = "net" => snd.net = "done"
    /\ snd.pc = "xfer" => snd.cur \in Conns
    /\ snd.pc = "over" => snd.lan = "done" /\ snd.net = "done" /\ ~snd.held

\* Which key the session and the round are on.
KeyShape ==
    /\ snd.resumed => snd.key \in Conns
    /\ ~snd.resumed => snd.key = Code
    /\ snd.resume => snd.resumed /\ snd.rkey = snd.key
    /\ ~snd.resume => snd.rkey = Code
    /\ ~snd.paired /\ ~snd.resume => ~snd.resumed
    /\ snd.rounds > 1 => snd.resume

\* The round's session of the server is held by whoever will end it.
HeldShape ==
    snd.held => \/ snd.net \in {"wait", "path", "accept", "paired"}
                \/ snd.winner = "net" /\ snd.pc \in Winning

\* What a slot holds is the round's session, or the tombstone of the code, or
\* was left behind; the code of a committed round is held or spent.
SlotShape ==
    /\ \A k \in Secrets \ seen.stale : slot[k].st # "none" =>
           \/ k = snd.rkey /\ snd.held /\ slot[k].st \in {"waiting", "joined"}
           \/ k = Code /\ snd.resumed /\ slot[k].st = "consumed" /\ (snd.resume \/ (snd.paired /\ snd.net # "create"))
    /\ snd.held /\ snd.rkey \notin seen.stale => slot[snd.rkey].st \in {"waiting", "joined"}
    /\ RefusedOnlyIfLeft
    /\ seen.owed => snd.resumed
    /\ seen.owed /\ Code \notin seen.stale =>
           (~snd.resume /\ snd.paired /\ snd.held) \/ slot[Code].st = "consumed"

\* Who holds a connection that was handed over, and what a listener leaves.
HandedShape ==
    /\ \A c \in Conns : conn[c].s = "handed" =>
           \/ c = snd.lanConn /\ (snd.lan = "paired" \/ (snd.winner = "lan" /\ snd.pc \in Winning))
           \/ c = snd.netConn /\ conn[c].path = "net" /\ conn[c].live
                /\ (snd.net = "paired" \/ (snd.winner = "net" /\ snd.pc \in Winning))
           \/ c = snd.cur /\ snd.pc = "xfer"
    /\ snd.lan = "paired" \/ snd.winner = "lan" => conn[snd.lanConn].path = "lan" /\ conn[snd.lanConn].s # "none"
    /\ snd.net = "paired" \/ snd.winner = "net" => conn[snd.netConn].path = "net" /\ conn[snd.netConn].s # "none"
    /\ snd.pc = "xfer" => conn[snd.cur].path = snd.winner /\ conn[snd.cur].s # "none"
    /\ snd.lan = "paired" \/ (snd.winner = "lan" /\ snd.pc = "won") =>
           conn[snd.lanConn].s = "handed" /\ (~snd.resumed => conn[snd.lanConn].want = Code)
    /\ snd.net = "paired" \/ (snd.winner = "net" /\ snd.pc = "won") =>
           conn[snd.netConn].s = "handed" /\ (~snd.resumed => conn[snd.netConn].want = Code)

\* A listener lives with its goroutine or its winner and accepts the round's key
\* or the session's; a live connection was dialled to it.
ListenShape ==
    /\ ln["lan"].open => snd.lan \in {"accept", "paired"} \/ (snd.winner = "lan" /\ snd.pc \in Winning)
    /\ ln["net"].open => snd.net \in {"accept", "paired"} \/ (snd.winner = "net" /\ snd.pc \in Winning)
    /\ \A p \in Paths : ln[p].open => ln[p].secret \in {snd.rkey, snd.key}
    /\ \A c \in Conns :
        /\ conn[c].s = "none" => conn[c].dev = Nobody /\ conn[c].r = "none" /\ ~conn[c].live
        /\ conn[c].s # "none" => conn[c].dev \in Devices
        /\ conn[c].live => ln[conn[c].path].open
        /\ conn[c].live /\ conn[c].s \in {"handshake", "ready"} => conn[c].use \in {snd.rkey, snd.key}
        /\ conn[c].s \in {"ready", "handed"} => conn[c].use = conn[c].want

\* A secret other than the code is known to the device it was made with.
SecretShape ==
    /\ \A d \in Devices :
        /\ rcv[d].key \in Conns => conn[rcv[d].key].dev = d
        /\ rcv[d].saved \in Conns => conn[rcv[d].saved].dev = d
        /\ rcv[d].conn \in Conns => conn[rcv[d].conn].dev = d
        /\ rcv[d].resumed <=> rcv[d].key # Code
        /\ rcv[d].pc = "shake" => rcv[d].conn \in Conns /\ conn[rcv[d].conn].r = "handshake"
        /\ rcv[d].pc = "xfer" => rcv[d].conn \in Conns /\ conn[rcv[d].conn].r = "open"
        /\ rcv[d].pc \notin {"shake", "xfer"} => rcv[d].conn = NoConn
    /\ \A c \in Conns : conn[c].s \in Busy /\ conn[c].want \in Conns => conn[conn[c].want].dev = conn[c].dev
    /\ snd.resumed => seen.first = conn[snd.key].dev /\ conn[snd.key].s # "none"
    /\ ReturnsToFirst

\* A device that opened a connection on the code has that connection's key.
Adopted(d, c) ==
    \/ rcv[d].pc = "done" \/ rcv[d].unsaved
    \/ rcv[d].saved = c /\ (rcv[d].pc \notin {"idle", "over"} => rcv[d].key = c)

First(c) == c = snd.key \/ (conn[c].s \in Busy /\ conn[c].want = Code)

AdoptShape ==
    \A c \in Conns : First(c) =>
        /\ Opened(c) => Adopted(conn[c].dev, c)
        /\ conn[c].r = "handshake" => LET d == conn[c].dev
                                      IN rcv[d].pc = "shake" /\ rcv[d].conn = c /\ rcv[d].key = Code

PInv ==
    /\ PairTypeOK
    /\ SenderShape
    /\ KeyShape
    /\ HeldShape
    /\ SlotShape
    /\ HandedShape
    /\ ListenShape
    /\ SecretShape
    /\ AdoptShape

-----------------------------------------------------------------------------
\* The bounds and the kinds of secrets.
LEMMA Kinds ==
  /\ NoConn \notin Conns /\ Code \notin Conns /\ NoConn = Code /\ Code \in Secrets /\ Conns \subseteq Secrets
  /\ \A k \in Secrets : k = Code \/ k \in Conns
  /\ "lan" \in Paths /\ "net" \in Paths /\ (\A p \in Paths : p = "lan" \/ p = "net")
  /\ Nobody \notin Devices
  BY ListenerAssumption DEF NoConn, Conns, Code, Secrets, Paths

\* A fault is one more.
LEMMA FaultCounts ==
  ASSUME PairTypeOK, faults < MaxFaults, faults' = faults + 1
  PROVE  faults' \in 0..MaxFaults
  BY PairingAssumption DEF PairTypeOK

\* What the sender's end of a connection is once it is closed.
LEMMA ShutRecord ==
  ASSUME NEW x \in Conn
  PROVE  /\ Shut(x) \in Conn /\ Shut(x).dev = x.dev /\ Shut(x).path = x.path /\ Shut(x).r = x.r
         /\ Shut(x).s = "closed" /\ ~Shut(x).live /\ Shut(x).want = Code /\ Shut(x).use = Code
<1>1. Code \in Secrets
  BY Kinds
<1> QED BY <1>1 DEF Shut, Conn

\* Only the state of a connection's ends changes; who dialled it, and where, stays.
Keeps(c) ==
    /\ conn'[c].dev = conn[c].dev /\ conn'[c].path = conn[c].path /\ conn'[c].r = conn[c].r

\* A connection is as it was, or closed.
SameOrShut(c) ==
    /\ Keeps(c)
    /\ \/ /\ conn'[c].s = conn[c].s /\ conn'[c].live = conn[c].live
          /\ conn'[c].want = conn[c].want /\ conn'[c].use = conn[c].use
       \/ conn'[c].s = "closed" /\ ~conn'[c].live /\ conn'[c].want = Code /\ conn'[c].use = Code

\* A connection is closed.
LEMMA ConnClosedEffect ==
  ASSUME PairTypeOK, NEW b \in Conns, conn' = ConnClosed(conn, b)
  PROVE  /\ conn' \in [Conns -> Conn] /\ \A c \in Conns : SameOrShut(c)
         /\ conn'[b].s = "closed" /\ \A c \in Conns : c # b => conn'[c] = conn[c]
<1>1. conn \in [Conns -> Conn] /\ conn' = [conn EXCEPT ![b] = Shut(conn[b])]
  BY DEF PairTypeOK, ListenerTypeOK, ConnClosed
<1>2. conn[b] \in Conn
  BY <1>1
<1>3. PICK y : y = Shut(conn[b])
  OBVIOUS
<1>4. /\ y \in Conn /\ y.dev = conn[b].dev /\ y.path = conn[b].path /\ y.r = conn[b].r
      /\ y.s = "closed" /\ ~y.live /\ y.want = Code /\ y.use = Code
  BY <1>2, <1>3, ShutRecord
<1>5. conn' = [conn EXCEPT ![b] = y]
  BY <1>1, <1>3
<1>6. conn' \in [Conns -> Conn] /\ conn'[b] = y /\ \A c \in Conns : c # b => conn'[c] = conn[c]
  BY <1>1, <1>4, <1>5
<1> QED BY <1>4, <1>6 DEF SameOrShut, Keeps

\* A transport that is torn down takes its live connections along.
LEMMA TornDownEffect ==
  ASSUME PairTypeOK, NEW p \in Paths, conn' = TornDown(conn, p)
  PROVE  /\ conn' \in [Conns -> Conn] /\ \A c \in Conns : SameOrShut(c)
         /\ \A c \in Conns : conn[c].path = p => ~conn'[c].live /\ (conn[c].live => conn'[c].s = "closed")
         /\ \A c \in Conns : conn[c].path # p \/ ~conn[c].live => conn'[c] = conn[c]
<1>1. conn \in [Conns -> Conn] /\ conn' = [c \in Conns |-> IF conn[c].path = p /\ conn[c].live THEN Shut(conn[c]) ELSE conn[c]]
  BY DEF PairTypeOK, ListenerTypeOK, TornDown
<1>2. \A c \in Conns : conn[c] \in Conn /\ conn[c].live \in BOOLEAN
  BY <1>1 DEF Conn
<1>3. \A c \in Conns : conn'[c] = IF conn[c].path = p /\ conn[c].live THEN Shut(conn[c]) ELSE conn[c]
  BY <1>1
<1>4. \A c \in Conns : conn'[c] \in Conn
  BY <1>2, <1>3, ShutRecord
<1>5. conn' \in [Conns -> Conn]
  BY <1>1, <1>4
<1>6. ASSUME NEW c \in Conns
      PROVE  /\ SameOrShut(c)
             /\ conn[c].path = p => ~conn'[c].live /\ (conn[c].live => conn'[c].s = "closed")
             /\ conn[c].path # p \/ ~conn[c].live => conn'[c] = conn[c]
  BY <1>2, <1>3, ShutRecord DEF SameOrShut, Keeps
<1> QED BY <1>5, <1>6

\* A connection whose listener is closed.
Unlisted(c) ==
    /\ Keeps(c) /\ conn'[c].s = conn[c].s /\ conn'[c].want = conn[c].want /\ conn'[c].use = conn[c].use
    /\ conn[c].path = "lan" => ~conn'[c].live
    /\ conn[c].path # "lan" => conn'[c].live = conn[c].live

\* What closing the listener of the LAN does.
LEMMA ClosedEffect ==
  ASSUME NEW cs \in [Conns -> Conn], conn' = Closed(cs, "lan")
  PROVE  /\ conn' \in [Conns -> Conn]
         /\ \A c \in Conns : /\ conn'[c].dev = cs[c].dev /\ conn'[c].path = cs[c].path /\ conn'[c].r = cs[c].r
                             /\ conn'[c].s = cs[c].s /\ conn'[c].want = cs[c].want /\ conn'[c].use = cs[c].use
                             /\ cs[c].path = "lan" => ~conn'[c].live
                             /\ cs[c].path # "lan" => conn'[c] = cs[c]
<1>1. \A c \in Conns : cs[c] \in Conn
  OBVIOUS
<1>2. \A c \in Conns : conn'[c] = IF cs[c].path = "lan" THEN [cs[c] EXCEPT !.live = FALSE] ELSE cs[c]
  BY DEF Closed
<1>3. ASSUME NEW c \in Conns
      PROVE  /\ conn'[c] \in Conn
             /\ conn'[c].dev = cs[c].dev /\ conn'[c].path = cs[c].path /\ conn'[c].r = cs[c].r
             /\ conn'[c].s = cs[c].s /\ conn'[c].want = cs[c].want /\ conn'[c].use = cs[c].use
             /\ cs[c].path = "lan" => ~conn'[c].live
             /\ cs[c].path # "lan" => conn'[c] = cs[c]
  <2> DEFINE x == cs[c]
  <2>1. x \in Conn /\ conn'[c] = IF x.path = "lan" THEN [x EXCEPT !.live = FALSE] ELSE x
    BY <1>1, <1>2
  <2> HIDE DEF x
  <2>2. CASE x.path = "lan"
    <3>1. conn'[c] = [x EXCEPT !.live = FALSE]
      BY <2>1, <2>2
    <3> QED BY <2>1, <2>2, <3>1 DEF Conn, x
  <2>3. CASE x.path # "lan"
    BY <2>1, <2>3 DEF x
  <2> QED BY <2>2, <2>3
<1>4. conn' \in [Conns -> Conn]
  BY <1>3 DEF Closed
<1> QED BY <1>3, <1>4

\* A field of a listener.
LEMMA ListenerRecords ==
  /\ NotListening \in Listening /\ ~NotListening.open
  /\ \A k \in Secrets : NewListener(k) \in Listening /\ NewListener(k).open /\ NewListener(k).secret = k
<1>1. 0 \in 0..FailCap /\ Code \in Secrets
  BY ListenerAssumption, Kinds
<1> QED BY <1>1 DEF NotListening, NewListener, Listening

\* The listener of a path is replaced.
LEMMA ListenerSet ==
  ASSUME PairTypeOK, NEW p \in Paths, NEW l \in Listening, ln' = [ln EXCEPT ![p] = l]
  PROVE  ln' \in [Paths -> Listening] /\ ln'[p] = l /\ \A q \in Paths : q # p => ln'[q] = ln[q]
  BY DEF PairTypeOK, ListenerTypeOK

\* A failure that is counted or taken leaves the listener as it is.
SameListener(p) == ln'[p].open = ln[p].open /\ ln'[p].secret = ln[p].secret

\* A failure is taken from its channel.
LEMMA FailTakenEffect ==
  ASSUME PairTypeOK, NEW p \in Paths, NEW kind \in {"auth", "other"}, FailTaken(p, kind)
  PROVE  ln' \in [Paths -> Listening] /\ \A q \in Paths : SameListener(q)
<1> DEFINE l == ln[p]
<1>1. ln \in [Paths -> Listening] /\ l \in Listening
  BY DEF PairTypeOK, ListenerTypeOK
<1>2. CASE kind = "auth"
  <2>1. ln' = [ln EXCEPT ![p] = [l EXCEPT !.auth = l.auth - 1]] /\ l.auth > 0
    BY <1>2 DEF FailTaken
  <2> HIDE DEF l
  <2>2. PICK y : y = [l EXCEPT !.auth = l.auth - 1]
    OBVIOUS
  <2>3. l.auth - 1 \in 0..FailCap
    BY <1>1, <2>1, ListenerAssumption DEF Listening
  <2>4. y \in Listening /\ y.open = l.open /\ y.secret = l.secret
    BY <1>1, <2>2, <2>3 DEF Listening
  <2> QED BY <1>1, <2>1, <2>2, <2>4 DEF SameListener, l
<1>3. CASE kind = "other"
  <2>1. ln' = [ln EXCEPT ![p] = [l EXCEPT !.other = l.other - 1]] /\ l.other > 0
    BY <1>3 DEF FailTaken
  <2> HIDE DEF l
  <2>2. PICK y : y = [l EXCEPT !.other = l.other - 1]
    OBVIOUS
  <2>3. l.other - 1 \in 0..FailCap
    BY <1>1, <2>1, ListenerAssumption DEF Listening
  <2>4. y \in Listening /\ y.open = l.open /\ y.secret = l.secret
    BY <1>1, <2>2, <2>3 DEF Listening
  <2> QED BY <1>1, <2>1, <2>2, <2>4 DEF SameListener, l
<1> QED BY <1>2, <1>3

\* A failure is put into its channel, or dropped.
LEMMA FailAddedEffect ==
  ASSUME NEW l \in Listening, NEW kind \in {"auth", "other"}
  PROVE  FailAdded(l, kind) \in Listening /\ FailAdded(l, kind).open = l.open /\ FailAdded(l, kind).secret = l.secret
<1>1. CASE kind = "auth"
  <2>1. FailAdded(l, kind) = IF l.auth < FailCap THEN [l EXCEPT !.auth = l.auth + 1] ELSE l
    BY <1>1 DEF FailAdded
  <2>2. l.auth < FailCap => l.auth + 1 \in 0..FailCap
    BY ListenerAssumption DEF Listening
  <2> QED BY <2>1, <2>2 DEF Listening
<1>2. CASE kind = "other"
  <2>1. FailAdded(l, kind) = IF l.other < FailCap THEN [l EXCEPT !.other = l.other + 1] ELSE l
    BY <1>2 DEF FailAdded
  <2>2. l.other < FailCap => l.other + 1 \in 0..FailCap
    BY ListenerAssumption DEF Listening
  <2> QED BY <2>1, <2>2 DEF Listening
<1> QED BY <1>1, <1>2

\* A connection is on one of the two paths.
LEMMA PathKinds ==
  ASSUME PairTypeOK
  PROVE  \A c \in Conns : conn[c].path = "lan" \/ conn[c].path = "net"
  BY DEF PairTypeOK, ListenerTypeOK, Conn, Paths

\* A listener starts on a key, ...
LEMMA ListenerStarts ==
  ASSUME PairTypeOK, NEW p \in Paths, ln' = [ln EXCEPT ![p] = NewListener(snd.rkey)]
  PROVE  /\ ln' \in [Paths -> Listening] /\ ln'[p].open /\ ln'[p].secret = snd.rkey
         /\ \A q \in Paths : q # p => ln'[q] = ln[q]
<1>1. snd.rkey \in Secrets
  BY DEF PairTypeOK, Sender
<1>2. PICK l : l = NewListener(snd.rkey)
  OBVIOUS
<1>3. l \in Listening /\ l.open /\ l.secret = snd.rkey
  BY <1>1, <1>2, ListenerRecords
<1>4. ln' = [ln EXCEPT ![p] = l]
  BY <1>2
<1> QED BY <1>3, <1>4, ListenerSet

\* ... and is closed.
LEMMA ListenerStops ==
  ASSUME PairTypeOK, NEW p \in Paths, ln' = [ln EXCEPT ![p] = NotListening]
  PROVE  /\ ln' \in [Paths -> Listening] /\ ~ln'[p].open
         /\ \A q \in Paths : q # p => ln'[q] = ln[q]
<1>2. PICK l : l = NotListening
  OBVIOUS
<1>3. l \in Listening /\ ~l.open
  BY <1>2, ListenerRecords
<1>4. ln' = [ln EXCEPT ![p] = l]
  BY <1>2
<1> QED BY <1>3, <1>4, ListenerSet

\* A connection is handed over.
LEMMA HandedEffect ==
  ASSUME PairTypeOK, NEW b \in Conns, conn' = [conn EXCEPT ![b].s = "handed"]
  PROVE  /\ conn' \in [Conns -> Conn] /\ \A c \in Conns : c # b => conn'[c] = conn[c]
         /\ Keeps(b) /\ conn'[b].s = "handed" /\ conn'[b].live = conn[b].live
         /\ conn'[b].want = conn[b].want /\ conn'[b].use = conn[b].use /\ conn'[b].cut = conn[b].cut
  BY DEF PairTypeOK, ListenerTypeOK, Keeps, Conn

\* The server's slot of a key is set.
LEMMA SlotEffect ==
  ASSUME PairTypeOK, NEW k \in Secrets, NEW v \in Slot, slot' = [slot EXCEPT ![k] = v]
  PROVE  slot' \in [Secrets -> Slot] /\ slot'[k] = v /\ \A j \in Secrets : j # k => slot'[j] = slot[j]
  BY DEF PairTypeOK

\* A key is left behind at the server.
LEMMA StaleEffect ==
  ASSUME PairTypeOK, NEW k \in Secrets, seen' = [seen EXCEPT !.stale = seen.stale \cup {k}]
  PROVE  /\ seen' \in [first : Devices \cup {Nobody}, owed : BOOLEAN, stale : SUBSET Secrets]
         /\ seen'.first = seen.first /\ seen'.owed = seen.owed /\ seen'.stale = seen.stale \cup {k}
  BY DEF PairTypeOK

\* How ending the server's session leaves its slot.
SlotEnds(k, con) ==
    IF slot[k].st \in {"none", "consumed"} THEN slot'[k].st = slot[k].st ELSE slot'[k].st = IF con THEN "consumed" ELSE "none"

\* The session ends: nothing was held, or the slot is freed or spent, or the request is lost.
LEMMA EndSessionEffect ==
  ASSUME PairTypeOK, endSession(snd)
  PROVE  /\ slot' \in [Secrets -> Slot] /\ faults' \in 0..MaxFaults
         /\ seen' \in [first : Devices \cup {Nobody}, owed : BOOLEAN, stale : SUBSET Secrets]
         /\ seen'.first = seen.first /\ seen'.owed = seen.owed
         /\ \A k \in Secrets : k # snd.rkey => slot'[k] = slot[k] /\ (k \in seen'.stale <=> k \in seen.stale)
         /\ seen.stale \subseteq seen'.stale
         /\ ~snd.held => slot' = slot /\ seen' = seen
         /\ snd.held => snd.rkey \in seen'.stale \/ (seen' = seen /\ SlotEnds(snd.rkey, consumeCode(snd)))
<1>1. /\ snd.rkey \in Secrets /\ faults \in 0..MaxFaults /\ slot \in [Secrets -> Slot]
      /\ seen \in [first : Devices \cup {Nobody}, owed : BOOLEAN, stale : SUBSET Secrets]
  BY DEF PairTypeOK, Sender
<1>2. CASE ~snd.held /\ UNCHANGED <<slot, faults, seen>>
  BY <1>1, <1>2
<1>3. CASE /\ snd.held /\ UNCHANGED <<faults, seen>>
           /\ slot' = IF slot[snd.rkey].st \in {"none", "consumed"} THEN slot
                  ELSE [slot EXCEPT ![snd.rkey] =
                           [st |-> IF consumeCode(snd) THEN "consumed" ELSE "none", dev |-> Nobody]]
  <2>1. PICK v : v = [st |-> IF consumeCode(snd) THEN "consumed" ELSE "none", dev |-> Nobody]
    OBVIOUS
  <2>2. v \in Slot /\ v.st = IF consumeCode(snd) THEN "consumed" ELSE "none"
    BY <2>1 DEF Slot
  <2>3. CASE slot[snd.rkey].st \in {"none", "consumed"}
    BY <1>1, <1>3, <2>3 DEF SlotEnds
  <2>4. CASE slot[snd.rkey].st \notin {"none", "consumed"}
    <3>1. slot' = [slot EXCEPT ![snd.rkey] = v]
      BY <1>3, <2>1, <2>4
    <3>2. slot' \in [Secrets -> Slot] /\ slot'[snd.rkey] = v /\ \A j \in Secrets : j # snd.rkey => slot'[j] = slot[j]
      BY <1>1, <2>2, <3>1
    <3> QED BY <1>1, <1>3, <2>2, <2>4, <3>2 DEF SlotEnds
  <2> QED BY <2>3, <2>4
<1>4. CASE /\ snd.held /\ faults < MaxFaults /\ faults' = faults + 1 /\ UNCHANGED slot
           /\ seen' = [seen EXCEPT !.stale = @ \cup {snd.rkey}]
  BY <1>1, <1>4, StaleEffect, FaultCounts
<1> QED BY <1>2, <1>3, <1>4 DEF endSession

\* The lan listener and the connections to it after the listener is closed.
LEMMA CloseLANEffect ==
  ASSUME PairTypeOK, closeLAN(conn)
  PROVE  /\ conn' \in [Conns -> Conn] /\ ln' \in [Paths -> Listening]
         /\ ~ln'["lan"].open /\ ln'["net"] = ln["net"]
         /\ \A c \in Conns : Unlisted(c)
<1>1. ln' \in [Paths -> Listening] /\ ~ln'["lan"].open /\ ln'["net"] = ln["net"]
  BY ListenerStops, Kinds DEF closeLAN
<1>2. conn' = Closed(conn, "lan") /\ conn \in [Conns -> Conn]
  BY DEF closeLAN, PairTypeOK, ListenerTypeOK
<1> QED BY <1>1, <1>2, ClosedEffect DEF Unlisted, Keeps

\* The net listener and its connections after the transport is torn down.
LEMMA TearDownEffect ==
  ASSUME PairTypeOK, tearDown(conn)
  PROVE  /\ conn' \in [Conns -> Conn] /\ ln' \in [Paths -> Listening]
         /\ ~ln'["net"].open /\ ln'["lan"] = ln["lan"] /\ \A c \in Conns : SameOrShut(c)
         /\ \A c \in Conns : conn[c].path = "net" => ~conn'[c].live /\ (conn[c].live => conn'[c].s = "closed")
         /\ \A c \in Conns : conn[c].path # "net" \/ ~conn[c].live => conn'[c] = conn[c]
<1>1. ln' \in [Paths -> Listening] /\ ~ln'["net"].open /\ ln'["lan"] = ln["lan"]
  BY ListenerStops, Kinds DEF tearDown
<1>2. conn' = TornDown(conn, "net")
  BY DEF tearDown
<1> QED BY <1>1, <1>2, TornDownEffect, Kinds

\* The LAN goroutine binds its listener, ...
LEMMA BindStep ==
  ASSUME PInv,
         snd.lan = "bind",
         snd' = [snd EXCEPT !.lan = "accept"],
         ln' = [ln EXCEPT !["lan"] = NewListener(snd.rkey)],
         UNCHANGED <<conn, rcv>>,
         UnchangedServer
  PROVE  PInv'
<1>0. PairTypeOK /\ snd \in Sender
  BY DEF PInv, PairTypeOK
<1>p. \A e \in Conns : conn[e].path = "lan" \/ conn[e].path = "net"
  BY <1>0, PathKinds
<1>2. /\ snd' \in Sender
      /\ snd'.pc = snd.pc /\ snd'.key = snd.key /\ snd'.resumed = snd.resumed /\ snd'.rkey = snd.rkey /\ snd'.resume = snd.resume
      /\ snd'.winner = snd.winner /\ snd'.paired = snd.paired /\ snd'.lan = "accept" /\ snd'.net = snd.net /\ snd'.lanConn = snd.lanConn
      /\ snd'.netConn = snd.netConn /\ snd'.cur = snd.cur /\ snd'.held = snd.held /\ snd'.cancel = snd.cancel /\ snd'.rounds = snd.rounds
  BY <1>0 DEF Sender
<1>3. /\ conn' = conn /\ rcv' = rcv /\ ln' \in [Paths -> Listening]
      /\ ln'["lan"].open /\ ln'["lan"].secret = snd.rkey /\ ln'["net"] = ln["net"]
  BY <1>0, Kinds, ListenerStarts
<1>4. slot' = slot /\ seen' = seen /\ faults' = faults
  BY DEF UnchangedServer
<1>t. PairTypeOK'
  BY <1>0, <1>2, <1>3, <1>4 DEF PairTypeOK, ListenerTypeOK
<1>s. SenderShape'
  BY <1>2, Kinds DEF PInv, SenderShape, After, Winning
<1>k. KeyShape'
  BY <1>2, Kinds DEF PInv, KeyShape, SenderShape, After
<1>h. HeldShape'
  BY <1>2 DEF PInv, HeldShape, SenderShape, Winning
<1>l. SlotShape'
  BY <1>2, <1>4 DEF PInv, SlotShape, SenderShape, KeyShape, HeldShape, RefusedOnlyIfLeft, Winning, After
<1>d. HandedShape'
  BY <1>2, <1>3, Kinds DEF PInv, HandedShape, SenderShape, Winning, After
<1>n. ListenShape'
  BY <1>p, <1>2, <1>3, Kinds DEF PInv, ListenShape, SenderShape, Winning, After
<1>c. SecretShape'
  BY <1>2, <1>3, <1>4, Kinds DEF PInv, SecretShape, SenderShape, KeyShape, ReturnsToFirst, Busy
<1>a. AdoptShape'
  BY <1>2, <1>3, Kinds DEF PInv, AdoptShape, First, Adopted, Opened, Busy
<1> QED BY <1>t, <1>s, <1>k, <1>h, <1>l, <1>d, <1>n, <1>c, <1>a DEF PInv

\* ... or cannot.
LEMMA BindFails ==
  ASSUME PInv,
         snd.lan = "bind",
         snd' = [snd EXCEPT !.lan = "failed"],
         UNCHANGED <<conn, ln, rcv>>,
         UnchangedServer
  PROVE  PInv'
<1>0. PairTypeOK /\ snd \in Sender
  BY DEF PInv, PairTypeOK
<1>p. \A e \in Conns : conn[e].path = "lan" \/ conn[e].path = "net"
  BY <1>0, PathKinds
<1>2. /\ snd' \in Sender
      /\ snd'.pc = snd.pc /\ snd'.key = snd.key /\ snd'.resumed = snd.resumed /\ snd'.rkey = snd.rkey /\ snd'.resume = snd.resume
      /\ snd'.winner = snd.winner /\ snd'.paired = snd.paired /\ snd'.lan = "failed" /\ snd'.net = snd.net /\ snd'.lanConn = snd.lanConn
      /\ snd'.netConn = snd.netConn /\ snd'.cur = snd.cur /\ snd'.held = snd.held /\ snd'.cancel = snd.cancel /\ snd'.rounds = snd.rounds
  BY <1>0 DEF Sender, LanOutcomes
<1>3. conn' = conn /\ rcv' = rcv /\ ln' = ln
  OBVIOUS
<1>4. slot' = slot /\ seen' = seen /\ faults' = faults
  BY DEF UnchangedServer
<1>t. PairTypeOK'
  BY <1>0, <1>2, <1>3, <1>4 DEF PairTypeOK, ListenerTypeOK
<1>s. SenderShape'
  BY <1>2, Kinds DEF PInv, SenderShape, After, Winning
<1>k. KeyShape'
  BY <1>2, Kinds DEF PInv, KeyShape, SenderShape, After
<1>h. HeldShape'
  BY <1>2 DEF PInv, HeldShape, SenderShape, Winning
<1>l. SlotShape'
  BY <1>2, <1>4 DEF PInv, SlotShape, SenderShape, KeyShape, HeldShape, RefusedOnlyIfLeft, Winning, After
<1>d. HandedShape'
  BY <1>2, <1>3, Kinds DEF PInv, HandedShape, SenderShape, Winning, After
<1>n. ListenShape'
  BY <1>p, <1>2, <1>3, Kinds DEF PInv, ListenShape, SenderShape, Winning, After
<1>c. SecretShape'
  BY <1>2, <1>3, <1>4, Kinds DEF PInv, SecretShape, SenderShape, KeyShape, ReturnsToFirst, Busy
<1>a. AdoptShape'
  BY <1>2, <1>3, Kinds DEF PInv, AdoptShape, First, Adopted, Opened, Busy
<1> QED BY <1>t, <1>s, <1>k, <1>h, <1>l, <1>d, <1>n, <1>c, <1>a DEF PInv

\* Binding the LAN listener.
LEMMA BindLAN ==
  ASSUME PInv, bindLAN
  PROVE  PInv'
  BY BindStep, BindFails DEF bindLAN

\* The LAN goroutine is handed a connection: it was dialled with the round's key.
LEMMA LanPairsWith ==
  ASSUME PInv,
         NEW c \in Conns,
         snd.lan = "accept",
         conn[c].path = "lan",
         conn[c].live,
         conn[c].s = "ready",
         conn' = [conn EXCEPT ![c].s = "handed"],
         snd' = [snd EXCEPT !.lan = "paired", !.lanConn = c],
         UNCHANGED <<ln, rcv>>,
         UnchangedServer
  PROVE  PInv'
<1>0. PairTypeOK /\ snd \in Sender
  BY DEF PInv, PairTypeOK
<1>p. \A e \in Conns : conn[e].path = "lan" \/ conn[e].path = "net"
  BY <1>0, PathKinds
<1>2. /\ snd' \in Sender
      /\ snd'.pc = snd.pc /\ snd'.key = snd.key /\ snd'.resumed = snd.resumed /\ snd'.rkey = snd.rkey /\ snd'.resume = snd.resume
      /\ snd'.winner = snd.winner /\ snd'.paired = snd.paired /\ snd'.lan = "paired" /\ snd'.net = snd.net /\ snd'.lanConn = c
      /\ snd'.netConn = snd.netConn /\ snd'.cur = snd.cur /\ snd'.held = snd.held /\ snd'.cancel = snd.cancel /\ snd'.rounds = snd.rounds
  BY <1>0 DEF Sender, LanOutcomes
<1>3. /\ conn' \in [Conns -> Conn] /\ \A b \in Conns : b # c => conn'[b] = conn[b]
      /\ conn'[c].dev = conn[c].dev /\ conn'[c].path = conn[c].path /\ conn'[c].r = conn[c].r
      /\ conn'[c].s = "handed" /\ conn'[c].live = conn[c].live /\ conn'[c].want = conn[c].want /\ conn'[c].use = conn[c].use
      /\ rcv' = rcv /\ ln' = ln
  BY <1>0, HandedEffect DEF Keeps
<1>4. slot' = slot /\ seen' = seen /\ faults' = faults
  BY DEF UnchangedServer
<1>t. PairTypeOK'
  BY <1>0, <1>2, <1>3, <1>4 DEF PairTypeOK, ListenerTypeOK
<1>s. SenderShape'
  BY <1>2, Kinds DEF PInv, SenderShape, After, Winning
<1>k. KeyShape'
  BY <1>2, Kinds DEF PInv, KeyShape, SenderShape, After
<1>h. HeldShape'
  BY <1>2 DEF PInv, HeldShape, SenderShape, Winning
<1>l. SlotShape'
  BY <1>2, <1>4 DEF PInv, SlotShape, SenderShape, KeyShape, HeldShape, RefusedOnlyIfLeft, Winning, After
<1>d. HandedShape'
  BY <1>2, <1>3, Kinds DEF PInv, HandedShape, ListenShape, KeyShape, SenderShape, Winning, After
<1>n. ListenShape'
  BY <1>p, <1>2, <1>3, Kinds DEF PInv, ListenShape, SenderShape, Winning, After
<1>c. SecretShape'
  BY <1>2, <1>3, <1>4, Kinds DEF PInv, SecretShape, SenderShape, KeyShape, ListenShape, ReturnsToFirst, Busy
<1>a. AdoptShape'
  BY <1>2, <1>3, Kinds DEF PInv, AdoptShape, First, Adopted, Opened, Busy
<1> QED BY <1>t, <1>s, <1>k, <1>h, <1>l, <1>d, <1>n, <1>c, <1>a DEF PInv

\* A connection of the LAN goroutine.
LEMMA LanPairs ==
  ASSUME PInv, lanPairs
  PROVE  PInv'
  BY LanPairsWith DEF lanPairs, Handed

\* The internet goroutine is handed a connection: it was dialled with the round's key.
LEMMA NetPairsWith ==
  ASSUME PInv,
         NEW c \in Conns,
         snd.net = "accept",
         conn[c].path = "net",
         conn[c].live,
         conn[c].s = "ready",
         conn' = [conn EXCEPT ![c].s = "handed"],
         snd' = [snd EXCEPT !.net = "paired", !.netConn = c],
         UNCHANGED <<ln, rcv>>,
         UnchangedServer
  PROVE  PInv'
<1>0. PairTypeOK /\ snd \in Sender
  BY DEF PInv, PairTypeOK
<1>p. \A e \in Conns : conn[e].path = "lan" \/ conn[e].path = "net"
  BY <1>0, PathKinds
<1>2. /\ snd' \in Sender
      /\ snd'.pc = snd.pc /\ snd'.key = snd.key /\ snd'.resumed = snd.resumed /\ snd'.rkey = snd.rkey /\ snd'.resume = snd.resume
      /\ snd'.winner = snd.winner /\ snd'.paired = snd.paired /\ snd'.lan = snd.lan /\ snd'.net = "paired" /\ snd'.lanConn = snd.lanConn
      /\ snd'.netConn = c /\ snd'.cur = snd.cur /\ snd'.held = snd.held /\ snd'.cancel = snd.cancel /\ snd'.rounds = snd.rounds
  BY <1>0 DEF Sender, NetOutcomes
<1>3. /\ conn' \in [Conns -> Conn] /\ \A b \in Conns : b # c => conn'[b] = conn[b]
      /\ conn'[c].dev = conn[c].dev /\ conn'[c].path = conn[c].path /\ conn'[c].r = conn[c].r
      /\ conn'[c].s = "handed" /\ conn'[c].live = conn[c].live /\ conn'[c].want = conn[c].want /\ conn'[c].use = conn[c].use
      /\ rcv' = rcv /\ ln' = ln
  BY <1>0, HandedEffect DEF Keeps
<1>4. slot' = slot /\ seen' = seen /\ faults' = faults
  BY DEF UnchangedServer
<1>t. PairTypeOK'
  BY <1>0, <1>2, <1>3, <1>4 DEF PairTypeOK, ListenerTypeOK
<1>s. SenderShape'
  BY <1>2, Kinds DEF PInv, SenderShape, After, Winning
<1>k. KeyShape'
  BY <1>2, Kinds DEF PInv, KeyShape, SenderShape, After
<1>h. HeldShape'
  BY <1>2 DEF PInv, HeldShape, SenderShape, Winning
<1>l. SlotShape'
  BY <1>2, <1>4 DEF PInv, SlotShape, SenderShape, KeyShape, HeldShape, RefusedOnlyIfLeft, Winning, After
<1>d. HandedShape'
  BY <1>2, <1>3, Kinds DEF PInv, HandedShape, ListenShape, KeyShape, SenderShape, Winning, After
<1>n. ListenShape'
  BY <1>p, <1>2, <1>3, Kinds DEF PInv, ListenShape, SenderShape, Winning, After
<1>c. SecretShape'
  BY <1>2, <1>3, <1>4, Kinds DEF PInv, SecretShape, SenderShape, KeyShape, ListenShape, ReturnsToFirst, Busy
<1>a. AdoptShape'
  BY <1>2, <1>3, Kinds DEF PInv, AdoptShape, First, Adopted, Opened, Busy
<1> QED BY <1>t, <1>s, <1>k, <1>h, <1>l, <1>d, <1>n, <1>c, <1>a DEF PInv

\* A connection of the internet goroutine.
LEMMA NetPairs ==
  ASSUME PInv, netPairs
  PROVE  PInv'
  BY NetPairsWith DEF netPairs, Handed

\* Too many failed authentications end the LAN goroutine.
LEMMA LanCapped ==
  ASSUME PInv,
         snd.lan = "accept",
         closeLAN(conn),
         snd' = [snd EXCEPT !.lan = "capped", !.fails = authFailed(snd)],
         UNCHANGED rcv,
         UnchangedServer
  PROVE  PInv'
<1>0. PairTypeOK /\ snd \in Sender
  BY DEF PInv, PairTypeOK
<1>p. \A e \in Conns : conn[e].path = "lan" \/ conn[e].path = "net"
  BY <1>0, PathKinds
<1>1. authFailed(snd) \in 0..maxAuthFailures
  BY <1>0, PairingAssumption DEF Sender, authFailed
<1>2. /\ snd' \in Sender
      /\ snd'.pc = snd.pc /\ snd'.key = snd.key /\ snd'.resumed = snd.resumed /\ snd'.rkey = snd.rkey /\ snd'.resume = snd.resume
      /\ snd'.winner = snd.winner /\ snd'.paired = snd.paired /\ snd'.lan = "capped" /\ snd'.net = snd.net /\ snd'.lanConn = snd.lanConn
      /\ snd'.netConn = snd.netConn /\ snd'.cur = snd.cur /\ snd'.held = snd.held /\ snd'.cancel = snd.cancel /\ snd'.rounds = snd.rounds
  BY <1>0, <1>1 DEF Sender, LanOutcomes
<1>3. /\ conn' \in [Conns -> Conn] /\ ln' \in [Paths -> Listening] /\ rcv' = rcv
      /\ ~ln'["lan"].open /\ ln'["net"] = ln["net"] /\ \A c \in Conns : Unlisted(c)
  BY <1>0, CloseLANEffect
<1>4. slot' = slot /\ seen' = seen /\ faults' = faults
  BY DEF UnchangedServer
<1>t. PairTypeOK'
  BY <1>0, <1>2, <1>3, <1>4 DEF PairTypeOK, ListenerTypeOK
<1>s. SenderShape'
  BY <1>2, Kinds DEF PInv, SenderShape, After, Winning
<1>k. KeyShape'
  BY <1>2, Kinds DEF PInv, KeyShape, SenderShape, After
<1>h. HeldShape'
  BY <1>2 DEF PInv, HeldShape, SenderShape, Winning
<1>l. SlotShape'
  BY <1>2, <1>4 DEF PInv, SlotShape, SenderShape, KeyShape, HeldShape, RefusedOnlyIfLeft, Winning, After
<1>d. HandedShape'
  BY <1>2, <1>3, Kinds DEF PInv, Unlisted, Keeps, HandedShape, SenderShape, Winning, After
<1>n. ListenShape'
  BY <1>p, <1>2, <1>3, Kinds DEF PInv, Unlisted, Keeps, ListenShape, SenderShape, Winning, After
<1>c. SecretShape'
  BY <1>2, <1>3, <1>4, Kinds DEF PInv, Unlisted, Keeps, SecretShape, SenderShape, KeyShape, ReturnsToFirst, Busy
<1>a. AdoptShape'
  BY <1>2, <1>3, Kinds DEF PInv, Unlisted, Keeps, AdoptShape, First, Adopted, Opened, Busy
<1> QED BY <1>t, <1>s, <1>k, <1>h, <1>l, <1>d, <1>n, <1>c, <1>a DEF PInv

\* The LAN goroutine is told that the race is over.
LEMMA LanCancelled ==
  ASSUME PInv,
         lanCancelled
  PROVE  PInv'
<1>0. PairTypeOK /\ snd \in Sender
  BY DEF PInv, PairTypeOK
<1>p. \A e \in Conns : conn[e].path = "lan" \/ conn[e].path = "net"
  BY <1>0, PathKinds
<1>1. snd.lan = "accept" /\ closeLAN(conn) /\ snd' = [snd EXCEPT !.lan = "cancelled"] /\ rcv' = rcv /\ UnchangedServer
  BY DEF lanCancelled
<1>2. /\ snd' \in Sender
      /\ snd'.pc = snd.pc /\ snd'.key = snd.key /\ snd'.resumed = snd.resumed /\ snd'.rkey = snd.rkey /\ snd'.resume = snd.resume
      /\ snd'.winner = snd.winner /\ snd'.paired = snd.paired /\ snd'.lan = "cancelled" /\ snd'.net = snd.net /\ snd'.lanConn = snd.lanConn
      /\ snd'.netConn = snd.netConn /\ snd'.cur = snd.cur /\ snd'.held = snd.held /\ snd'.cancel = snd.cancel /\ snd'.rounds = snd.rounds
  BY <1>0, <1>1 DEF Sender, LanOutcomes
<1>3. /\ conn' \in [Conns -> Conn] /\ ln' \in [Paths -> Listening] /\ rcv' = rcv
      /\ ~ln'["lan"].open /\ ln'["net"] = ln["net"] /\ \A c \in Conns : Unlisted(c)
  BY <1>0, <1>1, CloseLANEffect
<1>4. slot' = slot /\ seen' = seen /\ faults' = faults
  BY <1>1 DEF UnchangedServer
<1>t. PairTypeOK'
  BY <1>0, <1>2, <1>3, <1>4 DEF PairTypeOK, ListenerTypeOK
<1>s. SenderShape'
  BY <1>1, <1>2, Kinds DEF PInv, SenderShape, After, Winning
<1>k. KeyShape'
  BY <1>1, <1>2, Kinds DEF PInv, KeyShape, SenderShape, After
<1>h. HeldShape'
  BY <1>2 DEF PInv, HeldShape, SenderShape, Winning
<1>l. SlotShape'
  BY <1>1, <1>2, <1>4 DEF PInv, SlotShape, SenderShape, KeyShape, HeldShape, RefusedOnlyIfLeft, Winning, After
<1>d. HandedShape'
  BY <1>1, <1>2, <1>3, Kinds DEF PInv, Unlisted, Keeps, HandedShape, SenderShape, Winning, After
<1>n. ListenShape'
  BY <1>p, <1>1, <1>2, <1>3, Kinds DEF PInv, Unlisted, Keeps, ListenShape, SenderShape, Winning, After
<1>c. SecretShape'
  BY <1>1, <1>2, <1>3, <1>4, Kinds DEF PInv, Unlisted, Keeps, SecretShape, SenderShape, KeyShape, ReturnsToFirst, Busy
<1>a. AdoptShape'
  BY <1>1, <1>2, <1>3, Kinds DEF PInv, Unlisted, Keeps, AdoptShape, First, Adopted, Opened, Busy
<1> QED BY <1>t, <1>s, <1>k, <1>h, <1>l, <1>d, <1>n, <1>c, <1>a DEF PInv

\* A failed authentication is taken and counted, ...
LEMMA LanCounts ==
  ASSUME PInv,
         FailTaken("lan", "auth"),
         snd' = [snd EXCEPT !.fails = authFailed(snd)],
         UNCHANGED <<conn, rcv>>,
         UnchangedServer
  PROVE  PInv'
<1>0. PairTypeOK /\ snd \in Sender
  BY DEF PInv, PairTypeOK
<1>p. \A e \in Conns : conn[e].path = "lan" \/ conn[e].path = "net"
  BY <1>0, PathKinds
<1>1. authFailed(snd) \in 0..maxAuthFailures
  BY <1>0, PairingAssumption DEF Sender, authFailed
<1>2. /\ snd' \in Sender
      /\ snd'.pc = snd.pc /\ snd'.key = snd.key /\ snd'.resumed = snd.resumed /\ snd'.rkey = snd.rkey /\ snd'.resume = snd.resume
      /\ snd'.winner = snd.winner /\ snd'.paired = snd.paired /\ snd'.lan = snd.lan /\ snd'.net = snd.net /\ snd'.lanConn = snd.lanConn
      /\ snd'.netConn = snd.netConn /\ snd'.cur = snd.cur /\ snd'.held = snd.held /\ snd'.cancel = snd.cancel /\ snd'.rounds = snd.rounds
  BY <1>0, <1>1 DEF Sender
<1>3. /\ conn' = conn /\ rcv' = rcv /\ ln' \in [Paths -> Listening]
      /\ SameListener("lan") /\ SameListener("net")
  BY <1>0, FailTakenEffect, Kinds
<1>4. slot' = slot /\ seen' = seen /\ faults' = faults
  BY DEF UnchangedServer
<1>t. PairTypeOK'
  BY <1>0, <1>2, <1>3, <1>4 DEF PairTypeOK, ListenerTypeOK
<1>s. SenderShape'
  BY <1>2, Kinds DEF PInv, SenderShape, After, Winning
<1>k. KeyShape'
  BY <1>2, Kinds DEF PInv, KeyShape, SenderShape, After
<1>h. HeldShape'
  BY <1>2 DEF PInv, HeldShape, SenderShape, Winning
<1>l. SlotShape'
  BY <1>2, <1>4 DEF PInv, SlotShape, SenderShape, KeyShape, HeldShape, RefusedOnlyIfLeft, Winning, After
<1>d. HandedShape'
  BY <1>2, <1>3, Kinds DEF PInv, HandedShape, SenderShape, Winning, After
<1>n. ListenShape'
  BY <1>p, <1>2, <1>3, Kinds DEF PInv, SameListener, ListenShape, SenderShape, Winning, After
<1>c. SecretShape'
  BY <1>2, <1>3, <1>4, Kinds DEF PInv, SecretShape, SenderShape, KeyShape, ReturnsToFirst, Busy
<1>a. AdoptShape'
  BY <1>2, <1>3, Kinds DEF PInv, AdoptShape, First, Adopted, Opened, Busy
<1> QED BY <1>t, <1>s, <1>k, <1>h, <1>l, <1>d, <1>n, <1>c, <1>a DEF PInv

\* ... another failure is only taken.
LEMMA LanTakes ==
  ASSUME PInv,
         FailTaken("lan", "other"),
         snd' = snd,
         UNCHANGED <<conn, rcv>>,
         UnchangedServer
  PROVE  PInv'
<1>0. PairTypeOK /\ snd \in Sender
  BY DEF PInv, PairTypeOK
<1>p. \A e \in Conns : conn[e].path = "lan" \/ conn[e].path = "net"
  BY <1>0, PathKinds
<1>2. snd' = snd
  OBVIOUS
<1>3. /\ conn' = conn /\ rcv' = rcv /\ ln' \in [Paths -> Listening]
      /\ SameListener("lan") /\ SameListener("net")
  BY <1>0, FailTakenEffect, Kinds
<1>4. slot' = slot /\ seen' = seen /\ faults' = faults
  BY DEF UnchangedServer
<1>t. PairTypeOK'
  BY <1>0, <1>2, <1>3, <1>4 DEF PairTypeOK, ListenerTypeOK
<1>s. SenderShape'
  BY <1>2, Kinds DEF PInv, SenderShape, After, Winning
<1>k. KeyShape'
  BY <1>2, Kinds DEF PInv, KeyShape, SenderShape, After
<1>h. HeldShape'
  BY <1>2 DEF PInv, HeldShape, SenderShape, Winning
<1>l. SlotShape'
  BY <1>2, <1>4 DEF PInv, SlotShape, SenderShape, KeyShape, HeldShape, RefusedOnlyIfLeft, Winning, After
<1>d. HandedShape'
  BY <1>2, <1>3, Kinds DEF PInv, HandedShape, SenderShape, Winning, After
<1>n. ListenShape'
  BY <1>p, <1>2, <1>3, Kinds DEF PInv, SameListener, ListenShape, SenderShape, Winning, After
<1>c. SecretShape'
  BY <1>2, <1>3, <1>4, Kinds DEF PInv, SecretShape, SenderShape, KeyShape, ReturnsToFirst, Busy
<1>a. AdoptShape'
  BY <1>2, <1>3, Kinds DEF PInv, AdoptShape, First, Adopted, Opened, Busy
<1> QED BY <1>t, <1>s, <1>k, <1>h, <1>l, <1>d, <1>n, <1>c, <1>a DEF PInv

\* The LAN goroutine and a failed handshake.
LEMMA LanAbsorbs ==
  ASSUME PInv, lanAbsorbs
  PROVE  PInv'
<1>1. PICK kind \in {"auth", "other"} :
        /\ snd.lan = "accept" /\ UNCHANGED rcv /\ UnchangedServer
        /\ IF kind = "auth" /\ capHit(snd)
           THEN /\ closeLAN(conn)
                /\ snd' = [snd EXCEPT !.lan = "capped", !.fails = authFailed(snd)]
           ELSE /\ FailTaken("lan", kind)
                /\ snd' = IF kind = "auth" THEN [snd EXCEPT !.fails = authFailed(snd)] ELSE snd
                /\ UNCHANGED conn
  BY DEF lanAbsorbs
<1>2. CASE kind = "auth" /\ capHit(snd)
  BY <1>1, <1>2, LanCapped
<1>3. CASE kind = "auth" /\ ~capHit(snd)
  BY <1>1, <1>3, LanCounts
<1>4. CASE kind = "other"
  BY <1>1, <1>4, LanTakes
<1> QED BY <1>2, <1>3, <1>4

\* The server creates the round's session, ...
LEMMA Create ==
  ASSUME PInv,
         snd.net = "create",
         slot[snd.rkey].st = "none",
         slot' = [slot EXCEPT ![snd.rkey] = [st |-> "waiting", dev |-> Nobody]],
         snd' = [snd EXCEPT !.net = "wait", !.held = TRUE],
         UNCHANGED <<conn, ln, rcv, faults, seen>>
  PROVE  PInv'
<1>0. PairTypeOK /\ snd \in Sender
  BY DEF PInv, PairTypeOK
<1>p. \A e \in Conns : conn[e].path = "lan" \/ conn[e].path = "net"
  BY <1>0, PathKinds
<1>r. snd.rkey \in Secrets /\ Code \in Secrets
  BY <1>0, Kinds DEF Sender
<1>q. snd.paired => snd.pc \in After
  BY <1>0 DEF PInv, Sender, SenderShape, After
<1>5. PICK v : v = [st |-> "waiting", dev |-> Nobody]
  OBVIOUS
<1>6. v \in Slot /\ v.st = "waiting" /\ slot' = [slot EXCEPT ![snd.rkey] = v]
  BY <1>5 DEF Slot
<1>2. /\ snd' \in Sender
      /\ snd'.pc = snd.pc /\ snd'.key = snd.key /\ snd'.resumed = snd.resumed /\ snd'.rkey = snd.rkey /\ snd'.resume = snd.resume
      /\ snd'.winner = snd.winner /\ snd'.paired = snd.paired /\ snd'.lan = snd.lan /\ snd'.net = "wait" /\ snd'.lanConn = snd.lanConn
      /\ snd'.netConn = snd.netConn /\ snd'.cur = snd.cur /\ snd'.held = TRUE /\ snd'.cancel = snd.cancel /\ snd'.rounds = snd.rounds
  BY <1>0 DEF Sender
<1>3. conn' = conn /\ rcv' = rcv /\ ln' = ln
  OBVIOUS
<1>4. /\ slot' \in [Secrets -> Slot] /\ slot'[snd.rkey].st = "waiting"
      /\ \A j \in Secrets : j # snd.rkey => slot'[j] = slot[j] /\ seen' = seen /\ faults' = faults
  BY <1>0, <1>r, <1>6, SlotEffect
<1>t. PairTypeOK'
  BY <1>0, <1>2, <1>3, <1>4 DEF PairTypeOK, ListenerTypeOK
<1>s. SenderShape'
  BY <1>2, Kinds DEF PInv, SenderShape, After, Winning
<1>k. KeyShape'
  BY <1>2, Kinds DEF PInv, KeyShape, SenderShape, After
<1>h. HeldShape'
  BY <1>2 DEF PInv, HeldShape, SenderShape, Winning
<1>l. SlotShape'
  <2>1. ASSUME NEW k \in Secrets \ seen'.stale, slot'[k].st # "none"
        PROVE  \/ k = snd'.rkey /\ snd'.held /\ slot'[k].st \in {"waiting", "joined"}
               \/ k = Code /\ snd'.resumed /\ slot'[k].st = "consumed" /\ (snd'.resume \/ (snd'.paired /\ snd'.net # "create"))
    <3>1. CASE k = snd.rkey
      BY <2>1, <3>1, <1>q, <1>r, <1>2, <1>4, Kinds DEF PInv, SlotShape, SlotEnds, consumeCode, SenderShape, KeyShape, HeldShape, RefusedOnlyIfLeft, Winning, After
    <3>2. CASE k # snd.rkey
      BY <2>1, <3>2, <1>q, <1>r, <1>2, <1>4, Kinds DEF PInv, SlotShape, SlotEnds, consumeCode, SenderShape, KeyShape, HeldShape, RefusedOnlyIfLeft, Winning, After
    <3> QED BY <3>1, <3>2
  <2>2. snd'.held /\ snd'.rkey \notin seen'.stale => slot'[snd'.rkey].st \in {"waiting", "joined"}
    BY <1>q, <1>r, <1>2, <1>4, Kinds DEF PInv, SlotShape, SlotEnds, consumeCode, SenderShape, KeyShape, HeldShape, RefusedOnlyIfLeft, Winning, After
  <2>3. RefusedOnlyIfLeft' /\ (seen'.owed => snd'.resumed)
    BY <1>q, <1>r, <1>2, <1>4, Kinds DEF PInv, SlotShape, SlotEnds, consumeCode, SenderShape, KeyShape, HeldShape, RefusedOnlyIfLeft, Winning, After
  <2>4. seen'.owed /\ Code \notin seen'.stale => (~snd'.resume /\ snd'.paired /\ snd'.held) \/ slot'[Code].st = "consumed"
    BY <1>q, <1>r, <1>2, <1>4, Kinds DEF PInv, SlotShape, SlotEnds, consumeCode, SenderShape, KeyShape, HeldShape, RefusedOnlyIfLeft, Winning, After
  <2> QED BY <2>1, <2>2, <2>3, <2>4 DEF SlotShape
<1>d. HandedShape'
  BY <1>2, <1>3, Kinds DEF PInv, HandedShape, SenderShape, Winning, After
<1>n. ListenShape'
  BY <1>p, <1>2, <1>3, Kinds DEF PInv, ListenShape, SenderShape, Winning, After
<1>c. SecretShape'
  BY <1>2, <1>3, <1>4, Kinds DEF PInv, SecretShape, SenderShape, KeyShape, ReturnsToFirst, Busy
<1>a. AdoptShape'
  BY <1>2, <1>3, Kinds DEF PInv, AdoptShape, First, Adopted, Opened, Busy
<1> QED BY <1>t, <1>s, <1>k, <1>h, <1>l, <1>d, <1>n, <1>c, <1>a DEF PInv

\* ... refuses it as claimed, ...
LEMMA CreateClaimed ==
  ASSUME PInv,
         snd.net = "create",
         slot[snd.rkey].st # "none",
         snd' = [snd EXCEPT !.net = "claimed"],
         UNCHANGED <<conn, ln, rcv>>,
         UnchangedServer
  PROVE  PInv'
<1>0. PairTypeOK /\ snd \in Sender
  BY DEF PInv, PairTypeOK
<1>p. \A e \in Conns : conn[e].path = "lan" \/ conn[e].path = "net"
  BY <1>0, PathKinds
<1>r. snd.rkey \in Secrets /\ Code \in Secrets
  BY <1>0, Kinds DEF Sender
<1>q. snd.paired => snd.pc \in After
  BY <1>0 DEF PInv, Sender, SenderShape, After
<1>2. /\ snd' \in Sender
      /\ snd'.pc = snd.pc /\ snd'.key = snd.key /\ snd'.resumed = snd.resumed /\ snd'.rkey = snd.rkey /\ snd'.resume = snd.resume
      /\ snd'.winner = snd.winner /\ snd'.paired = snd.paired /\ snd'.lan = snd.lan /\ snd'.net = "claimed" /\ snd'.lanConn = snd.lanConn
      /\ snd'.netConn = snd.netConn /\ snd'.cur = snd.cur /\ snd'.held = snd.held /\ snd'.cancel = snd.cancel /\ snd'.rounds = snd.rounds
  BY <1>0 DEF Sender, NetOutcomes
<1>3. conn' = conn /\ rcv' = rcv /\ ln' = ln
  OBVIOUS
<1>4. slot' = slot /\ seen' = seen /\ faults' = faults
  BY DEF UnchangedServer
<1>t. PairTypeOK'
  BY <1>0, <1>2, <1>3, <1>4 DEF PairTypeOK, ListenerTypeOK
<1>s. SenderShape'
  BY <1>2, Kinds DEF PInv, SenderShape, After, Winning
<1>k. KeyShape'
  BY <1>2, Kinds DEF PInv, KeyShape, SenderShape, After
<1>h. HeldShape'
  BY <1>2 DEF PInv, HeldShape, SenderShape, Winning
<1>l. SlotShape'
  <2>1. ASSUME NEW k \in Secrets \ seen'.stale, slot'[k].st # "none"
        PROVE  \/ k = snd'.rkey /\ snd'.held /\ slot'[k].st \in {"waiting", "joined"}
               \/ k = Code /\ snd'.resumed /\ slot'[k].st = "consumed" /\ (snd'.resume \/ (snd'.paired /\ snd'.net # "create"))
    <3>1. CASE k = snd.rkey
      BY <2>1, <3>1, <1>q, <1>r, <1>2, <1>4, Kinds DEF PInv, SlotShape, SlotEnds, consumeCode, SenderShape, KeyShape, HeldShape, RefusedOnlyIfLeft, Winning, After
    <3>2. CASE k # snd.rkey
      BY <2>1, <3>2, <1>q, <1>r, <1>2, <1>4, Kinds DEF PInv, SlotShape, SlotEnds, consumeCode, SenderShape, KeyShape, HeldShape, RefusedOnlyIfLeft, Winning, After
    <3> QED BY <3>1, <3>2
  <2>2. snd'.held /\ snd'.rkey \notin seen'.stale => slot'[snd'.rkey].st \in {"waiting", "joined"}
    BY <1>q, <1>r, <1>2, <1>4, Kinds DEF PInv, SlotShape, SlotEnds, consumeCode, SenderShape, KeyShape, HeldShape, RefusedOnlyIfLeft, Winning, After
  <2>3. RefusedOnlyIfLeft' /\ (seen'.owed => snd'.resumed)
    BY <1>q, <1>r, <1>2, <1>4, Kinds DEF PInv, SlotShape, SlotEnds, consumeCode, SenderShape, KeyShape, HeldShape, RefusedOnlyIfLeft, Winning, After
  <2>4. seen'.owed /\ Code \notin seen'.stale => (~snd'.resume /\ snd'.paired /\ snd'.held) \/ slot'[Code].st = "consumed"
    BY <1>q, <1>r, <1>2, <1>4, Kinds DEF PInv, SlotShape, SlotEnds, consumeCode, SenderShape, KeyShape, HeldShape, RefusedOnlyIfLeft, Winning, After
  <2> QED BY <2>1, <2>2, <2>3, <2>4 DEF SlotShape
<1>d. HandedShape'
  BY <1>2, <1>3, Kinds DEF PInv, HandedShape, SenderShape, Winning, After
<1>n. ListenShape'
  BY <1>p, <1>2, <1>3, Kinds DEF PInv, ListenShape, SenderShape, Winning, After
<1>c. SecretShape'
  BY <1>2, <1>3, <1>4, Kinds DEF PInv, SecretShape, SenderShape, KeyShape, ReturnsToFirst, Busy
<1>a. AdoptShape'
  BY <1>2, <1>3, Kinds DEF PInv, AdoptShape, First, Adopted, Opened, Busy
<1> QED BY <1>t, <1>s, <1>k, <1>h, <1>l, <1>d, <1>n, <1>c, <1>a DEF PInv

\* ... refuses the client, ...
LEMMA CreateDenied ==
  ASSUME PInv,
         snd.net = "create",
         faults < MaxFaults,
         faults' = faults + 1,
         snd' = [snd EXCEPT !.net = "denied"],
         UNCHANGED <<slot, seen>>,
         UNCHANGED <<conn, ln, rcv>>
  PROVE  PInv'
<1>0. PairTypeOK /\ snd \in Sender
  BY DEF PInv, PairTypeOK
<1>p. \A e \in Conns : conn[e].path = "lan" \/ conn[e].path = "net"
  BY <1>0, PathKinds
<1>2. /\ snd' \in Sender
      /\ snd'.pc = snd.pc /\ snd'.key = snd.key /\ snd'.resumed = snd.resumed /\ snd'.rkey = snd.rkey /\ snd'.resume = snd.resume
      /\ snd'.winner = snd.winner /\ snd'.paired = snd.paired /\ snd'.lan = snd.lan /\ snd'.net = "denied" /\ snd'.lanConn = snd.lanConn
      /\ snd'.netConn = snd.netConn /\ snd'.cur = snd.cur /\ snd'.held = snd.held /\ snd'.cancel = snd.cancel /\ snd'.rounds = snd.rounds
  BY <1>0 DEF Sender, NetOutcomes
<1>3. conn' = conn /\ rcv' = rcv /\ ln' = ln
  OBVIOUS
<1>4. slot' = slot /\ seen' = seen /\ faults' \in 0..MaxFaults
  BY <1>0, FaultCounts
<1>t. PairTypeOK'
  BY <1>0, <1>2, <1>3, <1>4 DEF PairTypeOK, ListenerTypeOK
<1>s. SenderShape'
  BY <1>2, Kinds DEF PInv, SenderShape, After, Winning
<1>k. KeyShape'
  BY <1>2, Kinds DEF PInv, KeyShape, SenderShape, After
<1>h. HeldShape'
  BY <1>2 DEF PInv, HeldShape, SenderShape, Winning
<1>l. SlotShape'
  BY <1>2, <1>4 DEF PInv, SlotShape, SenderShape, KeyShape, HeldShape, RefusedOnlyIfLeft, Winning, After
<1>d. HandedShape'
  BY <1>2, <1>3, Kinds DEF PInv, HandedShape, SenderShape, Winning, After
<1>n. ListenShape'
  BY <1>p, <1>2, <1>3, Kinds DEF PInv, ListenShape, SenderShape, Winning, After
<1>c. SecretShape'
  BY <1>2, <1>3, <1>4, Kinds DEF PInv, SecretShape, SenderShape, KeyShape, ReturnsToFirst, Busy
<1>a. AdoptShape'
  BY <1>2, <1>3, Kinds DEF PInv, AdoptShape, First, Adopted, Opened, Busy
<1> QED BY <1>t, <1>s, <1>k, <1>h, <1>l, <1>d, <1>n, <1>c, <1>a DEF PInv

\* ... or cannot be reached.
LEMMA ServerDown ==
  ASSUME PInv,
         faults < MaxFaults,
         faults' = faults + 1,
         snd' = [snd EXCEPT !.downCh = TRUE],
         UNCHANGED <<slot, seen>>,
         UNCHANGED <<conn, ln, rcv>>
  PROVE  PInv'
<1>0. PairTypeOK /\ snd \in Sender
  BY DEF PInv, PairTypeOK
<1>p. \A e \in Conns : conn[e].path = "lan" \/ conn[e].path = "net"
  BY <1>0, PathKinds
<1>2. /\ snd' \in Sender
      /\ snd'.pc = snd.pc /\ snd'.key = snd.key /\ snd'.resumed = snd.resumed /\ snd'.rkey = snd.rkey /\ snd'.resume = snd.resume
      /\ snd'.winner = snd.winner /\ snd'.paired = snd.paired /\ snd'.lan = snd.lan /\ snd'.net = snd.net /\ snd'.lanConn = snd.lanConn
      /\ snd'.netConn = snd.netConn /\ snd'.cur = snd.cur /\ snd'.held = snd.held /\ snd'.cancel = snd.cancel /\ snd'.rounds = snd.rounds
  BY <1>0 DEF Sender
<1>3. conn' = conn /\ rcv' = rcv /\ ln' = ln
  OBVIOUS
<1>4. slot' = slot /\ seen' = seen /\ faults' \in 0..MaxFaults
  BY <1>0, FaultCounts
<1>t. PairTypeOK'
  BY <1>0, <1>2, <1>3, <1>4 DEF PairTypeOK, ListenerTypeOK
<1>s. SenderShape'
  BY <1>2, Kinds DEF PInv, SenderShape, After, Winning
<1>k. KeyShape'
  BY <1>2, Kinds DEF PInv, KeyShape, SenderShape, After
<1>h. HeldShape'
  BY <1>2 DEF PInv, HeldShape, SenderShape, Winning
<1>l. SlotShape'
  BY <1>2, <1>4 DEF PInv, SlotShape, SenderShape, KeyShape, HeldShape, RefusedOnlyIfLeft, Winning, After
<1>d. HandedShape'
  BY <1>2, <1>3, Kinds DEF PInv, HandedShape, SenderShape, Winning, After
<1>n. ListenShape'
  BY <1>p, <1>2, <1>3, Kinds DEF PInv, ListenShape, SenderShape, Winning, After
<1>c. SecretShape'
  BY <1>2, <1>3, <1>4, Kinds DEF PInv, SecretShape, SenderShape, KeyShape, ReturnsToFirst, Busy
<1>a. AdoptShape'
  BY <1>2, <1>3, Kinds DEF PInv, AdoptShape, First, Adopted, Opened, Busy
<1> QED BY <1>t, <1>s, <1>k, <1>h, <1>l, <1>d, <1>n, <1>c, <1>a DEF PInv

\* A session is created whose answer is lost.
LEMMA CreateUnheard ==
  ASSUME PInv,
         snd.net = "create",
         slot[snd.rkey].st = "none",
         faults < MaxFaults,
         faults' = faults + 1,
         snd' = [snd EXCEPT !.downCh = TRUE],
         slot' = [slot EXCEPT ![snd.rkey] = [st |-> "waiting", dev |-> Nobody]],
         seen' = [seen EXCEPT !.stale = seen.stale \cup {snd.rkey}],
         UNCHANGED <<conn, ln, rcv>>
  PROVE  PInv'
<1>0. PairTypeOK /\ snd \in Sender
  BY DEF PInv, PairTypeOK
<1>p. \A e \in Conns : conn[e].path = "lan" \/ conn[e].path = "net"
  BY <1>0, PathKinds
<1>r. snd.rkey \in Secrets /\ Code \in Secrets
  BY <1>0, Kinds DEF Sender
<1>q. snd.paired => snd.pc \in After
  BY <1>0 DEF PInv, Sender, SenderShape, After
<1>5. PICK v : v = [st |-> "waiting", dev |-> Nobody]
  OBVIOUS
<1>6. v \in Slot /\ v.st = "waiting" /\ slot' = [slot EXCEPT ![snd.rkey] = v]
  BY <1>5 DEF Slot
<1>2. /\ snd' \in Sender
      /\ snd'.pc = snd.pc /\ snd'.key = snd.key /\ snd'.resumed = snd.resumed /\ snd'.rkey = snd.rkey /\ snd'.resume = snd.resume
      /\ snd'.winner = snd.winner /\ snd'.paired = snd.paired /\ snd'.lan = snd.lan /\ snd'.net = snd.net /\ snd'.lanConn = snd.lanConn
      /\ snd'.netConn = snd.netConn /\ snd'.cur = snd.cur /\ snd'.held = snd.held /\ snd'.cancel = snd.cancel /\ snd'.rounds = snd.rounds
  BY <1>0 DEF Sender
<1>3. conn' = conn /\ rcv' = rcv /\ ln' = ln
  OBVIOUS
<1>4. /\ slot' \in [Secrets -> Slot] /\ slot'[snd.rkey].st = "waiting"
      /\ \A j \in Secrets : j # snd.rkey => slot'[j] = slot[j]
      /\ seen' \in [first : Devices \cup {Nobody}, owed : BOOLEAN, stale : SUBSET Secrets]
      /\ seen'.first = seen.first /\ seen'.owed = seen.owed /\ seen'.stale = seen.stale \cup {snd.rkey} /\ faults' \in 0..MaxFaults
  BY <1>0, <1>r, <1>6, SlotEffect, StaleEffect, FaultCounts, ZenonT(60)
<1>t. PairTypeOK'
  BY <1>0, <1>2, <1>3, <1>4 DEF PairTypeOK, ListenerTypeOK
<1>s. SenderShape'
  BY <1>2, Kinds DEF PInv, SenderShape, After, Winning
<1>k. KeyShape'
  BY <1>2, Kinds DEF PInv, KeyShape, SenderShape, After
<1>h. HeldShape'
  BY <1>2 DEF PInv, HeldShape, SenderShape, Winning
<1>l. SlotShape'
  <2>1. ASSUME NEW k \in Secrets \ seen'.stale, slot'[k].st # "none"
        PROVE  \/ k = snd'.rkey /\ snd'.held /\ slot'[k].st \in {"waiting", "joined"}
               \/ k = Code /\ snd'.resumed /\ slot'[k].st = "consumed" /\ (snd'.resume \/ (snd'.paired /\ snd'.net # "create"))
    <3>1. CASE k = snd.rkey
      BY <2>1, <3>1, <1>q, <1>r, <1>2, <1>4, Kinds DEF PInv, SlotShape, SlotEnds, consumeCode, SenderShape, KeyShape, HeldShape, RefusedOnlyIfLeft, Winning, After
    <3>2. CASE k # snd.rkey
      BY <2>1, <3>2, <1>q, <1>r, <1>2, <1>4, Kinds DEF PInv, SlotShape, SlotEnds, consumeCode, SenderShape, KeyShape, HeldShape, RefusedOnlyIfLeft, Winning, After
    <3> QED BY <3>1, <3>2
  <2>2. snd'.held /\ snd'.rkey \notin seen'.stale => slot'[snd'.rkey].st \in {"waiting", "joined"}
    BY <1>q, <1>r, <1>2, <1>4, Kinds DEF PInv, SlotShape, SlotEnds, consumeCode, SenderShape, KeyShape, HeldShape, RefusedOnlyIfLeft, Winning, After
  <2>3. RefusedOnlyIfLeft' /\ (seen'.owed => snd'.resumed)
    BY <1>q, <1>r, <1>2, <1>4, Kinds DEF PInv, SlotShape, SlotEnds, consumeCode, SenderShape, KeyShape, HeldShape, RefusedOnlyIfLeft, Winning, After
  <2>4. seen'.owed /\ Code \notin seen'.stale => (~snd'.resume /\ snd'.paired /\ snd'.held) \/ slot'[Code].st = "consumed"
    BY <1>q, <1>r, <1>2, <1>4, Kinds DEF PInv, SlotShape, SlotEnds, consumeCode, SenderShape, KeyShape, HeldShape, RefusedOnlyIfLeft, Winning, After
  <2> QED BY <2>1, <2>2, <2>3, <2>4 DEF SlotShape
<1>d. HandedShape'
  BY <1>2, <1>3, Kinds DEF PInv, HandedShape, SenderShape, Winning, After
<1>n. ListenShape'
  BY <1>p, <1>2, <1>3, Kinds DEF PInv, ListenShape, SenderShape, Winning, After
<1>c. SecretShape'
  BY <1>2, <1>3, <1>4, Kinds DEF PInv, SecretShape, SenderShape, KeyShape, ReturnsToFirst, Busy
<1>a. AdoptShape'
  BY <1>2, <1>3, Kinds DEF PInv, AdoptShape, First, Adopted, Opened, Busy
<1> QED BY <1>t, <1>s, <1>k, <1>h, <1>l, <1>d, <1>n, <1>c, <1>a DEF PInv

\* A create that fails.
LEMMA CreateFails ==
  ASSUME PInv, createFails
  PROVE  PInv'
<1>1. /\ snd.net = "create" /\ faults < MaxFaults /\ faults' = faults + 1 /\ UNCHANGED <<conn, ln, rcv>>
      /\ \/ snd' = [snd EXCEPT !.net = "denied"] /\ UNCHANGED <<slot, seen>>
         \/ snd' = [snd EXCEPT !.downCh = TRUE] /\ UNCHANGED <<slot, seen>>
         \/ /\ slot[snd.rkey].st = "none" /\ slot' = [slot EXCEPT ![snd.rkey] = [st |-> "waiting", dev |-> Nobody]]
            /\ seen' = [seen EXCEPT !.stale = seen.stale \cup {snd.rkey}]
            /\ snd' = [snd EXCEPT !.downCh = TRUE]
  BY DEF createFails
<1> QED BY <1>1, CreateDenied, ServerDown, CreateUnheard

\* The race ends before the create, ...
LEMMA CreateLeft ==
  ASSUME PInv,
         snd.net = "create",
         snd' = [snd EXCEPT !.net = "cancelled"],
         UNCHANGED <<slot, seen>>,
         UNCHANGED <<conn, ln, rcv, faults>>
  PROVE  PInv'
<1>0. PairTypeOK /\ snd \in Sender
  BY DEF PInv, PairTypeOK
<1>p. \A e \in Conns : conn[e].path = "lan" \/ conn[e].path = "net"
  BY <1>0, PathKinds
<1>2. /\ snd' \in Sender
      /\ snd'.pc = snd.pc /\ snd'.key = snd.key /\ snd'.resumed = snd.resumed /\ snd'.rkey = snd.rkey /\ snd'.resume = snd.resume
      /\ snd'.winner = snd.winner /\ snd'.paired = snd.paired /\ snd'.lan = snd.lan /\ snd'.net = "cancelled" /\ snd'.lanConn = snd.lanConn
      /\ snd'.netConn = snd.netConn /\ snd'.cur = snd.cur /\ snd'.held = snd.held /\ snd'.cancel = snd.cancel /\ snd'.rounds = snd.rounds
  BY <1>0 DEF Sender, NetOutcomes
<1>3. conn' = conn /\ rcv' = rcv /\ ln' = ln
  OBVIOUS
<1>4. slot' = slot /\ seen' = seen /\ faults' = faults
  BY DEF UnchangedServer, UnchangedNet
<1>t. PairTypeOK'
  BY <1>0, <1>2, <1>3, <1>4 DEF PairTypeOK, ListenerTypeOK
<1>s. SenderShape'
  BY <1>2, Kinds DEF PInv, SenderShape, After, Winning
<1>k. KeyShape'
  BY <1>2, Kinds DEF PInv, KeyShape, SenderShape, After
<1>h. HeldShape'
  BY <1>2 DEF PInv, HeldShape, SenderShape, Winning
<1>l. SlotShape'
  BY <1>2, <1>4 DEF PInv, SlotShape, SenderShape, KeyShape, HeldShape, RefusedOnlyIfLeft, Winning, After
<1>d. HandedShape'
  BY <1>2, <1>3, Kinds DEF PInv, HandedShape, SenderShape, Winning, After
<1>n. ListenShape'
  BY <1>p, <1>2, <1>3, Kinds DEF PInv, ListenShape, SenderShape, Winning, After
<1>c. SecretShape'
  BY <1>2, <1>3, <1>4, Kinds DEF PInv, SecretShape, SenderShape, KeyShape, ReturnsToFirst, Busy
<1>a. AdoptShape'
  BY <1>2, <1>3, Kinds DEF PInv, AdoptShape, First, Adopted, Opened, Busy
<1> QED BY <1>t, <1>s, <1>k, <1>h, <1>l, <1>d, <1>n, <1>c, <1>a DEF PInv

\* ... or while it is under way.
LEMMA CreateOverrun ==
  ASSUME PInv,
         snd.net = "create",
         slot[snd.rkey].st = "none",
         snd' = [snd EXCEPT !.net = "cancelled"],
         slot' = [slot EXCEPT ![snd.rkey] = [st |-> "waiting", dev |-> Nobody]],
         seen' = [seen EXCEPT !.stale = seen.stale \cup {snd.rkey}],
         UNCHANGED <<conn, ln, rcv, faults>>
  PROVE  PInv'
<1>0. PairTypeOK /\ snd \in Sender
  BY DEF PInv, PairTypeOK
<1>p. \A e \in Conns : conn[e].path = "lan" \/ conn[e].path = "net"
  BY <1>0, PathKinds
<1>r. snd.rkey \in Secrets /\ Code \in Secrets
  BY <1>0, Kinds DEF Sender
<1>q. snd.paired => snd.pc \in After
  BY <1>0 DEF PInv, Sender, SenderShape, After
<1>5. PICK v : v = [st |-> "waiting", dev |-> Nobody]
  OBVIOUS
<1>6. v \in Slot /\ v.st = "waiting" /\ slot' = [slot EXCEPT ![snd.rkey] = v]
  BY <1>5 DEF Slot
<1>2. /\ snd' \in Sender
      /\ snd'.pc = snd.pc /\ snd'.key = snd.key /\ snd'.resumed = snd.resumed /\ snd'.rkey = snd.rkey /\ snd'.resume = snd.resume
      /\ snd'.winner = snd.winner /\ snd'.paired = snd.paired /\ snd'.lan = snd.lan /\ snd'.net = "cancelled" /\ snd'.lanConn = snd.lanConn
      /\ snd'.netConn = snd.netConn /\ snd'.cur = snd.cur /\ snd'.held = snd.held /\ snd'.cancel = snd.cancel /\ snd'.rounds = snd.rounds
  BY <1>0 DEF Sender, NetOutcomes
<1>3. conn' = conn /\ rcv' = rcv /\ ln' = ln
  OBVIOUS
<1>4. /\ slot' \in [Secrets -> Slot] /\ slot'[snd.rkey].st = "waiting"
      /\ \A j \in Secrets : j # snd.rkey => slot'[j] = slot[j]
      /\ seen' \in [first : Devices \cup {Nobody}, owed : BOOLEAN, stale : SUBSET Secrets]
      /\ seen'.first = seen.first /\ seen'.owed = seen.owed /\ seen'.stale = seen.stale \cup {snd.rkey} /\ faults' = faults
  BY <1>0, <1>r, <1>6, SlotEffect, StaleEffect, ZenonT(60)
<1>t. PairTypeOK'
  BY <1>0, <1>2, <1>3, <1>4 DEF PairTypeOK, ListenerTypeOK
<1>s. SenderShape'
  BY <1>2, Kinds DEF PInv, SenderShape, After, Winning
<1>k. KeyShape'
  BY <1>2, Kinds DEF PInv, KeyShape, SenderShape, After
<1>h. HeldShape'
  BY <1>2 DEF PInv, HeldShape, SenderShape, Winning
<1>l. SlotShape'
  <2>1. ASSUME NEW k \in Secrets \ seen'.stale, slot'[k].st # "none"
        PROVE  \/ k = snd'.rkey /\ snd'.held /\ slot'[k].st \in {"waiting", "joined"}
               \/ k = Code /\ snd'.resumed /\ slot'[k].st = "consumed" /\ (snd'.resume \/ (snd'.paired /\ snd'.net # "create"))
    <3>1. CASE k = snd.rkey
      BY <2>1, <3>1, <1>q, <1>r, <1>2, <1>4, Kinds DEF PInv, SlotShape, SlotEnds, consumeCode, SenderShape, KeyShape, HeldShape, RefusedOnlyIfLeft, Winning, After
    <3>2. CASE k # snd.rkey
      BY <2>1, <3>2, <1>q, <1>r, <1>2, <1>4, Kinds DEF PInv, SlotShape, SlotEnds, consumeCode, SenderShape, KeyShape, HeldShape, RefusedOnlyIfLeft, Winning, After
    <3> QED BY <3>1, <3>2
  <2>2. snd'.held /\ snd'.rkey \notin seen'.stale => slot'[snd'.rkey].st \in {"waiting", "joined"}
    BY <1>q, <1>r, <1>2, <1>4, Kinds DEF PInv, SlotShape, SlotEnds, consumeCode, SenderShape, KeyShape, HeldShape, RefusedOnlyIfLeft, Winning, After
  <2>3. RefusedOnlyIfLeft' /\ (seen'.owed => snd'.resumed)
    BY <1>q, <1>r, <1>2, <1>4, Kinds DEF PInv, SlotShape, SlotEnds, consumeCode, SenderShape, KeyShape, HeldShape, RefusedOnlyIfLeft, Winning, After
  <2>4. seen'.owed /\ Code \notin seen'.stale => (~snd'.resume /\ snd'.paired /\ snd'.held) \/ slot'[Code].st = "consumed"
    BY <1>q, <1>r, <1>2, <1>4, Kinds DEF PInv, SlotShape, SlotEnds, consumeCode, SenderShape, KeyShape, HeldShape, RefusedOnlyIfLeft, Winning, After
  <2> QED BY <2>1, <2>2, <2>3, <2>4 DEF SlotShape
<1>d. HandedShape'
  BY <1>2, <1>3, Kinds DEF PInv, HandedShape, SenderShape, Winning, After
<1>n. ListenShape'
  BY <1>p, <1>2, <1>3, Kinds DEF PInv, ListenShape, SenderShape, Winning, After
<1>c. SecretShape'
  BY <1>2, <1>3, <1>4, Kinds DEF PInv, SecretShape, SenderShape, KeyShape, ReturnsToFirst, Busy
<1>a. AdoptShape'
  BY <1>2, <1>3, Kinds DEF PInv, AdoptShape, First, Adopted, Opened, Busy
<1> QED BY <1>t, <1>s, <1>k, <1>h, <1>l, <1>d, <1>n, <1>c, <1>a DEF PInv

\* A create that the race ended.
LEMMA CreateCancelled ==
  ASSUME PInv, createCancelled
  PROVE  PInv'
<1>1. /\ snd.net = "create" /\ UNCHANGED <<conn, ln, rcv, faults>> /\ snd' = [snd EXCEPT !.net = "cancelled"]
      /\ \/ UNCHANGED <<slot, seen>>
         \/ /\ slot[snd.rkey].st = "none" /\ slot' = [slot EXCEPT ![snd.rkey] = [st |-> "waiting", dev |-> Nobody]]
            /\ seen' = [seen EXCEPT !.stale = seen.stale \cup {snd.rkey}]
  BY DEF createCancelled
<1> QED BY <1>1, CreateLeft, CreateOverrun

\* A receiver joined, ...
LEMMA ReceiverJoined ==
  ASSUME PInv,
         snd.net = "wait",
         slot[snd.rkey].st = "joined",
         snd' = [snd EXCEPT !.net = "path", !.peer = slot[snd.rkey].dev],
         UNCHANGED <<conn, ln, rcv>>,
         UnchangedServer
  PROVE  PInv'
<1>0. PairTypeOK /\ snd \in Sender
  BY DEF PInv, PairTypeOK
<1>p. \A e \in Conns : conn[e].path = "lan" \/ conn[e].path = "net"
  BY <1>0, PathKinds
<1>r. snd.rkey \in Secrets /\ Code \in Secrets
  BY <1>0, Kinds DEF Sender
<1>q. snd.paired => snd.pc \in After
  BY <1>0 DEF PInv, Sender, SenderShape, After
<1>5. slot[snd.rkey].dev \in Devices \cup {Nobody}
  BY <1>0, <1>r DEF PairTypeOK, Slot
<1>2. /\ snd' \in Sender
      /\ snd'.pc = snd.pc /\ snd'.key = snd.key /\ snd'.resumed = snd.resumed /\ snd'.rkey = snd.rkey /\ snd'.resume = snd.resume
      /\ snd'.winner = snd.winner /\ snd'.paired = snd.paired /\ snd'.lan = snd.lan /\ snd'.net = "path" /\ snd'.lanConn = snd.lanConn
      /\ snd'.netConn = snd.netConn /\ snd'.cur = snd.cur /\ snd'.held = snd.held /\ snd'.cancel = snd.cancel /\ snd'.rounds = snd.rounds
  BY <1>0, <1>5 DEF Sender
<1>3. conn' = conn /\ rcv' = rcv /\ ln' = ln
  OBVIOUS
<1>4. slot' = slot /\ seen' = seen /\ faults' = faults
  BY DEF UnchangedServer
<1>t. PairTypeOK'
  BY <1>0, <1>2, <1>3, <1>4 DEF PairTypeOK, ListenerTypeOK
<1>s. SenderShape'
  BY <1>2, Kinds DEF PInv, SenderShape, After, Winning
<1>k. KeyShape'
  BY <1>2, Kinds DEF PInv, KeyShape, SenderShape, After
<1>h. HeldShape'
  BY <1>2 DEF PInv, HeldShape, SenderShape, Winning
<1>l. SlotShape'
  BY <1>2, <1>4 DEF PInv, SlotShape, SenderShape, KeyShape, HeldShape, RefusedOnlyIfLeft, Winning, After
<1>d. HandedShape'
  BY <1>2, <1>3, Kinds DEF PInv, HandedShape, SenderShape, Winning, After
<1>n. ListenShape'
  BY <1>p, <1>2, <1>3, Kinds DEF PInv, ListenShape, SenderShape, Winning, After
<1>c. SecretShape'
  BY <1>2, <1>3, <1>4, Kinds DEF PInv, SecretShape, SenderShape, KeyShape, ReturnsToFirst, Busy
<1>a. AdoptShape'
  BY <1>2, <1>3, Kinds DEF PInv, AdoptShape, First, Adopted, Opened, Busy
<1> QED BY <1>t, <1>s, <1>k, <1>h, <1>l, <1>d, <1>n, <1>c, <1>a DEF PInv

\* ... or the server no longer has the session.
LEMMA SessionGone ==
  ASSUME PInv,
         snd.net = "wait",
         slot[snd.rkey].st \in {"none", "consumed"},
         ~snd.cancel,
         snd' = [snd EXCEPT !.net = "create", !.held = FALSE],
         UNCHANGED <<conn, ln, rcv>>,
         UnchangedServer
  PROVE  PInv'
<1>0. PairTypeOK /\ snd \in Sender
  BY DEF PInv, PairTypeOK
<1>p. \A e \in Conns : conn[e].path = "lan" \/ conn[e].path = "net"
  BY <1>0, PathKinds
<1>r. snd.rkey \in Secrets /\ Code \in Secrets
  BY <1>0, Kinds DEF Sender
<1>q. snd.paired => snd.pc \in After
  BY <1>0 DEF PInv, Sender, SenderShape, After
<1>2. /\ snd' \in Sender
      /\ snd'.pc = snd.pc /\ snd'.key = snd.key /\ snd'.resumed = snd.resumed /\ snd'.rkey = snd.rkey /\ snd'.resume = snd.resume
      /\ snd'.winner = snd.winner /\ snd'.paired = snd.paired /\ snd'.lan = snd.lan /\ snd'.net = "create" /\ snd'.lanConn = snd.lanConn
      /\ snd'.netConn = snd.netConn /\ snd'.cur = snd.cur /\ snd'.held = FALSE /\ snd'.cancel = snd.cancel /\ snd'.rounds = snd.rounds
  BY <1>0 DEF Sender
<1>3. conn' = conn /\ rcv' = rcv /\ ln' = ln
  OBVIOUS
<1>4. slot' = slot /\ seen' = seen /\ faults' = faults
  BY DEF UnchangedServer
<1>t. PairTypeOK'
  BY <1>0, <1>2, <1>3, <1>4 DEF PairTypeOK, ListenerTypeOK
<1>s. SenderShape'
  BY <1>2, Kinds DEF PInv, SenderShape, After, Winning
<1>k. KeyShape'
  BY <1>2, Kinds DEF PInv, KeyShape, SenderShape, After
<1>h. HeldShape'
  BY <1>2 DEF PInv, HeldShape, SenderShape, Winning
<1>l. SlotShape'
  <2>1. ASSUME NEW k \in Secrets \ seen'.stale, slot'[k].st # "none"
        PROVE  \/ k = snd'.rkey /\ snd'.held /\ slot'[k].st \in {"waiting", "joined"}
               \/ k = Code /\ snd'.resumed /\ slot'[k].st = "consumed" /\ (snd'.resume \/ (snd'.paired /\ snd'.net # "create"))
    <3>1. CASE k = snd.rkey
      BY <2>1, <3>1, <1>q, <1>r, <1>2, <1>4, Kinds DEF PInv, SlotShape, SlotEnds, consumeCode, SenderShape, KeyShape, HeldShape, RefusedOnlyIfLeft, Winning, After
    <3>2. CASE k # snd.rkey
      BY <2>1, <3>2, <1>q, <1>r, <1>2, <1>4, Kinds DEF PInv, SlotShape, SlotEnds, consumeCode, SenderShape, KeyShape, HeldShape, RefusedOnlyIfLeft, Winning, After
    <3> QED BY <3>1, <3>2
  <2>2. snd'.held /\ snd'.rkey \notin seen'.stale => slot'[snd'.rkey].st \in {"waiting", "joined"}
    BY <1>q, <1>r, <1>2, <1>4, Kinds DEF PInv, SlotShape, SlotEnds, consumeCode, SenderShape, KeyShape, HeldShape, RefusedOnlyIfLeft, Winning, After
  <2>3. RefusedOnlyIfLeft' /\ (seen'.owed => snd'.resumed)
    BY <1>q, <1>r, <1>2, <1>4, Kinds DEF PInv, SlotShape, SlotEnds, consumeCode, SenderShape, KeyShape, HeldShape, RefusedOnlyIfLeft, Winning, After
  <2>4. seen'.owed /\ Code \notin seen'.stale => (~snd'.resume /\ snd'.paired /\ snd'.held) \/ slot'[Code].st = "consumed"
    BY <1>q, <1>r, <1>2, <1>4, Kinds DEF PInv, SlotShape, SlotEnds, consumeCode, SenderShape, KeyShape, HeldShape, RefusedOnlyIfLeft, Winning, After
  <2> QED BY <2>1, <2>2, <2>3, <2>4 DEF SlotShape
<1>d. HandedShape'
  BY <1>2, <1>3, Kinds DEF PInv, HandedShape, SenderShape, Winning, After
<1>n. ListenShape'
  BY <1>p, <1>2, <1>3, Kinds DEF PInv, ListenShape, SenderShape, Winning, After
<1>c. SecretShape'
  BY <1>2, <1>3, <1>4, Kinds DEF PInv, SecretShape, SenderShape, KeyShape, ReturnsToFirst, Busy
<1>a. AdoptShape'
  BY <1>2, <1>3, Kinds DEF PInv, AdoptShape, First, Adopted, Opened, Busy
<1> QED BY <1>t, <1>s, <1>k, <1>h, <1>l, <1>d, <1>n, <1>c, <1>a DEF PInv

\* Polling for the receiver.
LEMMA WaitForReceiver ==
  ASSUME PInv, waitForReceiver
  PROVE  PInv'
  BY ReceiverJoined, SessionGone DEF waitForReceiver

\* The race ends while polling.
LEMMA WaitCancelled ==
  ASSUME PInv,
         snd.net = "wait",
         endSession(snd),
         snd' = [snd EXCEPT !.net = "cancelled", !.held = FALSE],
         UNCHANGED <<conn, ln, rcv>>
  PROVE  PInv'
<1>0. PairTypeOK /\ snd \in Sender
  BY DEF PInv, PairTypeOK
<1>p. \A e \in Conns : conn[e].path = "lan" \/ conn[e].path = "net"
  BY <1>0, PathKinds
<1>r. snd.rkey \in Secrets /\ Code \in Secrets
  BY <1>0, Kinds DEF Sender
<1>q. snd.paired => snd.pc \in After
  BY <1>0 DEF PInv, Sender, SenderShape, After
<1>2. /\ snd' \in Sender
      /\ snd'.pc = snd.pc /\ snd'.key = snd.key /\ snd'.resumed = snd.resumed /\ snd'.rkey = snd.rkey /\ snd'.resume = snd.resume
      /\ snd'.winner = snd.winner /\ snd'.paired = snd.paired /\ snd'.lan = snd.lan /\ snd'.net = "cancelled" /\ snd'.lanConn = snd.lanConn
      /\ snd'.netConn = snd.netConn /\ snd'.cur = snd.cur /\ snd'.held = FALSE /\ snd'.cancel = snd.cancel /\ snd'.rounds = snd.rounds
  BY <1>0 DEF Sender, NetOutcomes
<1>3. conn' = conn /\ rcv' = rcv /\ ln' = ln
  OBVIOUS
<1>4. /\ slot' \in [Secrets -> Slot] /\ faults' \in 0..MaxFaults
      /\ seen' \in [first : Devices \cup {Nobody}, owed : BOOLEAN, stale : SUBSET Secrets]
      /\ seen'.first = seen.first /\ seen'.owed = seen.owed
      /\ \A k \in Secrets : k # snd.rkey => slot'[k] = slot[k] /\ (k \in seen'.stale <=> k \in seen.stale)
      /\ seen.stale \subseteq seen'.stale
      /\ ~snd.held => slot' = slot /\ seen' = seen
      /\ snd.held => snd.rkey \in seen'.stale \/ (seen' = seen /\ SlotEnds(snd.rkey, consumeCode(snd)))
  BY <1>0, EndSessionEffect
<1>t. PairTypeOK'
  BY <1>0, <1>2, <1>3, <1>4 DEF PairTypeOK, ListenerTypeOK
<1>s. SenderShape'
  BY <1>2, Kinds DEF PInv, SenderShape, After, Winning
<1>k. KeyShape'
  BY <1>2, Kinds DEF PInv, KeyShape, SenderShape, After
<1>h. HeldShape'
  BY <1>2 DEF PInv, HeldShape, SenderShape, Winning
<1>l. SlotShape'
  <2>1. ASSUME NEW k \in Secrets \ seen'.stale, slot'[k].st # "none"
        PROVE  \/ k = snd'.rkey /\ snd'.held /\ slot'[k].st \in {"waiting", "joined"}
               \/ k = Code /\ snd'.resumed /\ slot'[k].st = "consumed" /\ (snd'.resume \/ (snd'.paired /\ snd'.net # "create"))
    <3>1. CASE k = snd.rkey
      BY <2>1, <3>1, <1>q, <1>r, <1>2, <1>4, Kinds DEF PInv, SlotShape, SlotEnds, consumeCode, SenderShape, KeyShape, HeldShape, RefusedOnlyIfLeft, Winning, After
    <3>2. CASE k # snd.rkey
      BY <2>1, <3>2, <1>q, <1>r, <1>2, <1>4, Kinds DEF PInv, SlotShape, SlotEnds, consumeCode, SenderShape, KeyShape, HeldShape, RefusedOnlyIfLeft, Winning, After
    <3> QED BY <3>1, <3>2
  <2>2. snd'.held /\ snd'.rkey \notin seen'.stale => slot'[snd'.rkey].st \in {"waiting", "joined"}
    BY <1>q, <1>r, <1>2, <1>4, Kinds DEF PInv, SlotShape, SlotEnds, consumeCode, SenderShape, KeyShape, HeldShape, RefusedOnlyIfLeft, Winning, After
  <2>3. RefusedOnlyIfLeft' /\ (seen'.owed => snd'.resumed)
    BY <1>q, <1>r, <1>2, <1>4, Kinds DEF PInv, SlotShape, SlotEnds, consumeCode, SenderShape, KeyShape, HeldShape, RefusedOnlyIfLeft, Winning, After
  <2>4. seen'.owed /\ Code \notin seen'.stale => (~snd'.resume /\ snd'.paired /\ snd'.held) \/ slot'[Code].st = "consumed"
    BY <1>q, <1>r, <1>2, <1>4, Kinds DEF PInv, SlotShape, SlotEnds, consumeCode, SenderShape, KeyShape, HeldShape, RefusedOnlyIfLeft, Winning, After
  <2> QED BY <2>1, <2>2, <2>3, <2>4 DEF SlotShape
<1>d. HandedShape'
  BY <1>2, <1>3, Kinds DEF PInv, HandedShape, SenderShape, Winning, After
<1>n. ListenShape'
  BY <1>p, <1>2, <1>3, Kinds DEF PInv, ListenShape, SenderShape, Winning, After
<1>c. SecretShape'
  BY <1>2, <1>3, <1>4, Kinds DEF PInv, SecretShape, SenderShape, KeyShape, ReturnsToFirst, Busy
<1>a. AdoptShape'
  BY <1>2, <1>3, Kinds DEF PInv, AdoptShape, First, Adopted, Opened, Busy
<1> QED BY <1>t, <1>s, <1>k, <1>h, <1>l, <1>d, <1>n, <1>c, <1>a DEF PInv

\* A path is found, and its listener starts.
LEMMA PathFound ==
  ASSUME PInv,
         snd.net = "path",
         ln' = [ln EXCEPT !["net"] = NewListener(snd.rkey)],
         snd' = [snd EXCEPT !.net = "accept"],
         UNCHANGED <<conn, rcv>>,
         UnchangedServer
  PROVE  PInv'
<1>0. PairTypeOK /\ snd \in Sender
  BY DEF PInv, PairTypeOK
<1>p. \A e \in Conns : conn[e].path = "lan" \/ conn[e].path = "net"
  BY <1>0, PathKinds
<1>2. /\ snd' \in Sender
      /\ snd'.pc = snd.pc /\ snd'.key = snd.key /\ snd'.resumed = snd.resumed /\ snd'.rkey = snd.rkey /\ snd'.resume = snd.resume
      /\ snd'.winner = snd.winner /\ snd'.paired = snd.paired /\ snd'.lan = snd.lan /\ snd'.net = "accept" /\ snd'.lanConn = snd.lanConn
      /\ snd'.netConn = snd.netConn /\ snd'.cur = snd.cur /\ snd'.held = snd.held /\ snd'.cancel = snd.cancel /\ snd'.rounds = snd.rounds
  BY <1>0 DEF Sender
<1>3. /\ conn' = conn /\ rcv' = rcv /\ ln' \in [Paths -> Listening]
      /\ ln'["net"].open /\ ln'["net"].secret = snd.rkey /\ ln'["lan"] = ln["lan"]
  BY <1>0, Kinds, ListenerStarts
<1>4. slot' = slot /\ seen' = seen /\ faults' = faults
  BY DEF UnchangedServer
<1>t. PairTypeOK'
  BY <1>0, <1>2, <1>3, <1>4 DEF PairTypeOK, ListenerTypeOK
<1>s. SenderShape'
  BY <1>2, Kinds DEF PInv, SenderShape, After, Winning
<1>k. KeyShape'
  BY <1>2, Kinds DEF PInv, KeyShape, SenderShape, After
<1>h. HeldShape'
  BY <1>2 DEF PInv, HeldShape, SenderShape, Winning
<1>l. SlotShape'
  BY <1>2, <1>4 DEF PInv, SlotShape, SenderShape, KeyShape, HeldShape, RefusedOnlyIfLeft, Winning, After
<1>d. HandedShape'
  BY <1>2, <1>3, Kinds DEF PInv, HandedShape, SenderShape, Winning, After
<1>n. ListenShape'
  BY <1>p, <1>2, <1>3, Kinds DEF PInv, ListenShape, SenderShape, Winning, After
<1>c. SecretShape'
  BY <1>2, <1>3, <1>4, Kinds DEF PInv, SecretShape, SenderShape, KeyShape, ReturnsToFirst, Busy
<1>a. AdoptShape'
  BY <1>2, <1>3, Kinds DEF PInv, AdoptShape, First, Adopted, Opened, Busy
<1> QED BY <1>t, <1>s, <1>k, <1>h, <1>l, <1>d, <1>n, <1>c, <1>a DEF PInv

\* No path is found.
LEMMA PathEnds ==
  ASSUME PInv,
         NEW v \in {"cancelled", "gone"},
         snd.net = "path",
         endSession(snd),
         snd' = [snd EXCEPT !.net = v, !.held = FALSE],
         UNCHANGED <<conn, ln, rcv>>
  PROVE  PInv'
<1>0. PairTypeOK /\ snd \in Sender
  BY DEF PInv, PairTypeOK
<1>p. \A e \in Conns : conn[e].path = "lan" \/ conn[e].path = "net"
  BY <1>0, PathKinds
<1>r. snd.rkey \in Secrets /\ Code \in Secrets
  BY <1>0, Kinds DEF Sender
<1>q. snd.paired => snd.pc \in After
  BY <1>0 DEF PInv, Sender, SenderShape, After
<1>2. /\ snd' \in Sender
      /\ snd'.pc = snd.pc /\ snd'.key = snd.key /\ snd'.resumed = snd.resumed /\ snd'.rkey = snd.rkey /\ snd'.resume = snd.resume
      /\ snd'.winner = snd.winner /\ snd'.paired = snd.paired /\ snd'.lan = snd.lan /\ snd'.net = v /\ snd'.lanConn = snd.lanConn
      /\ snd'.netConn = snd.netConn /\ snd'.cur = snd.cur /\ snd'.held = FALSE /\ snd'.cancel = snd.cancel /\ snd'.rounds = snd.rounds
  BY <1>0 DEF Sender, NetOutcomes
<1>3. conn' = conn /\ rcv' = rcv /\ ln' = ln
  OBVIOUS
<1>4. /\ slot' \in [Secrets -> Slot] /\ faults' \in 0..MaxFaults
      /\ seen' \in [first : Devices \cup {Nobody}, owed : BOOLEAN, stale : SUBSET Secrets]
      /\ seen'.first = seen.first /\ seen'.owed = seen.owed
      /\ \A k \in Secrets : k # snd.rkey => slot'[k] = slot[k] /\ (k \in seen'.stale <=> k \in seen.stale)
      /\ seen.stale \subseteq seen'.stale
      /\ ~snd.held => slot' = slot /\ seen' = seen
      /\ snd.held => snd.rkey \in seen'.stale \/ (seen' = seen /\ SlotEnds(snd.rkey, consumeCode(snd)))
  BY <1>0, EndSessionEffect
<1>t. PairTypeOK'
  BY <1>0, <1>2, <1>3, <1>4 DEF PairTypeOK, ListenerTypeOK
<1>s. SenderShape'
  BY <1>2, Kinds DEF PInv, SenderShape, After, Winning
<1>k. KeyShape'
  BY <1>2, Kinds DEF PInv, KeyShape, SenderShape, After
<1>h. HeldShape'
  BY <1>2 DEF PInv, HeldShape, SenderShape, Winning
<1>l. SlotShape'
  <2>1. ASSUME NEW k \in Secrets \ seen'.stale, slot'[k].st # "none"
        PROVE  \/ k = snd'.rkey /\ snd'.held /\ slot'[k].st \in {"waiting", "joined"}
               \/ k = Code /\ snd'.resumed /\ slot'[k].st = "consumed" /\ (snd'.resume \/ (snd'.paired /\ snd'.net # "create"))
    <3>1. CASE k = snd.rkey
      BY <2>1, <3>1, <1>q, <1>r, <1>2, <1>4, Kinds DEF PInv, SlotShape, SlotEnds, consumeCode, SenderShape, KeyShape, HeldShape, RefusedOnlyIfLeft, Winning, After
    <3>2. CASE k # snd.rkey
      BY <2>1, <3>2, <1>q, <1>r, <1>2, <1>4, Kinds DEF PInv, SlotShape, SlotEnds, consumeCode, SenderShape, KeyShape, HeldShape, RefusedOnlyIfLeft, Winning, After
    <3> QED BY <3>1, <3>2
  <2>2. snd'.held /\ snd'.rkey \notin seen'.stale => slot'[snd'.rkey].st \in {"waiting", "joined"}
    BY <1>q, <1>r, <1>2, <1>4, Kinds DEF PInv, SlotShape, SlotEnds, consumeCode, SenderShape, KeyShape, HeldShape, RefusedOnlyIfLeft, Winning, After
  <2>3. RefusedOnlyIfLeft' /\ (seen'.owed => snd'.resumed)
    BY <1>q, <1>r, <1>2, <1>4, Kinds DEF PInv, SlotShape, SlotEnds, consumeCode, SenderShape, KeyShape, HeldShape, RefusedOnlyIfLeft, Winning, After
  <2>4. seen'.owed /\ Code \notin seen'.stale => (~snd'.resume /\ snd'.paired /\ snd'.held) \/ slot'[Code].st = "consumed"
    BY <1>q, <1>r, <1>2, <1>4, Kinds DEF PInv, SlotShape, SlotEnds, consumeCode, SenderShape, KeyShape, HeldShape, RefusedOnlyIfLeft, Winning, After
  <2> QED BY <2>1, <2>2, <2>3, <2>4 DEF SlotShape
<1>d. HandedShape'
  BY <1>2, <1>3, Kinds DEF PInv, HandedShape, SenderShape, Winning, After
<1>n. ListenShape'
  BY <1>p, <1>2, <1>3, Kinds DEF PInv, ListenShape, SenderShape, Winning, After
<1>c. SecretShape'
  BY <1>2, <1>3, <1>4, Kinds DEF PInv, SecretShape, SenderShape, KeyShape, ReturnsToFirst, Busy
<1>a. AdoptShape'
  BY <1>2, <1>3, Kinds DEF PInv, AdoptShape, First, Adopted, Opened, Busy
<1> QED BY <1>t, <1>s, <1>k, <1>h, <1>l, <1>d, <1>n, <1>c, <1>a DEF PInv

\* No path to the receiver.
LEMMA PathFails ==
  ASSUME PInv, pathFails
  PROVE  PInv'
<1>1. /\ snd.net = "path" /\ endSession(snd) /\ UNCHANGED <<conn, ln, rcv>>
      /\ snd' = [snd EXCEPT !.net = IF snd.cancel THEN "cancelled" ELSE "gone", !.held = FALSE]
  BY DEF pathFails
<1>2. PICK v \in {"cancelled", "gone"} : snd' = [snd EXCEPT !.net = v, !.held = FALSE]
  BY <1>1
<1> QED BY <1>1, <1>2, PathEnds

\* The relay's budget is spent: the session is left to the receiver.
LEMMA BudgetSpent ==
  ASSUME PInv,
         snd.net = "path",
         snd' = [snd EXCEPT !.net = "budget", !.held = FALSE],
         seen' = [seen EXCEPT !.stale = seen.stale \cup {snd.rkey}],
         UNCHANGED <<conn, ln, rcv, slot, faults>>
  PROVE  PInv'
<1>0. PairTypeOK /\ snd \in Sender
  BY DEF PInv, PairTypeOK
<1>p. \A e \in Conns : conn[e].path = "lan" \/ conn[e].path = "net"
  BY <1>0, PathKinds
<1>r. snd.rkey \in Secrets /\ Code \in Secrets
  BY <1>0, Kinds DEF Sender
<1>q. snd.paired => snd.pc \in After
  BY <1>0 DEF PInv, Sender, SenderShape, After
<1>2. /\ snd' \in Sender
      /\ snd'.pc = snd.pc /\ snd'.key = snd.key /\ snd'.resumed = snd.resumed /\ snd'.rkey = snd.rkey /\ snd'.resume = snd.resume
      /\ snd'.winner = snd.winner /\ snd'.paired = snd.paired /\ snd'.lan = snd.lan /\ snd'.net = "budget" /\ snd'.lanConn = snd.lanConn
      /\ snd'.netConn = snd.netConn /\ snd'.cur = snd.cur /\ snd'.held = FALSE /\ snd'.cancel = snd.cancel /\ snd'.rounds = snd.rounds
  BY <1>0 DEF Sender, NetOutcomes
<1>3. conn' = conn /\ rcv' = rcv /\ ln' = ln
  OBVIOUS
<1>4. /\ slot' = slot /\ faults' = faults
      /\ seen' \in [first : Devices \cup {Nobody}, owed : BOOLEAN, stale : SUBSET Secrets]
      /\ seen'.first = seen.first /\ seen'.owed = seen.owed /\ seen'.stale = seen.stale \cup {snd.rkey}
  BY <1>0, <1>r, StaleEffect
<1>t. PairTypeOK'
  BY <1>0, <1>2, <1>3, <1>4 DEF PairTypeOK, ListenerTypeOK
<1>s. SenderShape'
  BY <1>2, Kinds DEF PInv, SenderShape, After, Winning
<1>k. KeyShape'
  BY <1>2, Kinds DEF PInv, KeyShape, SenderShape, After
<1>h. HeldShape'
  BY <1>2 DEF PInv, HeldShape, SenderShape, Winning
<1>l. SlotShape'
  <2>1. ASSUME NEW k \in Secrets \ seen'.stale, slot'[k].st # "none"
        PROVE  \/ k = snd'.rkey /\ snd'.held /\ slot'[k].st \in {"waiting", "joined"}
               \/ k = Code /\ snd'.resumed /\ slot'[k].st = "consumed" /\ (snd'.resume \/ (snd'.paired /\ snd'.net # "create"))
    <3>1. CASE k = snd.rkey
      BY <2>1, <3>1, <1>q, <1>r, <1>2, <1>4, Kinds DEF PInv, SlotShape, SlotEnds, consumeCode, SenderShape, KeyShape, HeldShape, RefusedOnlyIfLeft, Winning, After
    <3>2. CASE k # snd.rkey
      BY <2>1, <3>2, <1>q, <1>r, <1>2, <1>4, Kinds DEF PInv, SlotShape, SlotEnds, consumeCode, SenderShape, KeyShape, HeldShape, RefusedOnlyIfLeft, Winning, After
    <3> QED BY <3>1, <3>2
  <2>2. snd'.held /\ snd'.rkey \notin seen'.stale => slot'[snd'.rkey].st \in {"waiting", "joined"}
    BY <1>q, <1>r, <1>2, <1>4, Kinds DEF PInv, SlotShape, SlotEnds, consumeCode, SenderShape, KeyShape, HeldShape, RefusedOnlyIfLeft, Winning, After
  <2>3. RefusedOnlyIfLeft' /\ (seen'.owed => snd'.resumed)
    BY <1>q, <1>r, <1>2, <1>4, Kinds DEF PInv, SlotShape, SlotEnds, consumeCode, SenderShape, KeyShape, HeldShape, RefusedOnlyIfLeft, Winning, After
  <2>4. seen'.owed /\ Code \notin seen'.stale => (~snd'.resume /\ snd'.paired /\ snd'.held) \/ slot'[Code].st = "consumed"
    BY <1>q, <1>r, <1>2, <1>4, Kinds DEF PInv, SlotShape, SlotEnds, consumeCode, SenderShape, KeyShape, HeldShape, RefusedOnlyIfLeft, Winning, After
  <2> QED BY <2>1, <2>2, <2>3, <2>4 DEF SlotShape
<1>d. HandedShape'
  BY <1>2, <1>3, Kinds DEF PInv, HandedShape, SenderShape, Winning, After
<1>n. ListenShape'
  BY <1>p, <1>2, <1>3, Kinds DEF PInv, ListenShape, SenderShape, Winning, After
<1>c. SecretShape'
  BY <1>2, <1>3, <1>4, Kinds DEF PInv, SecretShape, SenderShape, KeyShape, ReturnsToFirst, Busy
<1>a. AdoptShape'
  BY <1>2, <1>3, Kinds DEF PInv, AdoptShape, First, Adopted, Opened, Busy
<1> QED BY <1>t, <1>s, <1>k, <1>h, <1>l, <1>d, <1>n, <1>c, <1>a DEF PInv

\* The internet goroutine fails: its transport is torn down and its session ended.
LEMMA NetEnds ==
  ASSUME PInv,
         snd.net = "accept",
         NEW v \in {"capped", "cancelled", "gone"},
         NEW f \in 0..maxAuthFailures,
         snd' = [snd EXCEPT !.fails = f, !.held = FALSE, !.net = v],
         tearDown(conn),
         endSession(snd),
         UNCHANGED rcv
  PROVE  PInv'
<1>0. PairTypeOK /\ snd \in Sender
  BY DEF PInv, PairTypeOK
<1>p. \A e \in Conns : conn[e].path = "lan" \/ conn[e].path = "net"
  BY <1>0, PathKinds
<1>r. snd.rkey \in Secrets /\ Code \in Secrets
  BY <1>0, Kinds DEF Sender
<1>q. snd.paired => snd.pc \in After
  BY <1>0 DEF PInv, Sender, SenderShape, After
<1>2. /\ snd' \in Sender
      /\ snd'.pc = snd.pc /\ snd'.key = snd.key /\ snd'.resumed = snd.resumed /\ snd'.rkey = snd.rkey /\ snd'.resume = snd.resume
      /\ snd'.winner = snd.winner /\ snd'.paired = snd.paired /\ snd'.lan = snd.lan /\ snd'.net = v /\ snd'.lanConn = snd.lanConn
      /\ snd'.netConn = snd.netConn /\ snd'.cur = snd.cur /\ snd'.held = FALSE /\ snd'.cancel = snd.cancel /\ snd'.rounds = snd.rounds
  BY <1>0 DEF Sender, NetOutcomes
<1>3. /\ conn' \in [Conns -> Conn] /\ ln' \in [Paths -> Listening] /\ rcv' = rcv
      /\ ~ln'["net"].open /\ ln'["lan"] = ln["lan"] /\ \A c \in Conns : SameOrShut(c)
      /\ \A c \in Conns : conn[c].path = "net" => ~conn'[c].live /\ (conn[c].live => conn'[c].s = "closed")
      /\ \A c \in Conns : conn[c].path # "net" \/ ~conn[c].live => conn'[c] = conn[c]
  BY <1>0, TearDownEffect
<1>4. /\ slot' \in [Secrets -> Slot] /\ faults' \in 0..MaxFaults
      /\ seen' \in [first : Devices \cup {Nobody}, owed : BOOLEAN, stale : SUBSET Secrets]
      /\ seen'.first = seen.first /\ seen'.owed = seen.owed
      /\ \A k \in Secrets : k # snd.rkey => slot'[k] = slot[k] /\ (k \in seen'.stale <=> k \in seen.stale)
      /\ seen.stale \subseteq seen'.stale
      /\ ~snd.held => slot' = slot /\ seen' = seen
      /\ snd.held => snd.rkey \in seen'.stale \/ (seen' = seen /\ SlotEnds(snd.rkey, consumeCode(snd)))
  BY <1>0, EndSessionEffect
<1>t. PairTypeOK'
  BY <1>0, <1>2, <1>3, <1>4 DEF PairTypeOK, ListenerTypeOK
<1>s. SenderShape'
  BY <1>2, Kinds DEF PInv, SenderShape, After, Winning
<1>k. KeyShape'
  BY <1>2, Kinds DEF PInv, KeyShape, SenderShape, After
<1>h. HeldShape'
  BY <1>2 DEF PInv, HeldShape, SenderShape, Winning
<1>l. SlotShape'
  <2>1. ASSUME NEW k \in Secrets \ seen'.stale, slot'[k].st # "none"
        PROVE  \/ k = snd'.rkey /\ snd'.held /\ slot'[k].st \in {"waiting", "joined"}
               \/ k = Code /\ snd'.resumed /\ slot'[k].st = "consumed" /\ (snd'.resume \/ (snd'.paired /\ snd'.net # "create"))
    <3>1. CASE k = snd.rkey
      BY <2>1, <3>1, <1>q, <1>r, <1>2, <1>4, Kinds DEF PInv, SlotShape, SlotEnds, consumeCode, SenderShape, KeyShape, HeldShape, RefusedOnlyIfLeft, Winning, After
    <3>2. CASE k # snd.rkey
      BY <2>1, <3>2, <1>q, <1>r, <1>2, <1>4, Kinds DEF PInv, SlotShape, SlotEnds, consumeCode, SenderShape, KeyShape, HeldShape, RefusedOnlyIfLeft, Winning, After
    <3> QED BY <3>1, <3>2
  <2>2. snd'.held /\ snd'.rkey \notin seen'.stale => slot'[snd'.rkey].st \in {"waiting", "joined"}
    BY <1>q, <1>r, <1>2, <1>4, Kinds DEF PInv, SlotShape, SlotEnds, consumeCode, SenderShape, KeyShape, HeldShape, RefusedOnlyIfLeft, Winning, After
  <2>3. RefusedOnlyIfLeft' /\ (seen'.owed => snd'.resumed)
    BY <1>q, <1>r, <1>2, <1>4, Kinds DEF PInv, SlotShape, SlotEnds, consumeCode, SenderShape, KeyShape, HeldShape, RefusedOnlyIfLeft, Winning, After
  <2>4. seen'.owed /\ Code \notin seen'.stale => (~snd'.resume /\ snd'.paired /\ snd'.held) \/ slot'[Code].st = "consumed"
    BY <1>q, <1>r, <1>2, <1>4, Kinds DEF PInv, SlotShape, SlotEnds, consumeCode, SenderShape, KeyShape, HeldShape, RefusedOnlyIfLeft, Winning, After
  <2> QED BY <2>1, <2>2, <2>3, <2>4 DEF SlotShape
<1>d. HandedShape'
  BY <1>2, <1>3, Kinds DEF PInv, SameOrShut, Keeps, HandedShape, SenderShape, Winning, After
<1>n. ListenShape'
  <2>1. ln'["lan"].open => snd'.lan \in {"accept", "paired"} \/ (snd'.winner = "lan" /\ snd'.pc \in Winning)
    BY <1>p, <1>2, <1>3, Kinds DEF PInv, SameOrShut, Keeps, ListenShape, SenderShape, Winning, After
  <2>2. ln'["net"].open => snd'.net \in {"accept", "paired"} \/ (snd'.winner = "net" /\ snd'.pc \in Winning)
    BY <1>p, <1>2, <1>3, Kinds DEF PInv, SameOrShut, Keeps, ListenShape, SenderShape, Winning, After
  <2>3. \A p \in Paths : ln'[p].open => ln'[p].secret \in {snd'.rkey, snd'.key}
    BY <1>p, <1>2, <1>3, Kinds DEF PInv, SameOrShut, Keeps, ListenShape, SenderShape, Winning, After
  <2>4. ASSUME NEW c \in Conns
        PROVE  /\ conn'[c].s = "none" => conn'[c].dev = Nobody /\ conn'[c].r = "none" /\ ~conn'[c].live
               /\ conn'[c].s # "none" => conn'[c].dev \in Devices
               /\ conn'[c].live => ln'[conn'[c].path].open
               /\ conn'[c].live /\ conn'[c].s \in {"handshake", "ready"} => conn'[c].use \in {snd'.rkey, snd'.key}
               /\ conn'[c].s \in {"ready", "handed"} => conn'[c].use = conn'[c].want
    <3>1. CASE conn[c].path = "lan"
      BY <3>1, <1>p, <1>2, <1>3, Kinds DEF PInv, SameOrShut, Keeps, ListenShape, SenderShape, Winning, After
    <3>2. CASE conn[c].path = "net"
      <4>1. /\ SameOrShut(c) /\ ~conn'[c].live
            /\ conn[c].live => conn'[c].s = "closed"
        BY <1>3, <3>2
      <4>2. /\ conn[c].s = "none" => conn[c].dev = Nobody /\ conn[c].r = "none" /\ ~conn[c].live
            /\ conn[c].s # "none" => conn[c].dev \in Devices
            /\ conn[c].s \in {"ready", "handed"} => conn[c].use = conn[c].want
        BY DEF PInv, ListenShape
      <4>3. conn[c].s = "none" => conn'[c].s = "none"
        BY <1>3, <3>2, <4>1, <4>2 DEF SameOrShut
      <4> QED BY <4>1, <4>2, <4>3 DEF SameOrShut, Keeps
    <3> QED BY <3>1, <3>2, <1>p
  <2> QED BY <2>1, <2>2, <2>3, <2>4 DEF ListenShape
<1>c. SecretShape'
  BY <1>2, <1>3, <1>4, Kinds DEF PInv, SameOrShut, Keeps, SecretShape, SenderShape, KeyShape, ReturnsToFirst, Busy
<1>a. AdoptShape'
  BY <1>2, <1>3, Kinds DEF PInv, SameOrShut, Keeps, AdoptShape, First, Adopted, Opened, Busy
<1> QED BY <1>t, <1>s, <1>k, <1>h, <1>l, <1>d, <1>n, <1>c, <1>a DEF PInv


\* A failure, a timeout or the end of the race on the internet's listener.
LEMMA NetGone ==
  ASSUME PInv, netGone
  PROVE  PInv'
<1>0. snd \in Sender
  BY DEF PInv, PairTypeOK
<1>1. authFailed(snd) \in 0..maxAuthFailures /\ snd.fails \in 0..maxAuthFailures
  BY <1>0, PairingAssumption DEF Sender, authFailed
<1>2. /\ snd.net = "accept" /\ tearDown(conn) /\ endSession(snd) /\ UNCHANGED rcv
      /\ \/ snd' = [snd EXCEPT !.fails = authFailed(snd), !.held = FALSE, !.net =
                      IF capHit(snd) THEN "capped" ELSE IF snd.cancel THEN "cancelled" ELSE "gone"]
         \/ snd' = [snd EXCEPT !.held = FALSE, !.net = IF snd.cancel THEN "cancelled" ELSE "gone"]
         \/ snd' = [snd EXCEPT !.net = "cancelled", !.held = FALSE]
  BY DEF netGone
<1>3. \E v \in {"capped", "cancelled", "gone"}, f \in 0..maxAuthFailures :
         snd' = [snd EXCEPT !.fails = f, !.held = FALSE, !.net = v]
  <2>1. CASE snd' = [snd EXCEPT !.fails = authFailed(snd), !.held = FALSE, !.net =
                      IF capHit(snd) THEN "capped" ELSE IF snd.cancel THEN "cancelled" ELSE "gone"]
    BY <1>1, <2>1
  <2>2. CASE snd' = [snd EXCEPT !.held = FALSE, !.net = IF snd.cancel THEN "cancelled" ELSE "gone"]
    <3>1. snd' = [snd EXCEPT !.fails = snd.fails, !.held = FALSE, !.net = IF snd.cancel THEN "cancelled" ELSE "gone"]
      BY <1>0, <2>2 DEF Sender
    <3> QED BY <1>1, <3>1
  <2>3. CASE snd' = [snd EXCEPT !.net = "cancelled", !.held = FALSE]
    <3>1. snd' = [snd EXCEPT !.fails = snd.fails, !.held = FALSE, !.net = "cancelled"]
      BY <1>0, <2>3 DEF Sender
    <3> QED BY <1>1, <3>1
  <2> QED BY <1>2, <2>1, <2>2, <2>3
<1> QED BY <1>2, <1>3, NetEnds

\* The coordinator takes the connection of the LAN, ...
LEMMA TakesLAN ==
  ASSUME PInv,
         snd.pc = "pair",
         snd.lan = "paired",
         snd' = [snd EXCEPT !.lan = "done", !.pc = "won", !.winner = "lan"],
         UnchangedNet
  PROVE  PInv'
<1>0. PairTypeOK /\ snd \in Sender
  BY DEF PInv, PairTypeOK
<1>p. \A e \in Conns : conn[e].path = "lan" \/ conn[e].path = "net"
  BY <1>0, PathKinds
<1>2. /\ snd' \in Sender
      /\ snd'.pc = "won" /\ snd'.key = snd.key /\ snd'.resumed = snd.resumed /\ snd'.rkey = snd.rkey /\ snd'.resume = snd.resume
      /\ snd'.winner = "lan" /\ snd'.paired = snd.paired /\ snd'.lan = "done" /\ snd'.net = snd.net /\ snd'.lanConn = snd.lanConn
      /\ snd'.netConn = snd.netConn /\ snd'.cur = snd.cur /\ snd'.held = snd.held /\ snd'.cancel = snd.cancel /\ snd'.rounds = snd.rounds
  BY <1>0 DEF Sender, Paths
<1>3. conn' = conn /\ rcv' = rcv /\ ln' = ln
  BY DEF UnchangedNet
<1>4. slot' = slot /\ seen' = seen /\ faults' = faults
  BY DEF UnchangedNet, UnchangedServer
<1>t. PairTypeOK'
  BY <1>0, <1>2, <1>3, <1>4 DEF PairTypeOK, ListenerTypeOK
<1>s. SenderShape'
  BY <1>2, Kinds DEF PInv, SenderShape, After, Winning
<1>k. KeyShape'
  BY <1>2, Kinds DEF PInv, KeyShape, SenderShape, After
<1>h. HeldShape'
  BY <1>2 DEF PInv, HeldShape, SenderShape, Winning
<1>l. SlotShape'
  BY <1>2, <1>4 DEF PInv, SlotShape, SenderShape, KeyShape, HeldShape, RefusedOnlyIfLeft, Winning, After
<1>d. HandedShape'
  BY <1>2, <1>3, Kinds DEF PInv, HandedShape, SenderShape, Winning, After
<1>n. ListenShape'
  BY <1>p, <1>2, <1>3, Kinds DEF PInv, ListenShape, SenderShape, Winning, After
<1>c. SecretShape'
  BY <1>2, <1>3, <1>4, Kinds DEF PInv, SecretShape, SenderShape, KeyShape, ReturnsToFirst, Busy
<1>a. AdoptShape'
  BY <1>2, <1>3, Kinds DEF PInv, AdoptShape, First, Adopted, Opened, Busy
<1> QED BY <1>t, <1>s, <1>k, <1>h, <1>l, <1>d, <1>n, <1>c, <1>a DEF PInv

\* ... or that of the internet, ...
LEMMA TakesNet ==
  ASSUME PInv,
         snd.pc = "pair",
         snd.net = "paired",
         snd' = [snd EXCEPT !.net = "done", !.pc = "won", !.winner = "net"],
         UnchangedNet
  PROVE  PInv'
<1>0. PairTypeOK /\ snd \in Sender
  BY DEF PInv, PairTypeOK
<1>p. \A e \in Conns : conn[e].path = "lan" \/ conn[e].path = "net"
  BY <1>0, PathKinds
<1>2. /\ snd' \in Sender
      /\ snd'.pc = "won" /\ snd'.key = snd.key /\ snd'.resumed = snd.resumed /\ snd'.rkey = snd.rkey /\ snd'.resume = snd.resume
      /\ snd'.winner = "net" /\ snd'.paired = snd.paired /\ snd'.lan = snd.lan /\ snd'.net = "done" /\ snd'.lanConn = snd.lanConn
      /\ snd'.netConn = snd.netConn /\ snd'.cur = snd.cur /\ snd'.held = snd.held /\ snd'.cancel = snd.cancel /\ snd'.rounds = snd.rounds
  BY <1>0 DEF Sender, Paths
<1>3. conn' = conn /\ rcv' = rcv /\ ln' = ln
  BY DEF UnchangedNet
<1>4. slot' = slot /\ seen' = seen /\ faults' = faults
  BY DEF UnchangedNet, UnchangedServer
<1>t. PairTypeOK'
  BY <1>0, <1>2, <1>3, <1>4 DEF PairTypeOK, ListenerTypeOK
<1>s. SenderShape'
  BY <1>2, Kinds DEF PInv, SenderShape, After, Winning
<1>k. KeyShape'
  BY <1>2, Kinds DEF PInv, KeyShape, SenderShape, After
<1>h. HeldShape'
  BY <1>2 DEF PInv, HeldShape, SenderShape, Winning
<1>l. SlotShape'
  BY <1>2, <1>4 DEF PInv, SlotShape, SenderShape, KeyShape, HeldShape, RefusedOnlyIfLeft, Winning, After
<1>d. HandedShape'
  BY <1>2, <1>3, Kinds DEF PInv, HandedShape, SenderShape, Winning, After
<1>n. ListenShape'
  BY <1>p, <1>2, <1>3, Kinds DEF PInv, ListenShape, SenderShape, Winning, After
<1>c. SecretShape'
  BY <1>2, <1>3, <1>4, Kinds DEF PInv, SecretShape, SenderShape, KeyShape, ReturnsToFirst, Busy
<1>a. AdoptShape'
  BY <1>2, <1>3, Kinds DEF PInv, AdoptShape, First, Adopted, Opened, Busy
<1> QED BY <1>t, <1>s, <1>k, <1>h, <1>l, <1>d, <1>n, <1>c, <1>a DEF PInv

\* A round that has no winner yet goes on, or is aborted; outcomes but a connection are collected.
GoesOn ==
    /\ snd' \in Sender /\ snd'.pc \in {"pair", "drain"}
    /\ snd'.lan = snd.lan \/ (snd'.lan = "done" /\ snd.lan \in LanOutcomes \ {"paired"})
    /\ snd'.net = snd.net \/ (snd'.net = "done" /\ snd.net \in NetOutcomes \ {"paired"})
    /\ snd'.key = snd.key /\ snd'.resumed = snd.resumed /\ snd'.rkey = snd.rkey /\ snd'.resume = snd.resume /\ snd'.winner = snd.winner
    /\ snd'.paired = snd.paired /\ snd'.lanConn = snd.lanConn /\ snd'.netConn = snd.netConn /\ snd'.cur = snd.cur /\ snd'.held = snd.held
    /\ snd'.rounds = snd.rounds

\* ... otherwise the round goes on or is aborted.
LEMMA RoundGoesOn ==
  ASSUME PInv,
         snd.pc = "pair",
         GoesOn,
         UnchangedNet
  PROVE  PInv'
<1>0. PairTypeOK /\ snd \in Sender
  BY DEF PInv, PairTypeOK
<1>p. \A e \in Conns : conn[e].path = "lan" \/ conn[e].path = "net"
  BY <1>0, PathKinds
<1>r. snd.rkey \in Secrets /\ Code \in Secrets
  BY <1>0, Kinds DEF Sender
<1>q. snd.paired => snd.pc \in After
  BY <1>0 DEF PInv, Sender, SenderShape, After
<1>2. GoesOn
  OBVIOUS
<1>3. conn' = conn /\ rcv' = rcv /\ ln' = ln
  BY DEF UnchangedNet
<1>4. slot' = slot /\ seen' = seen /\ faults' = faults
  BY DEF UnchangedNet, UnchangedServer
<1>t. PairTypeOK'
  BY <1>0, <1>2, <1>3, <1>4 DEF GoesOn, PairTypeOK, ListenerTypeOK
<1>s. SenderShape'
  BY <1>2, <1>0, Kinds DEF PInv, GoesOn, LanOutcomes, NetOutcomes, SenderShape, After, Winning
<1>k. KeyShape'
  BY <1>q, <1>2, <1>0, Kinds DEF PInv, GoesOn, LanOutcomes, NetOutcomes, KeyShape, SenderShape, After
<1>h. HeldShape'
  BY <1>2, <1>0 DEF PInv, GoesOn, LanOutcomes, NetOutcomes, HeldShape, SenderShape, Winning
<1>l. SlotShape'
  <2>1. ASSUME NEW k \in Secrets \ seen'.stale, slot'[k].st # "none"
        PROVE  \/ k = snd'.rkey /\ snd'.held /\ slot'[k].st \in {"waiting", "joined"}
               \/ k = Code /\ snd'.resumed /\ slot'[k].st = "consumed" /\ (snd'.resume \/ (snd'.paired /\ snd'.net # "create"))
    <3>1. CASE k = snd.rkey
      BY <2>1, <3>1, <1>q, <1>r, <1>2, <1>4, Kinds DEF PInv, GoesOn, NetOutcomes, SlotShape, SenderShape, KeyShape, HeldShape, RefusedOnlyIfLeft, Winning, After
    <3>2. CASE k # snd.rkey
      BY <2>1, <3>2, <1>q, <1>r, <1>2, <1>4, Kinds DEF PInv, GoesOn, NetOutcomes, SlotShape, SenderShape, KeyShape, HeldShape, RefusedOnlyIfLeft, Winning, After
    <3> QED BY <3>1, <3>2
  <2>2. snd'.held /\ snd'.rkey \notin seen'.stale => slot'[snd'.rkey].st \in {"waiting", "joined"}
    BY <1>q, <1>r, <1>2, <1>4, Kinds DEF PInv, GoesOn, NetOutcomes, SlotShape, SenderShape, KeyShape, HeldShape, RefusedOnlyIfLeft, Winning, After
  <2>3. RefusedOnlyIfLeft' /\ (seen'.owed => snd'.resumed)
    BY <1>q, <1>r, <1>2, <1>4, Kinds DEF PInv, GoesOn, NetOutcomes, SlotShape, SenderShape, KeyShape, HeldShape, RefusedOnlyIfLeft, Winning, After
  <2>4. seen'.owed /\ Code \notin seen'.stale => (~snd'.resume /\ snd'.paired /\ snd'.held) \/ slot'[Code].st = "consumed"
    BY <1>q, <1>r, <1>2, <1>4, Kinds DEF PInv, GoesOn, NetOutcomes, SlotShape, SenderShape, KeyShape, HeldShape, RefusedOnlyIfLeft, Winning, After
  <2> QED BY <2>1, <2>2, <2>3, <2>4 DEF SlotShape
<1>d. HandedShape'
  BY <1>2, <1>0, <1>3, Kinds DEF PInv, GoesOn, LanOutcomes, NetOutcomes, HandedShape, SenderShape, Winning, After
<1>n. ListenShape'
  BY <1>p, <1>2, <1>0, <1>3, Kinds DEF PInv, GoesOn, LanOutcomes, NetOutcomes, ListenShape, SenderShape, Winning, After
<1>c. SecretShape'
  BY <1>2, <1>0, <1>3, <1>4, Kinds DEF PInv, GoesOn, LanOutcomes, NetOutcomes, SecretShape, SenderShape, KeyShape, ReturnsToFirst, Busy
<1>a. AdoptShape'
  BY <1>2, <1>0, <1>3, Kinds DEF PInv, GoesOn, LanOutcomes, NetOutcomes, AdoptShape, First, Adopted, Opened, Busy
<1> QED BY <1>t, <1>s, <1>k, <1>h, <1>l, <1>d, <1>n, <1>c, <1>a DEF PInv


\* The coordinator takes an outcome of the LAN, ...
LEMMA TakeLAN ==
  ASSUME PInv, takeLAN
  PROVE  PInv'
<1>0. snd \in Sender
  BY DEF PInv, PairTypeOK
<1>1. snd.pc = "pair" /\ snd.lan \in LanOutcomes /\ UnchangedNet
  BY DEF takeLAN
<1>2. CASE snd.lan = "paired"
  <2>1. snd' = [snd EXCEPT !.lan = "done", !.pc = "won", !.winner = "lan"]
    BY <1>2 DEF takeLAN
  <2> QED BY <1>1, <1>2, <2>1, TakesLAN
<1>3. CASE snd.lan # "paired"
  <2>1. \/ snd' = aborted([snd EXCEPT !.lan = "done"])
        \/ snd' = aborted([snd EXCEPT !.lan = "done", !.lanErr = TRUE])
        \/ snd' = [snd EXCEPT !.lan = "done", !.lanErr = TRUE]
    BY <1>3 DEF takeLAN
  <2>2. snd.lan \in LanOutcomes \ {"paired"}
    BY <1>1, <1>3
  <2>3. CASE snd' = aborted([snd EXCEPT !.lan = "done"])
    BY <1>0, <1>1, <2>2, <2>3, RoundGoesOn DEF aborted, Sender, GoesOn
  <2>4. CASE snd' = aborted([snd EXCEPT !.lan = "done", !.lanErr = TRUE])
    BY <1>0, <1>1, <2>2, <2>4, RoundGoesOn DEF aborted, Sender, GoesOn
  <2>5. CASE snd' = [snd EXCEPT !.lan = "done", !.lanErr = TRUE]
    BY <1>0, <1>1, <2>2, <2>5, RoundGoesOn DEF Sender, GoesOn
  <2> QED BY <2>1, <2>3, <2>4, <2>5
<1> QED BY <1>2, <1>3

\* ... of the internet, ...
LEMMA TakeNet ==
  ASSUME PInv, takeNet
  PROVE  PInv'
<1>0. snd \in Sender
  BY DEF PInv, PairTypeOK
<1>1. snd.pc = "pair" /\ snd.net \in NetOutcomes /\ UnchangedNet
  BY DEF takeNet
<1>2. CASE snd.net = "paired"
  <2>1. snd' = [snd EXCEPT !.net = "done", !.pc = "won", !.winner = "net"]
    BY <1>2 DEF takeNet
  <2> QED BY <1>1, <1>2, <2>1, TakesNet
<1>3. CASE snd.net # "paired"
  <2>1. \/ snd' = aborted([snd EXCEPT !.net = "done"])
        \/ snd' = [snd EXCEPT !.net = "done", !.down = TRUE]
    BY <1>3 DEF takeNet
  <2>2. snd.net \in NetOutcomes \ {"paired"}
    BY <1>1, <1>3
  <2>3. CASE snd' = aborted([snd EXCEPT !.net = "done"])
    BY <1>0, <1>1, <2>2, <2>3, RoundGoesOn DEF aborted, Sender, GoesOn
  <2>5. CASE snd' = [snd EXCEPT !.net = "done", !.down = TRUE]
    BY <1>0, <1>1, <2>2, <2>5, RoundGoesOn DEF Sender, GoesOn
  <2> QED BY <2>1, <2>3, <2>5
<1> QED BY <1>2, <1>3

\* ... the news that the server is down, ...
LEMMA TakeDown ==
  ASSUME PInv, takeDown
  PROVE  PInv'
<1>0. snd \in Sender
  BY DEF PInv, PairTypeOK
<1>1. /\ snd.pc = "pair" /\ UnchangedNet
      /\ \/ snd' = aborted([snd EXCEPT !.downCh = FALSE, !.down = TRUE])
         \/ snd' = [snd EXCEPT !.downCh = FALSE, !.down = TRUE]
  BY DEF takeDown
<1>2. CASE snd' = aborted([snd EXCEPT !.downCh = FALSE, !.down = TRUE])
  BY <1>0, <1>1, <1>2, RoundGoesOn DEF aborted, Sender, GoesOn
<1>3. CASE snd' = [snd EXCEPT !.downCh = FALSE, !.down = TRUE]
  BY <1>0, <1>1, <1>3, RoundGoesOn DEF Sender, GoesOn
<1> QED BY <1>1, <1>2, <1>3

\* ... and its own expiry.
LEMMA Expire ==
  ASSUME PInv, expire
  PROVE  PInv'
<1>0. snd \in Sender
  BY DEF PInv, PairTypeOK
<1>1. snd.pc = "pair" /\ snd' = aborted(snd) /\ UnchangedNet
  BY DEF expire
<1> QED BY <1>0, <1>1, RoundGoesOn DEF aborted, Sender, GoesOn

\* The sender's record when a round starts, ...
LEMMA RoundRecord ==
  ASSUME NEW x \in Sender, NEW y, y = Round(x)
  PROVE  /\ y \in Sender
         /\ y.pc = "pair" /\ y.key = x.key /\ y.resumed = x.resumed /\ y.rkey = x.key /\ y.resume = x.resumed
         /\ y.winner = "none" /\ y.paired = FALSE /\ y.lan = "bind" /\ y.net = "create" /\ y.lanConn = NoConn
         /\ y.netConn = NoConn /\ y.cur = NoConn /\ y.peer = Nobody /\ y.lanErr = FALSE /\ y.downCh = FALSE
         /\ y.down = FALSE /\ y.held = FALSE /\ y.cancel = FALSE /\ y.attempt = 1 /\ y.fails = x.fails
         /\ y.misses = x.misses /\ y.rounds = x.rounds /\ y.result = "none"
<1>1. 1 \in 1..DefaultAttempts /\ 0 \in 0..maxAuthFailures /\ 0 \in 0..(maxPasswordRounds - 1)
  BY PairingAssumption
<1>2. /\ y.pc = "pair" /\ y.key = x.key /\ y.resumed = x.resumed /\ y.rkey = x.key /\ y.resume = x.resumed
      /\ y.winner = "none" /\ y.paired = FALSE /\ y.lan = "bind" /\ y.net = "create" /\ y.lanConn = NoConn
      /\ y.netConn = NoConn /\ y.cur = NoConn /\ y.peer = Nobody /\ y.lanErr = FALSE /\ y.downCh = FALSE
      /\ y.down = FALSE /\ y.held = FALSE /\ y.cancel = FALSE /\ y.attempt = 1 /\ y.fails = x.fails
      /\ y.misses = x.misses /\ y.rounds = x.rounds /\ y.result = "none"
  BY DEF Sender, Round
<1>3. y = [pc |-> y.pc, key |-> y.key, resumed |-> y.resumed, rkey |-> y.rkey, resume |-> y.resume, winner |-> y.winner, paired |-> y.paired, lan |-> y.lan, net |-> y.net, lanConn |-> y.lanConn, netConn |-> y.netConn, cur |-> y.cur,
           peer |-> y.peer, lanErr |-> y.lanErr, downCh |-> y.downCh, down |-> y.down, held |-> y.held, cancel |-> y.cancel, attempt |-> y.attempt, fails |-> y.fails, misses |-> y.misses, rounds |-> y.rounds, result |-> y.result]
  BY DEF Sender, Round
<1>4. NoConn \in Conns \cup {NoConn} /\ Nobody \in Devices \cup {Nobody} /\ "none" \in Paths \cup {"none"}
  OBVIOUS
<1>5. y \in Sender
  BY <1>1, <1>2, <1>3, <1>4, ZenonT(60) DEF Sender
<1> QED BY <1>2, <1>5

\* ... and when the command has ended.
LEMMA LeftRecord ==
  ASSUME NEW x \in Sender, NEW y, y = Left(x)
  PROVE  /\ y \in Sender
         /\ y.pc = "over" /\ y.key = x.key /\ y.resumed = x.resumed /\ y.rkey = x.key /\ y.resume = x.resumed
         /\ y.winner = "none" /\ y.paired = FALSE /\ y.lan = "done" /\ y.net = "done" /\ y.lanConn = NoConn
         /\ y.netConn = NoConn /\ y.cur = NoConn /\ y.peer = Nobody /\ y.lanErr = FALSE /\ y.downCh = FALSE
         /\ y.down = FALSE /\ y.held = FALSE /\ y.cancel = FALSE /\ y.attempt = 1 /\ y.fails = 0
         /\ y.misses = 0 /\ y.rounds = x.rounds /\ y.result = "none"
<1>1. 1 \in 1..DefaultAttempts /\ 0 \in 0..maxAuthFailures /\ 0 \in 0..(maxPasswordRounds - 1)
  BY PairingAssumption
<1>2. /\ y.pc = "over" /\ y.key = x.key /\ y.resumed = x.resumed /\ y.rkey = x.key /\ y.resume = x.resumed
      /\ y.winner = "none" /\ y.paired = FALSE /\ y.lan = "done" /\ y.net = "done" /\ y.lanConn = NoConn
      /\ y.netConn = NoConn /\ y.cur = NoConn /\ y.peer = Nobody /\ y.lanErr = FALSE /\ y.downCh = FALSE
      /\ y.down = FALSE /\ y.held = FALSE /\ y.cancel = FALSE /\ y.attempt = 1 /\ y.fails = 0
      /\ y.misses = 0 /\ y.rounds = x.rounds /\ y.result = "none"
  BY DEF Sender, Left, Round
<1>3. y = [pc |-> y.pc, key |-> y.key, resumed |-> y.resumed, rkey |-> y.rkey, resume |-> y.resume, winner |-> y.winner, paired |-> y.paired, lan |-> y.lan, net |-> y.net, lanConn |-> y.lanConn, netConn |-> y.netConn, cur |-> y.cur,
           peer |-> y.peer, lanErr |-> y.lanErr, downCh |-> y.downCh, down |-> y.down, held |-> y.held, cancel |-> y.cancel, attempt |-> y.attempt, fails |-> y.fails, misses |-> y.misses, rounds |-> y.rounds, result |-> y.result]
  BY DEF Sender, Left, Round
<1>4. NoConn \in Conns \cup {NoConn} /\ Nobody \in Devices \cup {Nobody} /\ "none" \in Paths \cup {"none"}
  OBVIOUS
<1>5. y \in Sender
  BY <1>1, <1>2, <1>3, <1>4, ZenonT(60) DEF Sender
<1> QED BY <1>2, <1>5

\* Nothing of the round is left: no session, no listener, no connection.
Quiet ==
    /\ ~snd.held /\ ~ln["lan"].open /\ ~ln["net"].open
    /\ \A c \in Conns : conn[c].s # "handed" /\ ~conn[c].live

\* A round is quiet once both goroutines are collected and no winner is left.
LEMMA RoundQuiet ==
  ASSUME PInv, snd.lan = "done", snd.net = "done", snd.pc \in {"pair", "drain", "leave"}
  PROVE  Quiet
<1>1. ~snd.held
  BY DEF PInv, HeldShape, Winning
<1>2. ~ln["lan"].open /\ ~ln["net"].open
  BY DEF PInv, ListenShape, Winning
<1>3. \A c \in Conns : conn[c].path = "lan" \/ conn[c].path = "net"
  BY PathKinds DEF PInv
<1>4. ASSUME NEW c \in Conns PROVE ~conn[c].live /\ conn[c].s # "handed"
  BY <1>2, <1>3 DEF PInv, ListenShape, HandedShape, Winning
<1> QED BY <1>1, <1>2, <1>4 DEF Quiet

\* The command ends.
LEMMA LeavesStep ==
  ASSUME PInv,
         Quiet,
         snd' = Left(snd),
         UnchangedNet
  PROVE  PInv'
<1>0. PairTypeOK /\ snd \in Sender
  BY DEF PInv, PairTypeOK
<1>p. \A e \in Conns : conn[e].path = "lan" \/ conn[e].path = "net"
  BY <1>0, PathKinds
<1>r. snd.rkey \in Secrets /\ Code \in Secrets
  BY <1>0, Kinds DEF Sender
<1>q. snd.paired => snd.pc \in After
  BY <1>0 DEF PInv, Sender, SenderShape, After
<1>n1. snd.rounds \in Nat /\ snd.key \in Secrets
  BY <1>0, PairingAssumption DEF Sender
<1>5. 1 \in 1..DefaultAttempts /\ 0 \in 0..maxAuthFailures /\ 0 \in 0..(maxPasswordRounds - 1)
  BY PairingAssumption
<1>2. /\ snd' \in Sender
      /\ snd'.pc = "over" /\ snd'.key = snd.key /\ snd'.resumed = snd.resumed /\ snd'.rkey = snd.key /\ snd'.resume = snd.resumed
      /\ snd'.winner = "none" /\ snd'.paired = FALSE /\ snd'.lan = "done" /\ snd'.net = "done" /\ snd'.lanConn = NoConn
      /\ snd'.netConn = NoConn /\ snd'.cur = NoConn /\ snd'.held = FALSE /\ snd'.cancel = FALSE /\ snd'.rounds = snd.rounds
  BY <1>0, LeftRecord
<1>3. conn' = conn /\ rcv' = rcv /\ ln' = ln
  BY DEF UnchangedNet
<1>4. slot' = slot /\ seen' = seen /\ faults' = faults
  BY DEF UnchangedNet, UnchangedServer
<1>t. PairTypeOK'
  BY <1>0, <1>2, <1>3, <1>4 DEF PairTypeOK, ListenerTypeOK
<1>s. SenderShape'
  BY <1>2, Kinds DEF PInv, SenderShape, After, Winning
<1>k. KeyShape'
  BY <1>2, <1>n1, Kinds DEF PInv, KeyShape, SenderShape, After
<1>h. HeldShape'
  BY <1>2 DEF PInv, HeldShape, SenderShape, Winning
<1>l. SlotShape'
  <2>1. ASSUME NEW k \in Secrets \ seen'.stale, slot'[k].st # "none"
        PROVE  \/ k = snd'.rkey /\ snd'.held /\ slot'[k].st \in {"waiting", "joined"}
               \/ k = Code /\ snd'.resumed /\ slot'[k].st = "consumed" /\ (snd'.resume \/ (snd'.paired /\ snd'.net # "create"))
    <3>1. CASE k = snd.rkey
      BY <2>1, <3>1, <1>q, <1>r, <1>2, <1>4, Kinds DEF PInv, Quiet, SlotShape, SlotEnds, consumeCode, SenderShape, KeyShape, HeldShape, RefusedOnlyIfLeft, Winning, After
    <3>2. CASE k # snd.rkey
      BY <2>1, <3>2, <1>q, <1>r, <1>2, <1>4, Kinds DEF PInv, Quiet, SlotShape, SlotEnds, consumeCode, SenderShape, KeyShape, HeldShape, RefusedOnlyIfLeft, Winning, After
    <3> QED BY <3>1, <3>2
  <2>2. snd'.held /\ snd'.rkey \notin seen'.stale => slot'[snd'.rkey].st \in {"waiting", "joined"}
    BY <1>q, <1>r, <1>2, <1>4, Kinds DEF PInv, Quiet, SlotShape, SlotEnds, consumeCode, SenderShape, KeyShape, HeldShape, RefusedOnlyIfLeft, Winning, After
  <2>3. RefusedOnlyIfLeft' /\ (seen'.owed => snd'.resumed)
    BY <1>q, <1>r, <1>2, <1>4, Kinds DEF PInv, Quiet, SlotShape, SlotEnds, consumeCode, SenderShape, KeyShape, HeldShape, RefusedOnlyIfLeft, Winning, After
  <2>4. seen'.owed /\ Code \notin seen'.stale => (~snd'.resume /\ snd'.paired /\ snd'.held) \/ slot'[Code].st = "consumed"
    BY <1>q, <1>r, <1>2, <1>4, Kinds DEF PInv, Quiet, SlotShape, SlotEnds, consumeCode, SenderShape, KeyShape, HeldShape, RefusedOnlyIfLeft, Winning, After
  <2> QED BY <2>1, <2>2, <2>3, <2>4 DEF SlotShape
<1>d. HandedShape'
  BY <1>2, <1>3, Kinds DEF PInv, Quiet, HandedShape, SenderShape, Winning, After
<1>n. ListenShape'
  BY <1>p, <1>2, <1>3, Kinds DEF PInv, Quiet, ListenShape, SenderShape, Winning, After
<1>c. SecretShape'
  BY <1>2, <1>3, <1>4, Kinds DEF PInv, SecretShape, SenderShape, KeyShape, ReturnsToFirst, Busy
<1>a. AdoptShape'
  BY <1>2, <1>3, Kinds DEF PInv, AdoptShape, First, Adopted, Opened, Busy
<1> QED BY <1>t, <1>s, <1>k, <1>h, <1>l, <1>d, <1>n, <1>c, <1>a DEF PInv

\* The next round starts on the session's key.
LEMMA NextRound ==
  ASSUME PInv,
         Quiet,
         snd.rounds < MaxRounds,
         snd.resumed,
         snd' = Round([snd EXCEPT !.rounds = snd.rounds + 1]),
         UnchangedNet
  PROVE  PInv'
<1>0. PairTypeOK /\ snd \in Sender
  BY DEF PInv, PairTypeOK
<1>p. \A e \in Conns : conn[e].path = "lan" \/ conn[e].path = "net"
  BY <1>0, PathKinds
<1>r. snd.rkey \in Secrets /\ Code \in Secrets
  BY <1>0, Kinds DEF Sender
<1>q. snd.paired => snd.pc \in After
  BY <1>0 DEF PInv, Sender, SenderShape, After
<1>n1. snd.rounds \in Nat /\ snd.key \in Secrets
  BY <1>0, PairingAssumption DEF Sender
<1>5. 1 \in 1..DefaultAttempts /\ 0 \in 0..maxAuthFailures /\ 0 \in 0..(maxPasswordRounds - 1)
  BY PairingAssumption
<1>6. snd.rounds + 1 \in 1..MaxRounds
  BY <1>0, PairingAssumption DEF Sender
<1>7. PICK x : x = [snd EXCEPT !.rounds = snd.rounds + 1]
  OBVIOUS
<1>8. /\ x \in Sender /\ x.key = snd.key /\ x.resumed = snd.resumed /\ x.rounds = snd.rounds + 1
      /\ snd' = Round(x)
  BY <1>0, <1>6, <1>7 DEF Sender
<1>2. /\ snd' \in Sender
      /\ snd'.pc = "pair" /\ snd'.key = snd.key /\ snd'.resumed = snd.resumed /\ snd'.rkey = snd.key /\ snd'.resume = snd.resumed
      /\ snd'.winner = "none" /\ snd'.paired = FALSE /\ snd'.lan = "bind" /\ snd'.net = "create" /\ snd'.lanConn = NoConn
      /\ snd'.netConn = NoConn /\ snd'.cur = NoConn /\ snd'.held = FALSE /\ snd'.cancel = FALSE /\ snd'.rounds = snd.rounds + 1
  BY <1>8, RoundRecord, ZenonT(60)
<1>3. conn' = conn /\ rcv' = rcv /\ ln' = ln
  BY DEF UnchangedNet
<1>4. slot' = slot /\ seen' = seen /\ faults' = faults
  BY DEF UnchangedNet, UnchangedServer
<1>t. PairTypeOK'
  BY <1>0, <1>2, <1>3, <1>4 DEF PairTypeOK, ListenerTypeOK
<1>s. SenderShape'
  BY <1>2, Kinds DEF PInv, SenderShape, After, Winning
<1>k. KeyShape'
  BY <1>2, <1>n1, Kinds DEF PInv, KeyShape, SenderShape, After
<1>h. HeldShape'
  BY <1>2 DEF PInv, HeldShape, SenderShape, Winning
<1>l. SlotShape'
  <2>1. ASSUME NEW k \in Secrets \ seen'.stale, slot'[k].st # "none"
        PROVE  \/ k = snd'.rkey /\ snd'.held /\ slot'[k].st \in {"waiting", "joined"}
               \/ k = Code /\ snd'.resumed /\ slot'[k].st = "consumed" /\ (snd'.resume \/ (snd'.paired /\ snd'.net # "create"))
    <3>1. CASE k = snd.rkey
      BY <2>1, <3>1, <1>q, <1>r, <1>2, <1>4, Kinds DEF PInv, Quiet, SlotShape, SlotEnds, consumeCode, SenderShape, KeyShape, HeldShape, RefusedOnlyIfLeft, Winning, After
    <3>2. CASE k # snd.rkey
      BY <2>1, <3>2, <1>q, <1>r, <1>2, <1>4, Kinds DEF PInv, Quiet, SlotShape, SlotEnds, consumeCode, SenderShape, KeyShape, HeldShape, RefusedOnlyIfLeft, Winning, After
    <3> QED BY <3>1, <3>2
  <2>2. snd'.held /\ snd'.rkey \notin seen'.stale => slot'[snd'.rkey].st \in {"waiting", "joined"}
    BY <1>q, <1>r, <1>2, <1>4, Kinds DEF PInv, Quiet, SlotShape, SlotEnds, consumeCode, SenderShape, KeyShape, HeldShape, RefusedOnlyIfLeft, Winning, After
  <2>3. RefusedOnlyIfLeft' /\ (seen'.owed => snd'.resumed)
    BY <1>q, <1>r, <1>2, <1>4, Kinds DEF PInv, Quiet, SlotShape, SlotEnds, consumeCode, SenderShape, KeyShape, HeldShape, RefusedOnlyIfLeft, Winning, After
  <2>4. seen'.owed /\ Code \notin seen'.stale => (~snd'.resume /\ snd'.paired /\ snd'.held) \/ slot'[Code].st = "consumed"
    BY <1>q, <1>r, <1>2, <1>4, Kinds DEF PInv, Quiet, SlotShape, SlotEnds, consumeCode, SenderShape, KeyShape, HeldShape, RefusedOnlyIfLeft, Winning, After
  <2> QED BY <2>1, <2>2, <2>3, <2>4 DEF SlotShape
<1>d. HandedShape'
  BY <1>2, <1>3, Kinds DEF PInv, Quiet, HandedShape, SenderShape, Winning, After
<1>n. ListenShape'
  BY <1>p, <1>2, <1>3, Kinds DEF PInv, Quiet, ListenShape, SenderShape, Winning, After
<1>c. SecretShape'
  BY <1>2, <1>3, <1>4, Kinds DEF PInv, SecretShape, SenderShape, KeyShape, ReturnsToFirst, Busy
<1>a. AdoptShape'
  BY <1>2, <1>3, Kinds DEF PInv, AdoptShape, First, Adopted, Opened, Busy
<1> QED BY <1>t, <1>s, <1>k, <1>h, <1>l, <1>d, <1>n, <1>c, <1>a DEF PInv

\* Both goroutines failed.
LEMMA BothFailed ==
  ASSUME PInv, bothFailed
  PROVE  PInv'
  BY RoundQuiet, LeavesStep DEF bothFailed

\* The round is left.
LEMMA Leave ==
  ASSUME PInv, leave
  PROVE  PInv'
<1>0. snd \in Sender /\ snd.winner \in Paths /\ snd.resumed
  BY DEF PInv, PairTypeOK, SenderShape, After, leave
<1>1. snd.lan = "done" /\ snd.net = "done"
  BY <1>0, Kinds DEF PInv, SenderShape, leave, loserDone
<1>2. Quiet
  BY <1>1, RoundQuiet DEF leave
<1> QED BY <1>0, <1>2, LeavesStep, NextRound DEF leave

\* A listener takes another secret.
LEMMA SecretSet ==
  ASSUME PairTypeOK, NEW p \in Paths, NEW k \in Secrets, ln' = [ln EXCEPT ![p] = SetSecret(ln[p], k)]
  PROVE  /\ ln' \in [Paths -> Listening] /\ ln'[p].open = ln[p].open /\ ln'[p].secret = k
         /\ \A q \in Paths : q # p => ln'[q] = ln[q]
<1>1. ln \in [Paths -> Listening] /\ ln[p] \in Listening
  BY DEF PairTypeOK, ListenerTypeOK
<1>2. PICK l : l = SetSecret(ln[p], k)
  OBVIOUS
<1>3. l \in Listening /\ l.open = ln[p].open /\ l.secret = k
  BY <1>1, <1>2 DEF SetSecret, Listening
<1> QED BY <1>1, <1>2, <1>3

\* The winner over the LAN switches the session and its listener to the resume key.
LEMMA CommitLan ==
  ASSUME PInv,
         snd.pc = "won",
         snd.winner = "lan",
         NEW k \in Conns,
         k = pairedKey(snd, snd.lanConn),
         snd' = [snd EXCEPT !.pc = "xfer", !.paired = TRUE, !.key = k, !.resumed = TRUE,
                           !.cur = snd.lanConn, !.cancel = TRUE, !.lanErr = FALSE, !.down = FALSE],
         ln' = [ln EXCEPT !["lan"] = SetSecret(ln["lan"], k)],
         seen' = [seen EXCEPT !.first = IF snd.resumed THEN seen.first ELSE conn[snd.lanConn].dev,
                             !.owed = seen.owed \/ (~snd.resume /\ snd.held)],
         UNCHANGED <<conn, rcv, slot, faults>>
  PROVE  PInv'
<1>0. PairTypeOK /\ snd \in Sender
  BY DEF PInv, PairTypeOK
<1>p. \A e \in Conns : conn[e].path = "lan" \/ conn[e].path = "net"
  BY <1>0, PathKinds
<1>r. snd.rkey \in Secrets /\ Code \in Secrets
  BY <1>0, Kinds DEF Sender
<1>q. snd.paired => snd.pc \in After
  BY <1>0 DEF PInv, Sender, SenderShape, After
<1>1. snd.lanConn \in Conns /\ conn[snd.lanConn].s = "handed" /\ conn[snd.lanConn].path = "lan" /\ conn[snd.lanConn].dev \in Devices
  BY DEF PInv, SenderShape, HandedShape, ListenShape
<1>5. k = (IF snd.resumed THEN snd.key ELSE snd.lanConn) /\ k \in Secrets
  BY Kinds DEF pairedKey
<1>2. /\ snd' \in Sender
      /\ snd'.pc = "xfer" /\ snd'.key = k /\ snd'.resumed = TRUE /\ snd'.rkey = snd.rkey /\ snd'.resume = snd.resume
      /\ snd'.winner = snd.winner /\ snd'.paired = TRUE /\ snd'.lan = snd.lan /\ snd'.net = snd.net /\ snd'.lanConn = snd.lanConn
      /\ snd'.netConn = snd.netConn /\ snd'.cur = snd.lanConn /\ snd'.held = snd.held /\ snd'.cancel = TRUE /\ snd'.rounds = snd.rounds
  BY <1>0, <1>1, <1>5 DEF Sender
<1>3. /\ conn' = conn /\ rcv' = rcv /\ ln' \in [Paths -> Listening]
      /\ ln'["lan"].open = ln["lan"].open /\ ln'["lan"].secret = k /\ ln'["net"] = ln["net"]
  BY <1>0, <1>5, SecretSet, Kinds
<1>4. /\ slot' = slot /\ faults' = faults
      /\ seen' \in [first : Devices \cup {Nobody}, owed : BOOLEAN, stale : SUBSET Secrets]
      /\ seen'.stale = seen.stale /\ seen'.owed = (seen.owed \/ (~snd.resume /\ snd.held))
      /\ seen'.first = IF snd.resumed THEN seen.first ELSE conn[snd.lanConn].dev
  BY <1>0, <1>1 DEF PairTypeOK, Sender
<1>t. PairTypeOK'
  BY <1>0, <1>2, <1>3, <1>4 DEF PairTypeOK, ListenerTypeOK
<1>s. SenderShape'
  BY <1>2, Kinds DEF PInv, SenderShape, After, Winning
<1>k. KeyShape'
  BY <1>5, <1>2, Kinds DEF PInv, KeyShape, SenderShape, After
<1>h. HeldShape'
  BY <1>2 DEF PInv, HeldShape, SenderShape, Winning
<1>l. SlotShape'
  <2>1. ASSUME NEW j \in Secrets \ seen'.stale, slot'[j].st # "none"
        PROVE  \/ j = snd'.rkey /\ snd'.held /\ slot'[j].st \in {"waiting", "joined"}
               \/ j = Code /\ snd'.resumed /\ slot'[j].st = "consumed" /\ (snd'.resume \/ (snd'.paired /\ snd'.net # "create"))
    <3>1. CASE j = snd.rkey
      BY <2>1, <3>1, <1>q, <1>r, <1>1, <1>2, <1>4, Kinds DEF PInv, SlotShape, SlotEnds, consumeCode, SenderShape, KeyShape, HeldShape, RefusedOnlyIfLeft, Winning, After
    <3>2. CASE j # snd.rkey
      BY <2>1, <3>2, <1>q, <1>r, <1>1, <1>2, <1>4, Kinds DEF PInv, SlotShape, SlotEnds, consumeCode, SenderShape, KeyShape, HeldShape, RefusedOnlyIfLeft, Winning, After
    <3> QED BY <3>1, <3>2
  <2>2. snd'.held /\ snd'.rkey \notin seen'.stale => slot'[snd'.rkey].st \in {"waiting", "joined"}
    BY <1>q, <1>r, <1>1, <1>2, <1>4, Kinds DEF PInv, SlotShape, SlotEnds, consumeCode, SenderShape, KeyShape, HeldShape, RefusedOnlyIfLeft, Winning, After
  <2>3. RefusedOnlyIfLeft' /\ (seen'.owed => snd'.resumed)
    BY <1>q, <1>r, <1>1, <1>2, <1>4, Kinds DEF PInv, SlotShape, SlotEnds, consumeCode, SenderShape, KeyShape, HeldShape, RefusedOnlyIfLeft, Winning, After
  <2>4. seen'.owed /\ Code \notin seen'.stale => (~snd'.resume /\ snd'.paired /\ snd'.held) \/ slot'[Code].st = "consumed"
    BY <1>q, <1>r, <1>1, <1>2, <1>4, Kinds DEF PInv, SlotShape, SlotEnds, consumeCode, SenderShape, KeyShape, HeldShape, RefusedOnlyIfLeft, Winning, After
  <2> QED BY <2>1, <2>2, <2>3, <2>4 DEF SlotShape
<1>d. HandedShape'
  BY <1>1, <1>2, <1>3, Kinds DEF PInv, HandedShape, SenderShape, Winning, After
<1>n. ListenShape'
  BY <1>p, <1>1, <1>5, <1>2, <1>3, Kinds DEF PInv, ListenShape, SenderShape, KeyShape, Winning, After
<1>c. SecretShape'
  BY <1>1, <1>5, <1>2, <1>3, <1>4, Kinds DEF PInv, SecretShape, SenderShape, KeyShape, ReturnsToFirst, Busy
<1>a. AdoptShape'
  BY <1>1, <1>5, <1>2, <1>3, Kinds DEF PInv, AdoptShape, HandedShape, First, Adopted, Opened, Busy
<1> QED BY <1>t, <1>s, <1>k, <1>h, <1>l, <1>d, <1>n, <1>c, <1>a DEF PInv

\* The winner over the internet switches the session and its listener to the resume key.
LEMMA CommitNet ==
  ASSUME PInv,
         snd.pc = "won",
         snd.winner = "net",
         NEW k \in Conns,
         k = pairedKey(snd, snd.netConn),
         snd' = [snd EXCEPT !.pc = "xfer", !.paired = TRUE, !.key = k, !.resumed = TRUE,
                           !.cur = snd.netConn, !.cancel = TRUE, !.lanErr = FALSE, !.down = FALSE],
         ln' = [ln EXCEPT !["net"] = SetSecret(ln["net"], k)],
         seen' = [seen EXCEPT !.first = IF snd.resumed THEN seen.first ELSE conn[snd.netConn].dev,
                             !.owed = seen.owed \/ (~snd.resume /\ snd.held)],
         UNCHANGED <<conn, rcv, slot, faults>>
  PROVE  PInv'
<1>0. PairTypeOK /\ snd \in Sender
  BY DEF PInv, PairTypeOK
<1>p. \A e \in Conns : conn[e].path = "lan" \/ conn[e].path = "net"
  BY <1>0, PathKinds
<1>r. snd.rkey \in Secrets /\ Code \in Secrets
  BY <1>0, Kinds DEF Sender
<1>q. snd.paired => snd.pc \in After
  BY <1>0 DEF PInv, Sender, SenderShape, After
<1>1. snd.netConn \in Conns /\ conn[snd.netConn].s = "handed" /\ conn[snd.netConn].path = "net" /\ conn[snd.netConn].dev \in Devices
  BY DEF PInv, SenderShape, HandedShape, ListenShape
<1>5. k = (IF snd.resumed THEN snd.key ELSE snd.netConn) /\ k \in Secrets
  BY Kinds DEF pairedKey
<1>2. /\ snd' \in Sender
      /\ snd'.pc = "xfer" /\ snd'.key = k /\ snd'.resumed = TRUE /\ snd'.rkey = snd.rkey /\ snd'.resume = snd.resume
      /\ snd'.winner = snd.winner /\ snd'.paired = TRUE /\ snd'.lan = snd.lan /\ snd'.net = snd.net /\ snd'.lanConn = snd.lanConn
      /\ snd'.netConn = snd.netConn /\ snd'.cur = snd.netConn /\ snd'.held = snd.held /\ snd'.cancel = TRUE /\ snd'.rounds = snd.rounds
  BY <1>0, <1>1, <1>5 DEF Sender
<1>3. /\ conn' = conn /\ rcv' = rcv /\ ln' \in [Paths -> Listening]
      /\ ln'["net"].open = ln["net"].open /\ ln'["net"].secret = k /\ ln'["lan"] = ln["lan"]
  BY <1>0, <1>5, SecretSet, Kinds
<1>4. /\ slot' = slot /\ faults' = faults
      /\ seen' \in [first : Devices \cup {Nobody}, owed : BOOLEAN, stale : SUBSET Secrets]
      /\ seen'.stale = seen.stale /\ seen'.owed = (seen.owed \/ (~snd.resume /\ snd.held))
      /\ seen'.first = IF snd.resumed THEN seen.first ELSE conn[snd.netConn].dev
  BY <1>0, <1>1 DEF PairTypeOK, Sender
<1>t. PairTypeOK'
  BY <1>0, <1>2, <1>3, <1>4 DEF PairTypeOK, ListenerTypeOK
<1>s. SenderShape'
  BY <1>2, Kinds DEF PInv, SenderShape, After, Winning
<1>k. KeyShape'
  BY <1>5, <1>2, Kinds DEF PInv, KeyShape, SenderShape, After
<1>h. HeldShape'
  BY <1>2 DEF PInv, HeldShape, SenderShape, Winning
<1>l. SlotShape'
  <2>1. ASSUME NEW j \in Secrets \ seen'.stale, slot'[j].st # "none"
        PROVE  \/ j = snd'.rkey /\ snd'.held /\ slot'[j].st \in {"waiting", "joined"}
               \/ j = Code /\ snd'.resumed /\ slot'[j].st = "consumed" /\ (snd'.resume \/ (snd'.paired /\ snd'.net # "create"))
    <3>1. CASE j = snd.rkey
      BY <2>1, <3>1, <1>q, <1>r, <1>1, <1>2, <1>4, Kinds DEF PInv, SlotShape, SlotEnds, consumeCode, SenderShape, KeyShape, HeldShape, RefusedOnlyIfLeft, Winning, After
    <3>2. CASE j # snd.rkey
      BY <2>1, <3>2, <1>q, <1>r, <1>1, <1>2, <1>4, Kinds DEF PInv, SlotShape, SlotEnds, consumeCode, SenderShape, KeyShape, HeldShape, RefusedOnlyIfLeft, Winning, After
    <3> QED BY <3>1, <3>2
  <2>2. snd'.held /\ snd'.rkey \notin seen'.stale => slot'[snd'.rkey].st \in {"waiting", "joined"}
    BY <1>q, <1>r, <1>1, <1>2, <1>4, Kinds DEF PInv, SlotShape, SlotEnds, consumeCode, SenderShape, KeyShape, HeldShape, RefusedOnlyIfLeft, Winning, After
  <2>3. RefusedOnlyIfLeft' /\ (seen'.owed => snd'.resumed)
    BY <1>q, <1>r, <1>1, <1>2, <1>4, Kinds DEF PInv, SlotShape, SlotEnds, consumeCode, SenderShape, KeyShape, HeldShape, RefusedOnlyIfLeft, Winning, After
  <2>4. seen'.owed /\ Code \notin seen'.stale => (~snd'.resume /\ snd'.paired /\ snd'.held) \/ slot'[Code].st = "consumed"
    BY <1>q, <1>r, <1>1, <1>2, <1>4, Kinds DEF PInv, SlotShape, SlotEnds, consumeCode, SenderShape, KeyShape, HeldShape, RefusedOnlyIfLeft, Winning, After
  <2> QED BY <2>1, <2>2, <2>3, <2>4 DEF SlotShape
<1>d. HandedShape'
  BY <1>1, <1>2, <1>3, Kinds DEF PInv, HandedShape, SenderShape, Winning, After
<1>n. ListenShape'
  BY <1>p, <1>1, <1>5, <1>2, <1>3, Kinds DEF PInv, ListenShape, SenderShape, KeyShape, Winning, After
<1>c. SecretShape'
  BY <1>1, <1>5, <1>2, <1>3, <1>4, Kinds DEF PInv, SecretShape, SenderShape, KeyShape, ReturnsToFirst, Busy
<1>a. AdoptShape'
  BY <1>1, <1>5, <1>2, <1>3, Kinds DEF PInv, AdoptShape, HandedShape, First, Adopted, Opened, Busy
<1> QED BY <1>t, <1>s, <1>k, <1>h, <1>l, <1>d, <1>n, <1>c, <1>a DEF PInv

\* The winner is committed.
LEMMA Commit ==
  ASSUME PInv, commit
  PROVE  PInv'
<1>0. snd \in Sender /\ snd.winner \in Paths /\ snd.pc = "won"
  BY DEF PInv, PairTypeOK, SenderShape, commit
<1>1. CASE snd.winner = "lan"
  <2>1. snd.lanConn \in Conns
    BY <1>1 DEF PInv, SenderShape
  <2>2. PICK k \in Conns : k = pairedKey(snd, snd.lanConn)
    BY <2>1 DEF PInv, KeyShape, pairedKey
  <2> QED BY <1>0, <1>1, <2>2, CommitLan DEF commit
<1>2. CASE snd.winner = "net"
  <2>1. snd.netConn \in Conns
    BY <1>2 DEF PInv, SenderShape
  <2>2. PICK k \in Conns : k = pairedKey(snd, snd.netConn)
    BY <2>1 DEF PInv, KeyShape, pairedKey
  <2> QED BY <1>0, <1>2, <2>2, CommitNet DEF commit
<1> QED BY <1>0, <1>1, <1>2, Kinds

\* The LAN's cleanup closes its listener and its connection.
LEMMA CleanupLANEffect ==
  ASSUME PairTypeOK, cleanupLAN, snd.lanConn \in Conns
  PROVE  /\ conn' \in [Conns -> Conn] /\ ln' \in [Paths -> Listening]
         /\ ~ln'["lan"].open /\ ln'["net"] = ln["net"]
         /\ \A c \in Conns : Keeps(c) /\ (c # snd.lanConn => Unlisted(c))
         /\ conn'[snd.lanConn].s = "closed" /\ ~conn'[snd.lanConn].live
         /\ slot' = slot /\ seen' = seen /\ faults' = faults
<1>0. conn \in [Conns -> Conn] /\ conn[snd.lanConn] \in Conn
  BY DEF PairTypeOK, ListenerTypeOK
<1>1. ln' \in [Paths -> Listening] /\ ~ln'["lan"].open /\ ln'["net"] = ln["net"]
  BY ListenerStops, Kinds DEF cleanupLAN, closeLAN
<1>2. PICK cs : cs = ConnClosed(conn, snd.lanConn) /\ conn' = Closed(cs, "lan")
  BY Kinds DEF cleanupLAN, closeLAN
<1>3. PICK y : y = Shut(conn[snd.lanConn])
  OBVIOUS
<1>4. /\ y \in Conn /\ y.dev = conn[snd.lanConn].dev /\ y.path = conn[snd.lanConn].path /\ y.r = conn[snd.lanConn].r
      /\ y.s = "closed" /\ ~y.live
  BY <1>0, <1>3, ShutRecord
<1>5. cs = [conn EXCEPT ![snd.lanConn] = y]
  BY <1>2, <1>3 DEF ConnClosed
<1>6. cs \in [Conns -> Conn] /\ cs[snd.lanConn] = y /\ \A c \in Conns : c # snd.lanConn => cs[c] = conn[c]
  BY <1>0, <1>4, <1>5
<1>7. /\ conn' \in [Conns -> Conn]
      /\ \A c \in Conns : /\ conn'[c].dev = cs[c].dev /\ conn'[c].path = cs[c].path /\ conn'[c].r = cs[c].r
                          /\ conn'[c].s = cs[c].s /\ conn'[c].want = cs[c].want /\ conn'[c].use = cs[c].use
                          /\ cs[c].path = "lan" => ~conn'[c].live
                          /\ cs[c].path # "lan" => conn'[c] = cs[c]
  BY <1>2, <1>6, ClosedEffect
<1>8. slot' = slot /\ seen' = seen /\ faults' = faults
  BY DEF cleanupLAN, UnchangedServer
<1>9. \A c \in Conns : Keeps(c) /\ (c # snd.lanConn => Unlisted(c))
  BY <1>4, <1>6, <1>7 DEF Keeps, Unlisted
<1>10. conn'[snd.lanConn].s = "closed" /\ ~conn'[snd.lanConn].live
  BY <1>4, <1>6, <1>7
<1> QED BY <1>1, <1>7, <1>8, <1>9, <1>10

\* A connection of the LAN that came too late is released, ...
LEMMA LateLAN ==
  ASSUME PInv,
         snd.lan = "paired",
         snd.pc \in {"drain", "xfer", "reaccept", "finish", "leave"},
         cleanupLAN,
         snd' = [snd EXCEPT !.lan = "done"],
         UNCHANGED rcv
  PROVE  PInv'
<1>0. PairTypeOK /\ snd \in Sender
  BY DEF PInv, PairTypeOK
<1>p. \A e \in Conns : conn[e].path = "lan" \/ conn[e].path = "net"
  BY <1>0, PathKinds
<1>r. snd.rkey \in Secrets /\ Code \in Secrets
  BY <1>0, Kinds DEF Sender
<1>q. snd.paired => snd.pc \in After
  BY <1>0 DEF PInv, Sender, SenderShape, After
<1>1. snd.lanConn \in Conns
  BY DEF PInv, SenderShape
<1>5. conn[snd.lanConn].path = "lan" /\ conn[snd.lanConn].s # "none"
  BY DEF PInv, HandedShape
<1>2. /\ snd' \in Sender
      /\ snd'.pc = snd.pc /\ snd'.key = snd.key /\ snd'.resumed = snd.resumed /\ snd'.rkey = snd.rkey /\ snd'.resume = snd.resume
      /\ snd'.winner = snd.winner /\ snd'.paired = snd.paired /\ snd'.lan = "done" /\ snd'.net = snd.net /\ snd'.lanConn = snd.lanConn
      /\ snd'.netConn = snd.netConn /\ snd'.cur = snd.cur /\ snd'.held = snd.held /\ snd'.cancel = snd.cancel /\ snd'.rounds = snd.rounds
  BY <1>0 DEF Sender
<1>3. /\ conn' \in [Conns -> Conn] /\ ln' \in [Paths -> Listening] /\ rcv' = rcv
      /\ ~ln'["lan"].open /\ ln'["net"] = ln["net"]
      /\ \A c \in Conns : Keeps(c) /\ (c # snd.lanConn => Unlisted(c))
      /\ conn'[snd.lanConn].s = "closed" /\ ~conn'[snd.lanConn].live
  BY <1>0, <1>1, CleanupLANEffect
<1>4. slot' = slot /\ seen' = seen /\ faults' = faults
  BY <1>0, <1>1, CleanupLANEffect
<1>t. PairTypeOK'
  BY <1>0, <1>2, <1>3, <1>4 DEF PairTypeOK, ListenerTypeOK
<1>s. SenderShape'
  BY <1>2, Kinds DEF PInv, SenderShape, After, Winning
<1>k. KeyShape'
  BY <1>2, Kinds DEF PInv, KeyShape, SenderShape, After
<1>h. HeldShape'
  BY <1>2 DEF PInv, HeldShape, SenderShape, Winning
<1>l. SlotShape'
  BY <1>2, <1>4 DEF PInv, SlotShape, SenderShape, KeyShape, HeldShape, RefusedOnlyIfLeft, Winning, After
<1>d. HandedShape'
  BY <1>p, <1>1, <1>5, <1>2, <1>3, Kinds DEF PInv, Unlisted, Keeps, HandedShape, SenderShape, Winning, After
<1>n. ListenShape'
  <2>1. ln'["lan"].open => snd'.lan \in {"accept", "paired"} \/ (snd'.winner = "lan" /\ snd'.pc \in Winning)
    BY <1>1, <1>5, <1>p, <1>2, <1>3, Kinds DEF PInv, Unlisted, Keeps, ListenShape, SenderShape, Winning, After
  <2>2. ln'["net"].open => snd'.net \in {"accept", "paired"} \/ (snd'.winner = "net" /\ snd'.pc \in Winning)
    BY <1>1, <1>5, <1>p, <1>2, <1>3, Kinds DEF PInv, Unlisted, Keeps, ListenShape, SenderShape, Winning, After
  <2>3. \A p \in Paths : ln'[p].open => ln'[p].secret \in {snd'.rkey, snd'.key}
    BY <1>1, <1>5, <1>p, <1>2, <1>3, Kinds DEF PInv, Unlisted, Keeps, ListenShape, SenderShape, Winning, After
  <2>4. ASSUME NEW c \in Conns
        PROVE  /\ conn'[c].s = "none" => conn'[c].dev = Nobody /\ conn'[c].r = "none" /\ ~conn'[c].live
               /\ conn'[c].s # "none" => conn'[c].dev \in Devices
               /\ conn'[c].live => ln'[conn'[c].path].open
               /\ conn'[c].live /\ conn'[c].s \in {"handshake", "ready"} => conn'[c].use \in {snd'.rkey, snd'.key}
               /\ conn'[c].s \in {"ready", "handed"} => conn'[c].use = conn'[c].want
    <3>1. CASE conn[c].path = "lan"
      BY <3>1, <1>1, <1>5, <1>p, <1>2, <1>3, Kinds DEF PInv, Unlisted, Keeps, ListenShape, SenderShape, Winning, After
    <3>2. CASE conn[c].path = "net"
      BY <3>2, <1>1, <1>5, <1>p, <1>2, <1>3, Kinds DEF PInv, Unlisted, Keeps, ListenShape, SenderShape, Winning, After
    <3> QED BY <3>1, <3>2, <1>p
  <2> QED BY <2>1, <2>2, <2>3, <2>4 DEF ListenShape
<1>c. SecretShape'
  BY <1>1, <1>5, <1>2, <1>3, <1>4, Kinds DEF PInv, Unlisted, Keeps, SecretShape, SenderShape, KeyShape, ReturnsToFirst, Busy
<1>a. AdoptShape'
  BY <1>1, <1>5, <1>2, <1>3, Kinds DEF PInv, Unlisted, Keeps, AdoptShape, First, Adopted, Opened, Busy
<1> QED BY <1>t, <1>s, <1>k, <1>h, <1>l, <1>d, <1>n, <1>c, <1>a DEF PInv

\* ... another outcome is only collected.
LEMMA GoneLAN ==
  ASSUME PInv,
         snd.lan \in LanOutcomes,
         snd.lan # "paired",
         UNCHANGED <<conn, ln>>,
         UnchangedServer,
         snd' = [snd EXCEPT !.lan = "done"],
         UNCHANGED rcv
  PROVE  PInv'
<1>0. PairTypeOK /\ snd \in Sender
  BY DEF PInv, PairTypeOK
<1>p. \A e \in Conns : conn[e].path = "lan" \/ conn[e].path = "net"
  BY <1>0, PathKinds
<1>2. /\ snd' \in Sender
      /\ snd'.pc = snd.pc /\ snd'.key = snd.key /\ snd'.resumed = snd.resumed /\ snd'.rkey = snd.rkey /\ snd'.resume = snd.resume
      /\ snd'.winner = snd.winner /\ snd'.paired = snd.paired /\ snd'.lan = "done" /\ snd'.net = snd.net /\ snd'.lanConn = snd.lanConn
      /\ snd'.netConn = snd.netConn /\ snd'.cur = snd.cur /\ snd'.held = snd.held /\ snd'.cancel = snd.cancel /\ snd'.rounds = snd.rounds
  BY <1>0 DEF Sender
<1>3. conn' = conn /\ rcv' = rcv /\ ln' = ln
  OBVIOUS
<1>4. slot' = slot /\ seen' = seen /\ faults' = faults
  BY DEF UnchangedServer
<1>t. PairTypeOK'
  BY <1>0, <1>2, <1>3, <1>4 DEF PairTypeOK, ListenerTypeOK
<1>s. SenderShape'
  BY <1>2, Kinds DEF PInv, LanOutcomes, SenderShape, After, Winning
<1>k. KeyShape'
  BY <1>2, Kinds DEF PInv, LanOutcomes, KeyShape, SenderShape, After
<1>h. HeldShape'
  BY <1>2 DEF PInv, LanOutcomes, HeldShape, SenderShape, Winning
<1>l. SlotShape'
  BY <1>2, <1>4 DEF PInv, LanOutcomes, SlotShape, SenderShape, KeyShape, HeldShape, RefusedOnlyIfLeft, Winning, After
<1>d. HandedShape'
  BY <1>2, <1>3, Kinds DEF PInv, LanOutcomes, HandedShape, SenderShape, Winning, After
<1>n. ListenShape'
  BY <1>p, <1>2, <1>3, Kinds DEF PInv, LanOutcomes, ListenShape, SenderShape, Winning, After
<1>c. SecretShape'
  BY <1>2, <1>3, <1>4, Kinds DEF PInv, LanOutcomes, SecretShape, SenderShape, KeyShape, ReturnsToFirst, Busy
<1>a. AdoptShape'
  BY <1>2, <1>3, Kinds DEF PInv, LanOutcomes, AdoptShape, First, Adopted, Opened, Busy
<1> QED BY <1>t, <1>s, <1>k, <1>h, <1>l, <1>d, <1>n, <1>c, <1>a DEF PInv

\* The winner over the LAN cleans up.
LEMMA FinishLAN ==
  ASSUME PInv,
         snd.pc = "finish",
         snd.winner = "lan",
         cleanupLAN,
         snd' = [snd EXCEPT !.pc = "leave"],
         UNCHANGED rcv
  PROVE  PInv'
<1>0. PairTypeOK /\ snd \in Sender
  BY DEF PInv, PairTypeOK
<1>p. \A e \in Conns : conn[e].path = "lan" \/ conn[e].path = "net"
  BY <1>0, PathKinds
<1>r. snd.rkey \in Secrets /\ Code \in Secrets
  BY <1>0, Kinds DEF Sender
<1>q. snd.paired => snd.pc \in After
  BY <1>0 DEF PInv, Sender, SenderShape, After
<1>1. snd.lanConn \in Conns
  BY DEF PInv, SenderShape
<1>5. conn[snd.lanConn].path = "lan" /\ conn[snd.lanConn].s # "none"
  BY DEF PInv, HandedShape
<1>2. /\ snd' \in Sender
      /\ snd'.pc = "leave" /\ snd'.key = snd.key /\ snd'.resumed = snd.resumed /\ snd'.rkey = snd.rkey /\ snd'.resume = snd.resume
      /\ snd'.winner = snd.winner /\ snd'.paired = snd.paired /\ snd'.lan = snd.lan /\ snd'.net = snd.net /\ snd'.lanConn = snd.lanConn
      /\ snd'.netConn = snd.netConn /\ snd'.cur = snd.cur /\ snd'.held = snd.held /\ snd'.cancel = snd.cancel /\ snd'.rounds = snd.rounds
  BY <1>0 DEF Sender
<1>3. /\ conn' \in [Conns -> Conn] /\ ln' \in [Paths -> Listening] /\ rcv' = rcv
      /\ ~ln'["lan"].open /\ ln'["net"] = ln["net"]
      /\ \A c \in Conns : Keeps(c) /\ (c # snd.lanConn => Unlisted(c))
      /\ conn'[snd.lanConn].s = "closed" /\ ~conn'[snd.lanConn].live
  BY <1>0, <1>1, CleanupLANEffect
<1>4. slot' = slot /\ seen' = seen /\ faults' = faults
  BY <1>0, <1>1, CleanupLANEffect
<1>t. PairTypeOK'
  BY <1>0, <1>2, <1>3, <1>4 DEF PairTypeOK, ListenerTypeOK
<1>s. SenderShape'
  BY <1>2, Kinds DEF PInv, SenderShape, After, Winning
<1>k. KeyShape'
  BY <1>2, Kinds DEF PInv, KeyShape, SenderShape, After
<1>h. HeldShape'
  BY <1>2 DEF PInv, HeldShape, SenderShape, Winning
<1>l. SlotShape'
  <2>1. ASSUME NEW k \in Secrets \ seen'.stale, slot'[k].st # "none"
        PROVE  \/ k = snd'.rkey /\ snd'.held /\ slot'[k].st \in {"waiting", "joined"}
               \/ k = Code /\ snd'.resumed /\ slot'[k].st = "consumed" /\ (snd'.resume \/ (snd'.paired /\ snd'.net # "create"))
    <3>1. CASE k = snd.rkey
      BY <2>1, <3>1, <1>q, <1>r, <1>2, <1>4, Kinds DEF PInv, SlotShape, SlotEnds, consumeCode, SenderShape, KeyShape, HeldShape, RefusedOnlyIfLeft, Winning, After
    <3>2. CASE k # snd.rkey
      BY <2>1, <3>2, <1>q, <1>r, <1>2, <1>4, Kinds DEF PInv, SlotShape, SlotEnds, consumeCode, SenderShape, KeyShape, HeldShape, RefusedOnlyIfLeft, Winning, After
    <3> QED BY <3>1, <3>2
  <2>2. snd'.held /\ snd'.rkey \notin seen'.stale => slot'[snd'.rkey].st \in {"waiting", "joined"}
    BY <1>q, <1>r, <1>2, <1>4, Kinds DEF PInv, SlotShape, SlotEnds, consumeCode, SenderShape, KeyShape, HeldShape, RefusedOnlyIfLeft, Winning, After
  <2>3. RefusedOnlyIfLeft' /\ (seen'.owed => snd'.resumed)
    BY <1>q, <1>r, <1>2, <1>4, Kinds DEF PInv, SlotShape, SlotEnds, consumeCode, SenderShape, KeyShape, HeldShape, RefusedOnlyIfLeft, Winning, After
  <2>4. seen'.owed /\ Code \notin seen'.stale => (~snd'.resume /\ snd'.paired /\ snd'.held) \/ slot'[Code].st = "consumed"
    BY <1>q, <1>r, <1>2, <1>4, Kinds DEF PInv, SlotShape, SlotEnds, consumeCode, SenderShape, KeyShape, HeldShape, RefusedOnlyIfLeft, Winning, After
  <2> QED BY <2>1, <2>2, <2>3, <2>4 DEF SlotShape
<1>d. HandedShape'
  BY <1>p, <1>1, <1>5, <1>2, <1>3, Kinds DEF PInv, Unlisted, Keeps, HandedShape, SenderShape, Winning, After
<1>n. ListenShape'
  <2>1. ln'["lan"].open => snd'.lan \in {"accept", "paired"} \/ (snd'.winner = "lan" /\ snd'.pc \in Winning)
    BY <1>1, <1>5, <1>p, <1>2, <1>3, Kinds DEF PInv, Unlisted, Keeps, ListenShape, SenderShape, Winning, After
  <2>2. ln'["net"].open => snd'.net \in {"accept", "paired"} \/ (snd'.winner = "net" /\ snd'.pc \in Winning)
    BY <1>1, <1>5, <1>p, <1>2, <1>3, Kinds DEF PInv, Unlisted, Keeps, ListenShape, SenderShape, Winning, After
  <2>3. \A p \in Paths : ln'[p].open => ln'[p].secret \in {snd'.rkey, snd'.key}
    BY <1>1, <1>5, <1>p, <1>2, <1>3, Kinds DEF PInv, Unlisted, Keeps, ListenShape, SenderShape, Winning, After
  <2>4. ASSUME NEW c \in Conns
        PROVE  /\ conn'[c].s = "none" => conn'[c].dev = Nobody /\ conn'[c].r = "none" /\ ~conn'[c].live
               /\ conn'[c].s # "none" => conn'[c].dev \in Devices
               /\ conn'[c].live => ln'[conn'[c].path].open
               /\ conn'[c].live /\ conn'[c].s \in {"handshake", "ready"} => conn'[c].use \in {snd'.rkey, snd'.key}
               /\ conn'[c].s \in {"ready", "handed"} => conn'[c].use = conn'[c].want
    <3>1. CASE conn[c].path = "lan"
      BY <3>1, <1>1, <1>5, <1>p, <1>2, <1>3, Kinds DEF PInv, Unlisted, Keeps, ListenShape, SenderShape, Winning, After
    <3>2. CASE conn[c].path = "net"
      BY <3>2, <1>1, <1>5, <1>p, <1>2, <1>3, Kinds DEF PInv, Unlisted, Keeps, ListenShape, SenderShape, Winning, After
    <3> QED BY <3>1, <3>2, <1>p
  <2> QED BY <2>1, <2>2, <2>3, <2>4 DEF ListenShape
<1>c. SecretShape'
  BY <1>1, <1>5, <1>2, <1>3, <1>4, Kinds DEF PInv, Unlisted, Keeps, SecretShape, SenderShape, KeyShape, ReturnsToFirst, Busy
<1>a. AdoptShape'
  BY <1>1, <1>5, <1>2, <1>3, Kinds DEF PInv, Unlisted, Keeps, AdoptShape, First, Adopted, Opened, Busy
<1> QED BY <1>t, <1>s, <1>k, <1>h, <1>l, <1>d, <1>n, <1>c, <1>a DEF PInv

\* A connection of the internet that came too late is released, and its session ended, ...
LEMMA LateNet ==
  ASSUME PInv,
         snd.net = "paired",
         snd.pc \in {"drain", "xfer", "reaccept", "finish", "leave"},
         tearDown(conn),
         endSession(snd),
         snd' = [snd EXCEPT !.net = "done", !.held = FALSE],
         UNCHANGED rcv
  PROVE  PInv'
<1>0. PairTypeOK /\ snd \in Sender
  BY DEF PInv, PairTypeOK
<1>p. \A e \in Conns : conn[e].path = "lan" \/ conn[e].path = "net"
  BY <1>0, PathKinds
<1>r. snd.rkey \in Secrets /\ Code \in Secrets
  BY <1>0, Kinds DEF Sender
<1>q. snd.paired => snd.pc \in After
  BY <1>0 DEF PInv, Sender, SenderShape, After
<1>1. snd.netConn \in Conns
  BY DEF PInv, SenderShape
<1>5. conn[snd.netConn].path = "net" /\ conn[snd.netConn].s # "none"
  BY DEF PInv, HandedShape
<1>2. /\ snd' \in Sender
      /\ snd'.pc = snd.pc /\ snd'.key = snd.key /\ snd'.resumed = snd.resumed /\ snd'.rkey = snd.rkey /\ snd'.resume = snd.resume
      /\ snd'.winner = snd.winner /\ snd'.paired = snd.paired /\ snd'.lan = snd.lan /\ snd'.net = "done" /\ snd'.lanConn = snd.lanConn
      /\ snd'.netConn = snd.netConn /\ snd'.cur = snd.cur /\ snd'.held = FALSE /\ snd'.cancel = snd.cancel /\ snd'.rounds = snd.rounds
  BY <1>0 DEF Sender
<1>3. /\ conn' \in [Conns -> Conn] /\ ln' \in [Paths -> Listening] /\ rcv' = rcv
      /\ ~ln'["net"].open /\ ln'["lan"] = ln["lan"] /\ \A c \in Conns : SameOrShut(c)
      /\ \A c \in Conns : conn[c].path = "net" => ~conn'[c].live /\ (conn[c].live => conn'[c].s = "closed")
      /\ \A c \in Conns : conn[c].path # "net" \/ ~conn[c].live => conn'[c] = conn[c]
  BY <1>0, TearDownEffect
<1>4. /\ slot' \in [Secrets -> Slot] /\ faults' \in 0..MaxFaults
      /\ seen' \in [first : Devices \cup {Nobody}, owed : BOOLEAN, stale : SUBSET Secrets]
      /\ seen'.first = seen.first /\ seen'.owed = seen.owed
      /\ \A k \in Secrets : k # snd.rkey => slot'[k] = slot[k] /\ (k \in seen'.stale <=> k \in seen.stale)
      /\ seen.stale \subseteq seen'.stale
      /\ ~snd.held => slot' = slot /\ seen' = seen
      /\ snd.held => snd.rkey \in seen'.stale \/ (seen' = seen /\ SlotEnds(snd.rkey, consumeCode(snd)))
  BY <1>0, EndSessionEffect
<1>t. PairTypeOK'
  BY <1>0, <1>2, <1>3, <1>4 DEF PairTypeOK, ListenerTypeOK
<1>s. SenderShape'
  BY <1>2, Kinds DEF PInv, SenderShape, After, Winning
<1>k. KeyShape'
  BY <1>2, Kinds DEF PInv, KeyShape, SenderShape, After
<1>h. HeldShape'
  BY <1>2 DEF PInv, HeldShape, SenderShape, Winning
<1>l. SlotShape'
  <2>1. ASSUME NEW k \in Secrets \ seen'.stale, slot'[k].st # "none"
        PROVE  \/ k = snd'.rkey /\ snd'.held /\ slot'[k].st \in {"waiting", "joined"}
               \/ k = Code /\ snd'.resumed /\ slot'[k].st = "consumed" /\ (snd'.resume \/ (snd'.paired /\ snd'.net # "create"))
    <3>1. CASE k = snd.rkey
      BY <2>1, <3>1, <1>q, <1>r, <1>2, <1>4, Kinds DEF PInv, SlotShape, SlotEnds, consumeCode, SenderShape, KeyShape, HeldShape, RefusedOnlyIfLeft, Winning, After
    <3>2. CASE k # snd.rkey
      BY <2>1, <3>2, <1>q, <1>r, <1>2, <1>4, Kinds DEF PInv, SlotShape, SlotEnds, consumeCode, SenderShape, KeyShape, HeldShape, RefusedOnlyIfLeft, Winning, After
    <3> QED BY <3>1, <3>2
  <2>2. snd'.held /\ snd'.rkey \notin seen'.stale => slot'[snd'.rkey].st \in {"waiting", "joined"}
    BY <1>q, <1>r, <1>2, <1>4, Kinds DEF PInv, SlotShape, SlotEnds, consumeCode, SenderShape, KeyShape, HeldShape, RefusedOnlyIfLeft, Winning, After
  <2>3. RefusedOnlyIfLeft' /\ (seen'.owed => snd'.resumed)
    BY <1>q, <1>r, <1>2, <1>4, Kinds DEF PInv, SlotShape, SlotEnds, consumeCode, SenderShape, KeyShape, HeldShape, RefusedOnlyIfLeft, Winning, After
  <2>4. seen'.owed /\ Code \notin seen'.stale => (~snd'.resume /\ snd'.paired /\ snd'.held) \/ slot'[Code].st = "consumed"
    BY <1>q, <1>r, <1>2, <1>4, Kinds DEF PInv, SlotShape, SlotEnds, consumeCode, SenderShape, KeyShape, HeldShape, RefusedOnlyIfLeft, Winning, After
  <2> QED BY <2>1, <2>2, <2>3, <2>4 DEF SlotShape
<1>d. HandedShape'
  BY <1>p, <1>1, <1>5, <1>2, <1>3, Kinds DEF PInv, SameOrShut, Keeps, HandedShape, SenderShape, Winning, After
<1>n. ListenShape'
  <2>1. ln'["lan"].open => snd'.lan \in {"accept", "paired"} \/ (snd'.winner = "lan" /\ snd'.pc \in Winning)
    BY <1>p, <1>2, <1>3, Kinds DEF PInv, SameOrShut, Keeps, ListenShape, SenderShape, Winning, After
  <2>2. ln'["net"].open => snd'.net \in {"accept", "paired"} \/ (snd'.winner = "net" /\ snd'.pc \in Winning)
    BY <1>p, <1>2, <1>3, Kinds DEF PInv, SameOrShut, Keeps, ListenShape, SenderShape, Winning, After
  <2>3. \A p \in Paths : ln'[p].open => ln'[p].secret \in {snd'.rkey, snd'.key}
    BY <1>p, <1>2, <1>3, Kinds DEF PInv, SameOrShut, Keeps, ListenShape, SenderShape, Winning, After
  <2>4. ASSUME NEW c \in Conns
        PROVE  /\ conn'[c].s = "none" => conn'[c].dev = Nobody /\ conn'[c].r = "none" /\ ~conn'[c].live
               /\ conn'[c].s # "none" => conn'[c].dev \in Devices
               /\ conn'[c].live => ln'[conn'[c].path].open
               /\ conn'[c].live /\ conn'[c].s \in {"handshake", "ready"} => conn'[c].use \in {snd'.rkey, snd'.key}
               /\ conn'[c].s \in {"ready", "handed"} => conn'[c].use = conn'[c].want
    <3>1. CASE conn[c].path = "lan"
      BY <3>1, <1>p, <1>2, <1>3, Kinds DEF PInv, SameOrShut, Keeps, ListenShape, SenderShape, Winning, After
    <3>2. CASE conn[c].path = "net"
      <4>1. /\ SameOrShut(c) /\ ~conn'[c].live
            /\ conn[c].live => conn'[c].s = "closed"
        BY <1>3, <3>2
      <4>2. /\ conn[c].s = "none" => conn[c].dev = Nobody /\ conn[c].r = "none" /\ ~conn[c].live
            /\ conn[c].s # "none" => conn[c].dev \in Devices
            /\ conn[c].s \in {"ready", "handed"} => conn[c].use = conn[c].want
        BY DEF PInv, ListenShape
      <4>3. conn[c].s = "none" => conn'[c].s = "none"
        BY <1>3, <3>2, <4>1, <4>2 DEF SameOrShut
      <4> QED BY <4>1, <4>2, <4>3 DEF SameOrShut, Keeps
    <3> QED BY <3>1, <3>2, <1>p
  <2> QED BY <2>1, <2>2, <2>3, <2>4 DEF ListenShape
<1>c. SecretShape'
  BY <1>p, <1>1, <1>5, <1>2, <1>3, <1>4, Kinds DEF PInv, SameOrShut, Keeps, SecretShape, SenderShape, KeyShape, ReturnsToFirst, Busy
<1>a. AdoptShape'
  BY <1>p, <1>1, <1>5, <1>2, <1>3, Kinds DEF PInv, SameOrShut, Keeps, AdoptShape, First, Adopted, Opened, Busy
<1> QED BY <1>t, <1>s, <1>k, <1>h, <1>l, <1>d, <1>n, <1>c, <1>a DEF PInv

\* ... another outcome is only collected.
LEMMA GoneNet ==
  ASSUME PInv,
         snd.net \in NetOutcomes,
         snd.net # "paired",
         UNCHANGED <<conn, ln>>,
         UnchangedServer,
         snd' = [snd EXCEPT !.net = "done", !.held = FALSE],
         UNCHANGED rcv
  PROVE  PInv'
<1>0. PairTypeOK /\ snd \in Sender
  BY DEF PInv, PairTypeOK
<1>p. \A e \in Conns : conn[e].path = "lan" \/ conn[e].path = "net"
  BY <1>0, PathKinds
<1>r. snd.rkey \in Secrets /\ Code \in Secrets
  BY <1>0, Kinds DEF Sender
<1>q. snd.paired => snd.pc \in After
  BY <1>0 DEF PInv, Sender, SenderShape, After
<1>2. /\ snd' \in Sender
      /\ snd'.pc = snd.pc /\ snd'.key = snd.key /\ snd'.resumed = snd.resumed /\ snd'.rkey = snd.rkey /\ snd'.resume = snd.resume
      /\ snd'.winner = snd.winner /\ snd'.paired = snd.paired /\ snd'.lan = snd.lan /\ snd'.net = "done" /\ snd'.lanConn = snd.lanConn
      /\ snd'.netConn = snd.netConn /\ snd'.cur = snd.cur /\ snd'.held = FALSE /\ snd'.cancel = snd.cancel /\ snd'.rounds = snd.rounds
  BY <1>0 DEF Sender
<1>3. conn' = conn /\ rcv' = rcv /\ ln' = ln
  OBVIOUS
<1>4. slot' = slot /\ seen' = seen /\ faults' = faults
  BY DEF UnchangedServer
<1>t. PairTypeOK'
  BY <1>0, <1>2, <1>3, <1>4 DEF PairTypeOK, ListenerTypeOK
<1>s. SenderShape'
  BY <1>2, Kinds DEF PInv, NetOutcomes, SenderShape, After, Winning
<1>k. KeyShape'
  BY <1>2, Kinds DEF PInv, NetOutcomes, KeyShape, SenderShape, After
<1>h. HeldShape'
  BY <1>2 DEF PInv, NetOutcomes, HeldShape, SenderShape, Winning
<1>l. SlotShape'
  <2>1. ASSUME NEW k \in Secrets \ seen'.stale, slot'[k].st # "none"
        PROVE  \/ k = snd'.rkey /\ snd'.held /\ slot'[k].st \in {"waiting", "joined"}
               \/ k = Code /\ snd'.resumed /\ slot'[k].st = "consumed" /\ (snd'.resume \/ (snd'.paired /\ snd'.net # "create"))
    <3>1. CASE k = snd.rkey
      BY <2>1, <3>1, <1>q, <1>r, <1>2, <1>4, Kinds DEF PInv, NetOutcomes, SlotShape, SlotEnds, consumeCode, SenderShape, KeyShape, HeldShape, RefusedOnlyIfLeft, Winning, After
    <3>2. CASE k # snd.rkey
      BY <2>1, <3>2, <1>q, <1>r, <1>2, <1>4, Kinds DEF PInv, NetOutcomes, SlotShape, SlotEnds, consumeCode, SenderShape, KeyShape, HeldShape, RefusedOnlyIfLeft, Winning, After
    <3> QED BY <3>1, <3>2
  <2>2. snd'.held /\ snd'.rkey \notin seen'.stale => slot'[snd'.rkey].st \in {"waiting", "joined"}
    BY <1>q, <1>r, <1>2, <1>4, Kinds DEF PInv, NetOutcomes, SlotShape, SlotEnds, consumeCode, SenderShape, KeyShape, HeldShape, RefusedOnlyIfLeft, Winning, After
  <2>3. RefusedOnlyIfLeft' /\ (seen'.owed => snd'.resumed)
    BY <1>q, <1>r, <1>2, <1>4, Kinds DEF PInv, NetOutcomes, SlotShape, SlotEnds, consumeCode, SenderShape, KeyShape, HeldShape, RefusedOnlyIfLeft, Winning, After
  <2>4. seen'.owed /\ Code \notin seen'.stale => (~snd'.resume /\ snd'.paired /\ snd'.held) \/ slot'[Code].st = "consumed"
    BY <1>q, <1>r, <1>2, <1>4, Kinds DEF PInv, NetOutcomes, SlotShape, SlotEnds, consumeCode, SenderShape, KeyShape, HeldShape, RefusedOnlyIfLeft, Winning, After
  <2> QED BY <2>1, <2>2, <2>3, <2>4 DEF SlotShape
<1>d. HandedShape'
  BY <1>2, <1>3, Kinds DEF PInv, NetOutcomes, HandedShape, SenderShape, Winning, After
<1>n. ListenShape'
  BY <1>p, <1>2, <1>3, Kinds DEF PInv, NetOutcomes, ListenShape, SenderShape, Winning, After
<1>c. SecretShape'
  BY <1>2, <1>3, <1>4, Kinds DEF PInv, NetOutcomes, SecretShape, SenderShape, KeyShape, ReturnsToFirst, Busy
<1>a. AdoptShape'
  BY <1>2, <1>3, Kinds DEF PInv, NetOutcomes, AdoptShape, First, Adopted, Opened, Busy
<1> QED BY <1>t, <1>s, <1>k, <1>h, <1>l, <1>d, <1>n, <1>c, <1>a DEF PInv

\* The winner over the internet cleans up.
LEMMA FinishNet ==
  ASSUME PInv,
         snd.pc = "finish",
         snd.winner = "net",
         tearDown(conn),
         endSession(snd),
         snd' = [snd EXCEPT !.pc = "leave", !.held = FALSE],
         UNCHANGED rcv
  PROVE  PInv'
<1>0. PairTypeOK /\ snd \in Sender
  BY DEF PInv, PairTypeOK
<1>p. \A e \in Conns : conn[e].path = "lan" \/ conn[e].path = "net"
  BY <1>0, PathKinds
<1>r. snd.rkey \in Secrets /\ Code \in Secrets
  BY <1>0, Kinds DEF Sender
<1>q. snd.paired => snd.pc \in After
  BY <1>0 DEF PInv, Sender, SenderShape, After
<1>1. snd.netConn \in Conns
  BY DEF PInv, SenderShape
<1>5. conn[snd.netConn].path = "net" /\ conn[snd.netConn].s # "none"
  BY DEF PInv, HandedShape
<1>2. /\ snd' \in Sender
      /\ snd'.pc = "leave" /\ snd'.key = snd.key /\ snd'.resumed = snd.resumed /\ snd'.rkey = snd.rkey /\ snd'.resume = snd.resume
      /\ snd'.winner = snd.winner /\ snd'.paired = snd.paired /\ snd'.lan = snd.lan /\ snd'.net = snd.net /\ snd'.lanConn = snd.lanConn
      /\ snd'.netConn = snd.netConn /\ snd'.cur = snd.cur /\ snd'.held = FALSE /\ snd'.cancel = snd.cancel /\ snd'.rounds = snd.rounds
  BY <1>0 DEF Sender
<1>3. /\ conn' \in [Conns -> Conn] /\ ln' \in [Paths -> Listening] /\ rcv' = rcv
      /\ ~ln'["net"].open /\ ln'["lan"] = ln["lan"] /\ \A c \in Conns : SameOrShut(c)
      /\ \A c \in Conns : conn[c].path = "net" => ~conn'[c].live /\ (conn[c].live => conn'[c].s = "closed")
      /\ \A c \in Conns : conn[c].path # "net" \/ ~conn[c].live => conn'[c] = conn[c]
  BY <1>0, TearDownEffect
<1>4. /\ slot' \in [Secrets -> Slot] /\ faults' \in 0..MaxFaults
      /\ seen' \in [first : Devices \cup {Nobody}, owed : BOOLEAN, stale : SUBSET Secrets]
      /\ seen'.first = seen.first /\ seen'.owed = seen.owed
      /\ \A k \in Secrets : k # snd.rkey => slot'[k] = slot[k] /\ (k \in seen'.stale <=> k \in seen.stale)
      /\ seen.stale \subseteq seen'.stale
      /\ ~snd.held => slot' = slot /\ seen' = seen
      /\ snd.held => snd.rkey \in seen'.stale \/ (seen' = seen /\ SlotEnds(snd.rkey, consumeCode(snd)))
  BY <1>0, EndSessionEffect
<1>t. PairTypeOK'
  BY <1>0, <1>2, <1>3, <1>4 DEF PairTypeOK, ListenerTypeOK
<1>s. SenderShape'
  BY <1>2, Kinds DEF PInv, SenderShape, After, Winning
<1>k. KeyShape'
  BY <1>2, Kinds DEF PInv, KeyShape, SenderShape, After
<1>h. HeldShape'
  BY <1>2 DEF PInv, HeldShape, SenderShape, Winning
<1>l. SlotShape'
  <2>1. ASSUME NEW k \in Secrets \ seen'.stale, slot'[k].st # "none"
        PROVE  \/ k = snd'.rkey /\ snd'.held /\ slot'[k].st \in {"waiting", "joined"}
               \/ k = Code /\ snd'.resumed /\ slot'[k].st = "consumed" /\ (snd'.resume \/ (snd'.paired /\ snd'.net # "create"))
    <3>1. CASE k = snd.rkey
      BY <2>1, <3>1, <1>q, <1>r, <1>2, <1>4, Kinds DEF PInv, SlotShape, SlotEnds, consumeCode, SenderShape, KeyShape, HeldShape, RefusedOnlyIfLeft, Winning, After
    <3>2. CASE k # snd.rkey
      BY <2>1, <3>2, <1>q, <1>r, <1>2, <1>4, Kinds DEF PInv, SlotShape, SlotEnds, consumeCode, SenderShape, KeyShape, HeldShape, RefusedOnlyIfLeft, Winning, After
    <3> QED BY <3>1, <3>2
  <2>2. snd'.held /\ snd'.rkey \notin seen'.stale => slot'[snd'.rkey].st \in {"waiting", "joined"}
    BY <1>q, <1>r, <1>2, <1>4, Kinds DEF PInv, SlotShape, SlotEnds, consumeCode, SenderShape, KeyShape, HeldShape, RefusedOnlyIfLeft, Winning, After
  <2>3. RefusedOnlyIfLeft' /\ (seen'.owed => snd'.resumed)
    BY <1>q, <1>r, <1>2, <1>4, Kinds DEF PInv, SlotShape, SlotEnds, consumeCode, SenderShape, KeyShape, HeldShape, RefusedOnlyIfLeft, Winning, After
  <2>4. seen'.owed /\ Code \notin seen'.stale => (~snd'.resume /\ snd'.paired /\ snd'.held) \/ slot'[Code].st = "consumed"
    BY <1>q, <1>r, <1>2, <1>4, Kinds DEF PInv, SlotShape, SlotEnds, consumeCode, SenderShape, KeyShape, HeldShape, RefusedOnlyIfLeft, Winning, After
  <2> QED BY <2>1, <2>2, <2>3, <2>4 DEF SlotShape
<1>d. HandedShape'
  BY <1>p, <1>1, <1>5, <1>2, <1>3, Kinds DEF PInv, SameOrShut, Keeps, HandedShape, SenderShape, Winning, After
<1>n. ListenShape'
  <2>1. ln'["lan"].open => snd'.lan \in {"accept", "paired"} \/ (snd'.winner = "lan" /\ snd'.pc \in Winning)
    BY <1>p, <1>2, <1>3, Kinds DEF PInv, SameOrShut, Keeps, ListenShape, SenderShape, Winning, After
  <2>2. ln'["net"].open => snd'.net \in {"accept", "paired"} \/ (snd'.winner = "net" /\ snd'.pc \in Winning)
    BY <1>p, <1>2, <1>3, Kinds DEF PInv, SameOrShut, Keeps, ListenShape, SenderShape, Winning, After
  <2>3. \A p \in Paths : ln'[p].open => ln'[p].secret \in {snd'.rkey, snd'.key}
    BY <1>p, <1>2, <1>3, Kinds DEF PInv, SameOrShut, Keeps, ListenShape, SenderShape, Winning, After
  <2>4. ASSUME NEW c \in Conns
        PROVE  /\ conn'[c].s = "none" => conn'[c].dev = Nobody /\ conn'[c].r = "none" /\ ~conn'[c].live
               /\ conn'[c].s # "none" => conn'[c].dev \in Devices
               /\ conn'[c].live => ln'[conn'[c].path].open
               /\ conn'[c].live /\ conn'[c].s \in {"handshake", "ready"} => conn'[c].use \in {snd'.rkey, snd'.key}
               /\ conn'[c].s \in {"ready", "handed"} => conn'[c].use = conn'[c].want
    <3>1. CASE conn[c].path = "lan"
      BY <3>1, <1>p, <1>2, <1>3, Kinds DEF PInv, SameOrShut, Keeps, ListenShape, SenderShape, Winning, After
    <3>2. CASE conn[c].path = "net"
      <4>1. /\ SameOrShut(c) /\ ~conn'[c].live
            /\ conn[c].live => conn'[c].s = "closed"
        BY <1>3, <3>2
      <4>2. /\ conn[c].s = "none" => conn[c].dev = Nobody /\ conn[c].r = "none" /\ ~conn[c].live
            /\ conn[c].s # "none" => conn[c].dev \in Devices
            /\ conn[c].s \in {"ready", "handed"} => conn[c].use = conn[c].want
        BY DEF PInv, ListenShape
      <4>3. conn[c].s = "none" => conn'[c].s = "none"
        BY <1>3, <3>2, <4>1, <4>2 DEF SameOrShut
      <4> QED BY <4>1, <4>2, <4>3 DEF SameOrShut, Keeps
    <3> QED BY <3>1, <3>2, <1>p
  <2> QED BY <2>1, <2>2, <2>3, <2>4 DEF ListenShape
<1>c. SecretShape'
  BY <1>p, <1>1, <1>5, <1>2, <1>3, <1>4, Kinds DEF PInv, SameOrShut, Keeps, SecretShape, SenderShape, KeyShape, ReturnsToFirst, Busy
<1>a. AdoptShape'
  BY <1>p, <1>1, <1>5, <1>2, <1>3, Kinds DEF PInv, SameOrShut, Keeps, AdoptShape, First, Adopted, Opened, Busy
<1> QED BY <1>t, <1>s, <1>k, <1>h, <1>l, <1>d, <1>n, <1>c, <1>a DEF PInv

\* The LAN's outcome is collected.
LEMMA DrainLAN ==
  ASSUME PInv, drainLAN, snd.pc \in {"drain", "xfer", "reaccept", "finish", "leave"}, UNCHANGED rcv
  PROVE  PInv'
  BY LateLAN, GoneLAN DEF drainLAN

\* The internet's outcome is collected.
LEMMA DrainNet ==
  ASSUME PInv, drainNet, snd.pc \in {"drain", "xfer", "reaccept", "finish", "leave"}, UNCHANGED rcv
  PROVE  PInv'
  BY LateNet, GoneNet DEF drainNet, cleanupNet

\* An aborted round waits for both.
LEMMA DrainBoth ==
  ASSUME PInv, drainBoth
  PROVE  PInv'
<1>1. snd.pc = "drain" /\ UNCHANGED rcv
  BY DEF drainBoth
<1>2. CASE drainLAN
  BY <1>1, <1>2, DrainLAN
<1>3. CASE drainNet
  BY <1>1, <1>3, DrainNet
<1>4. CASE snd.lan = "done" /\ snd.net = "done" /\ snd' = Left(snd) /\ UNCHANGED <<conn, ln>> /\ UnchangedServer
  <2>1. UnchangedNet
    BY <1>1, <1>4 DEF UnchangedNet
  <2> QED BY <1>1, <1>4, <2>1, RoundQuiet, LeavesStep
<1> QED BY <1>2, <1>3, <1>4 DEF drainBoth

\* The loser is drained beside the transfer.
LEMMA DrainLoser ==
  ASSUME PInv, drainLoser
  PROVE  PInv'
  BY DrainLAN, DrainNet DEF drainLoser

\* The winner's cleanup.
LEMMA Finish ==
  ASSUME PInv, finish
  PROVE  PInv'
<1>0. snd \in Sender /\ snd.winner \in Paths /\ snd.pc = "finish" /\ UNCHANGED rcv
  BY DEF PInv, PairTypeOK, SenderShape, After, finish
<1>1. CASE snd.winner = "lan"
  <2>1. cleanupLAN /\ snd' = [snd EXCEPT !.pc = "leave", !.held = snd.held]
    BY <1>1 DEF finish
  <2>2. snd' = [snd EXCEPT !.pc = "leave"]
    BY <1>0, <2>1 DEF Sender
  <2> QED BY <1>0, <1>1, <2>1, <2>2, FinishLAN
<1>2. CASE snd.winner = "net"
  BY <1>0, <1>2, FinishNet DEF finish, cleanupNet
<1> QED BY <1>0, <1>1, <1>2, Kinds

\* One attempt of the transfer is over: the next one re-accepts, or the round finishes.
AttemptOver ==
    /\ snd' \in Sender /\ snd'.pc \in {"finish", "reaccept"}
    /\ snd'.key = snd.key /\ snd'.resumed = snd.resumed /\ snd'.rkey = snd.rkey /\ snd'.resume = snd.resume /\ snd'.winner = snd.winner
    /\ snd'.paired = snd.paired /\ snd'.lan = snd.lan /\ snd'.net = snd.net /\ snd'.lanConn = snd.lanConn /\ snd'.netConn = snd.netConn
    /\ snd'.held = snd.held /\ snd'.cancel = snd.cancel /\ snd'.rounds = snd.rounds

\* The connection of an attempt that is over is closed.
LEMMA AttemptCloses ==
  ASSUME PInv,
         snd.pc = "xfer",
         AttemptOver,
         conn' = ConnClosed(conn, snd.cur),
         UNCHANGED <<ln, rcv, slot, seen>>,
         faults' \in 0..MaxFaults
  PROVE  PInv'
<1>0. PairTypeOK /\ snd \in Sender
  BY DEF PInv, PairTypeOK
<1>p. \A e \in Conns : conn[e].path = "lan" \/ conn[e].path = "net"
  BY <1>0, PathKinds
<1>r. snd.rkey \in Secrets /\ Code \in Secrets
  BY <1>0, Kinds DEF Sender
<1>q. snd.paired => snd.pc \in After
  BY <1>0 DEF PInv, Sender, SenderShape, After
<1>1. snd.cur \in Conns /\ conn[snd.cur].s # "none" /\ conn[snd.cur].path = snd.winner
  BY DEF PInv, SenderShape, HandedShape
<1>2. AttemptOver
  OBVIOUS
<1>3. /\ conn' \in [Conns -> Conn] /\ \A c \in Conns : SameOrShut(c)
      /\ conn'[snd.cur].s = "closed" /\ \A c \in Conns : c # snd.cur => conn'[c] = conn[c]
      /\ ln' = ln /\ rcv' = rcv
  BY <1>0, <1>1, ConnClosedEffect
<1>4. slot' = slot /\ seen' = seen /\ faults' \in 0..MaxFaults
  OBVIOUS
<1>t. PairTypeOK'
  BY <1>0, <1>2, <1>3, <1>4 DEF AttemptOver, PairTypeOK, ListenerTypeOK
<1>s. SenderShape'
  BY <1>2, Kinds DEF PInv, AttemptOver, SenderShape, After, Winning
<1>k. KeyShape'
  BY <1>2, Kinds DEF PInv, AttemptOver, KeyShape, SenderShape, After
<1>h. HeldShape'
  BY <1>2 DEF PInv, AttemptOver, HeldShape, SenderShape, Winning
<1>l. SlotShape'
  <2>1. ASSUME NEW k \in Secrets \ seen'.stale, slot'[k].st # "none"
        PROVE  \/ k = snd'.rkey /\ snd'.held /\ slot'[k].st \in {"waiting", "joined"}
               \/ k = Code /\ snd'.resumed /\ slot'[k].st = "consumed" /\ (snd'.resume \/ (snd'.paired /\ snd'.net # "create"))
    <3>1. CASE k = snd.rkey
      BY <2>1, <3>1, <1>q, <1>r, <1>2, <1>4, Kinds DEF PInv, AttemptOver, SlotShape, SlotEnds, consumeCode, SenderShape, KeyShape, HeldShape, RefusedOnlyIfLeft, Winning, After
    <3>2. CASE k # snd.rkey
      BY <2>1, <3>2, <1>q, <1>r, <1>2, <1>4, Kinds DEF PInv, AttemptOver, SlotShape, SlotEnds, consumeCode, SenderShape, KeyShape, HeldShape, RefusedOnlyIfLeft, Winning, After
    <3> QED BY <3>1, <3>2
  <2>2. snd'.held /\ snd'.rkey \notin seen'.stale => slot'[snd'.rkey].st \in {"waiting", "joined"}
    BY <1>q, <1>r, <1>2, <1>4, Kinds DEF PInv, AttemptOver, SlotShape, SlotEnds, consumeCode, SenderShape, KeyShape, HeldShape, RefusedOnlyIfLeft, Winning, After
  <2>3. RefusedOnlyIfLeft' /\ (seen'.owed => snd'.resumed)
    BY <1>q, <1>r, <1>2, <1>4, Kinds DEF PInv, AttemptOver, SlotShape, SlotEnds, consumeCode, SenderShape, KeyShape, HeldShape, RefusedOnlyIfLeft, Winning, After
  <2>4. seen'.owed /\ Code \notin seen'.stale => (~snd'.resume /\ snd'.paired /\ snd'.held) \/ slot'[Code].st = "consumed"
    BY <1>q, <1>r, <1>2, <1>4, Kinds DEF PInv, AttemptOver, SlotShape, SlotEnds, consumeCode, SenderShape, KeyShape, HeldShape, RefusedOnlyIfLeft, Winning, After
  <2> QED BY <2>1, <2>2, <2>3, <2>4 DEF SlotShape
<1>d. HandedShape'
  BY <1>p, <1>1, <1>2, <1>3, Kinds DEF PInv, AttemptOver, SameOrShut, Keeps, HandedShape, SenderShape, Winning, After
<1>n. ListenShape'
  <2>1. ln'["lan"].open => snd'.lan \in {"accept", "paired"} \/ (snd'.winner = "lan" /\ snd'.pc \in Winning)
    BY <1>1, <1>p, <1>2, <1>3, Kinds DEF PInv, AttemptOver, SameOrShut, Keeps, ListenShape, SenderShape, Winning, After
  <2>2. ln'["net"].open => snd'.net \in {"accept", "paired"} \/ (snd'.winner = "net" /\ snd'.pc \in Winning)
    BY <1>1, <1>p, <1>2, <1>3, Kinds DEF PInv, AttemptOver, SameOrShut, Keeps, ListenShape, SenderShape, Winning, After
  <2>3. \A p \in Paths : ln'[p].open => ln'[p].secret \in {snd'.rkey, snd'.key}
    BY <1>1, <1>p, <1>2, <1>3, Kinds DEF PInv, AttemptOver, SameOrShut, Keeps, ListenShape, SenderShape, Winning, After
  <2>4. ASSUME NEW c \in Conns
        PROVE  /\ conn'[c].s = "none" => conn'[c].dev = Nobody /\ conn'[c].r = "none" /\ ~conn'[c].live
               /\ conn'[c].s # "none" => conn'[c].dev \in Devices
               /\ conn'[c].live => ln'[conn'[c].path].open
               /\ conn'[c].live /\ conn'[c].s \in {"handshake", "ready"} => conn'[c].use \in {snd'.rkey, snd'.key}
               /\ conn'[c].s \in {"ready", "handed"} => conn'[c].use = conn'[c].want
    <3>1. CASE conn[c].path = "lan"
      BY <3>1, <1>1, <1>p, <1>2, <1>3, Kinds DEF PInv, AttemptOver, SameOrShut, Keeps, ListenShape, SenderShape, Winning, After
    <3>2. CASE conn[c].path = "net"
      BY <3>2, <1>1, <1>p, <1>2, <1>3, Kinds DEF PInv, AttemptOver, SameOrShut, Keeps, ListenShape, SenderShape, Winning, After
    <3> QED BY <3>1, <3>2, <1>p
  <2> QED BY <2>1, <2>2, <2>3, <2>4 DEF ListenShape
<1>c. SecretShape'
  BY <1>p, <1>1, <1>2, <1>3, <1>4, Kinds DEF PInv, AttemptOver, SameOrShut, Keeps, SecretShape, SenderShape, KeyShape, ReturnsToFirst, Busy
<1>a. AdoptShape'
  BY <1>p, <1>1, <1>2, <1>3, Kinds DEF PInv, AttemptOver, SameOrShut, Keeps, AdoptShape, First, Adopted, Opened, Busy
<1> QED BY <1>t, <1>s, <1>k, <1>h, <1>l, <1>d, <1>n, <1>c, <1>a DEF PInv

\* A re-accept that brought no connection ends the attempt.
LEMMA AttemptEnds ==
  ASSUME PInv,
         snd.pc = "reaccept",
         AttemptOver,
         conn' = conn,
         ln' \in [Paths -> Listening],
         SameListener("lan"),
         SameListener("net"),
         UNCHANGED <<rcv, slot, seen, faults>>
  PROVE  PInv'
<1>0. PairTypeOK /\ snd \in Sender
  BY DEF PInv, PairTypeOK
<1>p. \A e \in Conns : conn[e].path = "lan" \/ conn[e].path = "net"
  BY <1>0, PathKinds
<1>r. snd.rkey \in Secrets /\ Code \in Secrets
  BY <1>0, Kinds DEF Sender
<1>q. snd.paired => snd.pc \in After
  BY <1>0 DEF PInv, Sender, SenderShape, After
<1>2. AttemptOver
  OBVIOUS
<1>3. conn' = conn /\ rcv' = rcv /\ ln' \in [Paths -> Listening]
  OBVIOUS
<1>4. slot' = slot /\ seen' = seen /\ faults' = faults
  OBVIOUS
<1>t. PairTypeOK'
  BY <1>0, <1>2, <1>3, <1>4 DEF AttemptOver, PairTypeOK, ListenerTypeOK
<1>s. SenderShape'
  BY <1>2, Kinds DEF PInv, AttemptOver, SenderShape, After, Winning
<1>k. KeyShape'
  BY <1>2, Kinds DEF PInv, AttemptOver, KeyShape, SenderShape, After
<1>h. HeldShape'
  BY <1>2 DEF PInv, AttemptOver, HeldShape, SenderShape, Winning
<1>l. SlotShape'
  <2>1. ASSUME NEW k \in Secrets \ seen'.stale, slot'[k].st # "none"
        PROVE  \/ k = snd'.rkey /\ snd'.held /\ slot'[k].st \in {"waiting", "joined"}
               \/ k = Code /\ snd'.resumed /\ slot'[k].st = "consumed" /\ (snd'.resume \/ (snd'.paired /\ snd'.net # "create"))
    <3>1. CASE k = snd.rkey
      BY <2>1, <3>1, <1>q, <1>r, <1>2, <1>4, Kinds DEF PInv, AttemptOver, SlotShape, SlotEnds, consumeCode, SenderShape, KeyShape, HeldShape, RefusedOnlyIfLeft, Winning, After
    <3>2. CASE k # snd.rkey
      BY <2>1, <3>2, <1>q, <1>r, <1>2, <1>4, Kinds DEF PInv, AttemptOver, SlotShape, SlotEnds, consumeCode, SenderShape, KeyShape, HeldShape, RefusedOnlyIfLeft, Winning, After
    <3> QED BY <3>1, <3>2
  <2>2. snd'.held /\ snd'.rkey \notin seen'.stale => slot'[snd'.rkey].st \in {"waiting", "joined"}
    BY <1>q, <1>r, <1>2, <1>4, Kinds DEF PInv, AttemptOver, SlotShape, SlotEnds, consumeCode, SenderShape, KeyShape, HeldShape, RefusedOnlyIfLeft, Winning, After
  <2>3. RefusedOnlyIfLeft' /\ (seen'.owed => snd'.resumed)
    BY <1>q, <1>r, <1>2, <1>4, Kinds DEF PInv, AttemptOver, SlotShape, SlotEnds, consumeCode, SenderShape, KeyShape, HeldShape, RefusedOnlyIfLeft, Winning, After
  <2>4. seen'.owed /\ Code \notin seen'.stale => (~snd'.resume /\ snd'.paired /\ snd'.held) \/ slot'[Code].st = "consumed"
    BY <1>q, <1>r, <1>2, <1>4, Kinds DEF PInv, AttemptOver, SlotShape, SlotEnds, consumeCode, SenderShape, KeyShape, HeldShape, RefusedOnlyIfLeft, Winning, After
  <2> QED BY <2>1, <2>2, <2>3, <2>4 DEF SlotShape
<1>d. HandedShape'
  BY <1>2, <1>3, Kinds DEF PInv, AttemptOver, HandedShape, SenderShape, Winning, After
<1>n. ListenShape'
  BY <1>p, <1>2, <1>3, Kinds DEF PInv, AttemptOver, SameListener, ListenShape, SenderShape, Winning, After
<1>c. SecretShape'
  BY <1>2, <1>3, <1>4, Kinds DEF PInv, AttemptOver, SecretShape, SenderShape, KeyShape, ReturnsToFirst, Busy
<1>a. AdoptShape'
  BY <1>2, <1>3, Kinds DEF PInv, AttemptOver, AdoptShape, First, Adopted, Opened, Busy
<1> QED BY <1>t, <1>s, <1>k, <1>h, <1>l, <1>d, <1>n, <1>c, <1>a DEF PInv

\* The winner's listener hands over the connection of a device that re-dialled.
LEMMA ReacceptWith ==
  ASSUME PInv,
         NEW c \in Conns,
         snd.pc = "reaccept",
         Handed(snd.winner, c),
         conn' = [conn EXCEPT ![c].s = "handed"],
         snd' = [snd EXCEPT !.pc = "xfer", !.cur = c],
         UNCHANGED <<ln, rcv>>,
         UnchangedServer
  PROVE  PInv'
<1>0. PairTypeOK /\ snd \in Sender
  BY DEF PInv, PairTypeOK
<1>p. \A e \in Conns : conn[e].path = "lan" \/ conn[e].path = "net"
  BY <1>0, PathKinds
<1>r. snd.rkey \in Secrets /\ Code \in Secrets
  BY <1>0, Kinds DEF Sender
<1>q. snd.paired => snd.pc \in After
  BY <1>0 DEF PInv, Sender, SenderShape, After
<1>1. snd.winner \in Paths
  BY DEF PInv, SenderShape, After
<1>5. conn[c].path = snd.winner /\ conn[c].live /\ conn[c].s = "ready"
  BY DEF Handed
<1>2. /\ snd' \in Sender
      /\ snd'.pc = "xfer" /\ snd'.key = snd.key /\ snd'.resumed = snd.resumed /\ snd'.rkey = snd.rkey /\ snd'.resume = snd.resume
      /\ snd'.winner = snd.winner /\ snd'.paired = snd.paired /\ snd'.lan = snd.lan /\ snd'.net = snd.net /\ snd'.lanConn = snd.lanConn
      /\ snd'.netConn = snd.netConn /\ snd'.cur = c /\ snd'.held = snd.held /\ snd'.cancel = snd.cancel /\ snd'.rounds = snd.rounds
  BY <1>0 DEF Sender
<1>3. /\ conn' \in [Conns -> Conn] /\ \A b \in Conns : b # c => conn'[b] = conn[b]
      /\ conn'[c].dev = conn[c].dev /\ conn'[c].path = conn[c].path /\ conn'[c].r = conn[c].r
      /\ conn'[c].s = "handed" /\ conn'[c].live = conn[c].live /\ conn'[c].want = conn[c].want /\ conn'[c].use = conn[c].use
      /\ rcv' = rcv /\ ln' = ln
  BY <1>0, HandedEffect DEF Keeps
<1>4. slot' = slot /\ seen' = seen /\ faults' = faults
  BY DEF UnchangedServer
<1>t. PairTypeOK'
  BY <1>0, <1>2, <1>3, <1>4 DEF PairTypeOK, ListenerTypeOK
<1>s. SenderShape'
  BY <1>2, Kinds DEF PInv, SenderShape, After, Winning
<1>k. KeyShape'
  BY <1>2, Kinds DEF PInv, KeyShape, SenderShape, After
<1>h. HeldShape'
  BY <1>2 DEF PInv, HeldShape, SenderShape, Winning
<1>l. SlotShape'
  BY <1>2, <1>4 DEF PInv, SlotShape, SenderShape, KeyShape, HeldShape, RefusedOnlyIfLeft, Winning, After
<1>d. HandedShape'
  BY <1>1, <1>5, <1>2, <1>3, Kinds DEF PInv, HandedShape, SenderShape, Winning, After
<1>n. ListenShape'
  BY <1>p, <1>5, <1>2, <1>3, Kinds DEF PInv, ListenShape, SenderShape, Winning, After
<1>c. SecretShape'
  BY <1>5, <1>2, <1>3, <1>4, Kinds DEF PInv, SecretShape, SenderShape, KeyShape, ReturnsToFirst, Busy
<1>a. AdoptShape'
  BY <1>5, <1>2, <1>3, Kinds DEF PInv, AdoptShape, First, Adopted, Opened, Busy
<1> QED BY <1>t, <1>s, <1>k, <1>h, <1>l, <1>d, <1>n, <1>c, <1>a DEF PInv

\* Re-accepting.
LEMMA Reaccept ==
  ASSUME PInv, reaccept
  PROVE  PInv'
  BY ReacceptWith DEF reaccept

\* A failure is taken while re-accepting, ...
LEMMA ReacceptTakes ==
  ASSUME PInv,
         snd' = snd,
         conn' = conn,
         ln' \in [Paths -> Listening],
         SameListener("lan"),
         SameListener("net"),
         UNCHANGED <<rcv, slot, seen, faults>>
  PROVE  PInv'
<1>0. PairTypeOK /\ snd \in Sender
  BY DEF PInv, PairTypeOK
<1>p. \A e \in Conns : conn[e].path = "lan" \/ conn[e].path = "net"
  BY <1>0, PathKinds
<1>2. snd' = snd
  OBVIOUS
<1>3. conn' = conn /\ rcv' = rcv /\ ln' \in [Paths -> Listening]
  OBVIOUS
<1>4. slot' = slot /\ seen' = seen /\ faults' = faults
  OBVIOUS
<1>t. PairTypeOK'
  BY <1>0, <1>2, <1>3, <1>4 DEF PairTypeOK, ListenerTypeOK
<1>s. SenderShape'
  BY <1>2, Kinds DEF PInv, SenderShape, After, Winning
<1>k. KeyShape'
  BY <1>2, Kinds DEF PInv, KeyShape, SenderShape, After
<1>h. HeldShape'
  BY <1>2 DEF PInv, HeldShape, SenderShape, Winning
<1>l. SlotShape'
  BY <1>2, <1>4 DEF PInv, SlotShape, SenderShape, KeyShape, HeldShape, RefusedOnlyIfLeft, Winning, After
<1>d. HandedShape'
  BY <1>2, <1>3, Kinds DEF PInv, HandedShape, SenderShape, Winning, After
<1>n. ListenShape'
  BY <1>p, <1>2, <1>3, Kinds DEF PInv, SameListener, ListenShape, SenderShape, Winning, After
<1>c. SecretShape'
  BY <1>2, <1>3, <1>4, Kinds DEF PInv, SecretShape, SenderShape, KeyShape, ReturnsToFirst, Busy
<1>a. AdoptShape'
  BY <1>2, <1>3, Kinds DEF PInv, AdoptShape, First, Adopted, Opened, Busy
<1> QED BY <1>t, <1>s, <1>k, <1>h, <1>l, <1>d, <1>n, <1>c, <1>a DEF PInv

\* ... and counted.
LEMMA ReacceptCounts ==
  ASSUME PInv,
         snd' = [snd EXCEPT !.fails = authFailed(snd)],
         conn' = conn,
         ln' \in [Paths -> Listening],
         SameListener("lan"),
         SameListener("net"),
         UNCHANGED <<rcv, slot, seen, faults>>
  PROVE  PInv'
<1>0. PairTypeOK /\ snd \in Sender
  BY DEF PInv, PairTypeOK
<1>p. \A e \in Conns : conn[e].path = "lan" \/ conn[e].path = "net"
  BY <1>0, PathKinds
<1>1. authFailed(snd) \in 0..maxAuthFailures
  BY <1>0, PairingAssumption DEF Sender, authFailed
<1>2. /\ snd' \in Sender
      /\ snd'.pc = snd.pc /\ snd'.key = snd.key /\ snd'.resumed = snd.resumed /\ snd'.rkey = snd.rkey /\ snd'.resume = snd.resume
      /\ snd'.winner = snd.winner /\ snd'.paired = snd.paired /\ snd'.lan = snd.lan /\ snd'.net = snd.net /\ snd'.lanConn = snd.lanConn
      /\ snd'.netConn = snd.netConn /\ snd'.cur = snd.cur /\ snd'.held = snd.held /\ snd'.cancel = snd.cancel /\ snd'.rounds = snd.rounds
  BY <1>0, <1>1 DEF Sender
<1>3. conn' = conn /\ rcv' = rcv /\ ln' \in [Paths -> Listening]
  OBVIOUS
<1>4. slot' = slot /\ seen' = seen /\ faults' = faults
  OBVIOUS
<1>t. PairTypeOK'
  BY <1>0, <1>2, <1>3, <1>4 DEF PairTypeOK, ListenerTypeOK
<1>s. SenderShape'
  BY <1>2, Kinds DEF PInv, SenderShape, After, Winning
<1>k. KeyShape'
  BY <1>2, Kinds DEF PInv, KeyShape, SenderShape, After
<1>h. HeldShape'
  BY <1>2 DEF PInv, HeldShape, SenderShape, Winning
<1>l. SlotShape'
  BY <1>2, <1>4 DEF PInv, SlotShape, SenderShape, KeyShape, HeldShape, RefusedOnlyIfLeft, Winning, After
<1>d. HandedShape'
  BY <1>2, <1>3, Kinds DEF PInv, HandedShape, SenderShape, Winning, After
<1>n. ListenShape'
  BY <1>p, <1>2, <1>3, Kinds DEF PInv, SameListener, ListenShape, SenderShape, Winning, After
<1>c. SecretShape'
  BY <1>2, <1>3, <1>4, Kinds DEF PInv, SecretShape, SenderShape, KeyShape, ReturnsToFirst, Busy
<1>a. AdoptShape'
  BY <1>2, <1>3, Kinds DEF PInv, AdoptShape, First, Adopted, Opened, Busy
<1> QED BY <1>t, <1>s, <1>k, <1>h, <1>l, <1>d, <1>n, <1>c, <1>a DEF PInv


\* What trying again makes of the sender's record.
LEMMA RetriedRecord ==
  ASSUME NEW x \in Sender, NEW y, y = retried(x)
  PROVE  /\ y \in Sender /\ y.pc \in {"finish", "reaccept"} /\ y.cur = NoConn
         /\ y.key = x.key /\ y.resumed = x.resumed /\ y.rkey = x.rkey /\ y.resume = x.resume /\ y.winner = x.winner
         /\ y.paired = x.paired /\ y.lan = x.lan /\ y.net = x.net /\ y.lanConn = x.lanConn /\ y.netConn = x.netConn
         /\ y.held = x.held /\ y.cancel = x.cancel /\ y.rounds = x.rounds
<1>1. CASE x.attempt < DefaultAttempts
  <2>1. x.attempt + 1 \in 1..DefaultAttempts
    BY <1>1, PairingAssumption DEF Sender
  <2>2. PICK a \in 1..DefaultAttempts : y = [x EXCEPT !.pc = "reaccept", !.attempt = a, !.cur = NoConn]
    BY <1>1, <2>1 DEF retried
  <2>3. y \in Sender
    <3>1. /\ y.pc = "reaccept" /\ y.key = x.key /\ y.resumed = x.resumed /\ y.rkey = x.rkey /\ y.resume = x.resume
          /\ y.winner = x.winner /\ y.paired = x.paired /\ y.lan = x.lan /\ y.net = x.net /\ y.lanConn = x.lanConn
          /\ y.netConn = x.netConn /\ y.cur = NoConn /\ y.peer = x.peer /\ y.lanErr = x.lanErr /\ y.downCh = x.downCh
          /\ y.down = x.down /\ y.held = x.held /\ y.cancel = x.cancel /\ y.attempt = a /\ y.fails = x.fails
          /\ y.misses = x.misses /\ y.rounds = x.rounds /\ y.result = x.result
      BY <2>2 DEF Sender
    <3>2. y = [pc |-> y.pc, key |-> y.key, resumed |-> y.resumed, rkey |-> y.rkey, resume |-> y.resume, winner |-> y.winner, paired |-> y.paired, lan |-> y.lan, net |-> y.net, lanConn |-> y.lanConn, netConn |-> y.netConn, cur |-> y.cur,
               peer |-> y.peer, lanErr |-> y.lanErr, downCh |-> y.downCh, down |-> y.down, held |-> y.held, cancel |-> y.cancel, attempt |-> y.attempt, fails |-> y.fails, misses |-> y.misses, rounds |-> y.rounds, result |-> y.result]
      BY <2>2 DEF Sender
    <3>3. NoConn \in Conns \cup {NoConn} /\ a \in 1..DefaultAttempts
      BY <2>2
    <3> QED BY <3>1, <3>2, <3>3 DEF Sender
  <2>4. /\ y.pc = "reaccept" /\ y.cur = NoConn
        /\ y.key = x.key /\ y.resumed = x.resumed /\ y.rkey = x.rkey /\ y.resume = x.resume /\ y.winner = x.winner
        /\ y.paired = x.paired /\ y.lan = x.lan /\ y.net = x.net /\ y.lanConn = x.lanConn /\ y.netConn = x.netConn
        /\ y.held = x.held /\ y.cancel = x.cancel /\ y.rounds = x.rounds
    BY <2>2 DEF Sender
  <2> QED BY <2>3, <2>4
<1>2. CASE ~(x.attempt < DefaultAttempts)
  <2>2. y = [x EXCEPT !.pc = "finish", !.result = "again", !.cur = NoConn]
    BY <1>2 DEF retried
  <2>3. y \in Sender
    BY <2>2, ZenonT(60) DEF Sender
  <2>4. /\ y.pc = "finish" /\ y.cur = NoConn
        /\ y.key = x.key /\ y.resumed = x.resumed /\ y.rkey = x.rkey /\ y.resume = x.resume /\ y.winner = x.winner
        /\ y.paired = x.paired /\ y.lan = x.lan /\ y.net = x.net /\ y.lanConn = x.lanConn /\ y.netConn = x.netConn
        /\ y.held = x.held /\ y.cancel = x.cancel /\ y.rounds = x.rounds
    BY <2>2 DEF Sender
  <2> QED BY <2>3, <2>4
<1> QED BY <1>1, <1>2

\* A transfer that went through, ...
LEMMA Sent ==
  ASSUME PInv, sent
  PROVE  PInv'
<1>0. PairTypeOK /\ snd \in Sender /\ faults \in 0..MaxFaults
  BY DEF PInv, PairTypeOK
<1>1. /\ snd.pc = "xfer" /\ conn' = ConnClosed(conn, snd.cur) /\ UNCHANGED <<ln, rcv, slot, seen, faults>>
      /\ snd' = [snd EXCEPT !.pc = "finish", !.cur = NoConn, !.result = "ok"]
  BY DEF sent, attemptOver, UnchangedServer
<1>2. AttemptOver
  BY <1>0, <1>1 DEF Sender, AttemptOver
<1> QED BY <1>0, <1>1, <1>2, AttemptCloses

\* ... that the device closed, ...
LEMMA ReceiverClosed ==
  ASSUME PInv, receiverClosed
  PROVE  PInv'
<1>0. PairTypeOK /\ snd \in Sender /\ faults \in 0..MaxFaults
  BY DEF PInv, PairTypeOK
<1>1. /\ snd.pc = "xfer" /\ conn' = ConnClosed(conn, snd.cur) /\ UNCHANGED <<ln, rcv, slot, seen, faults>>
      /\ snd' = [snd EXCEPT !.pc = "finish", !.cur = NoConn, !.result = "again"]
  BY DEF receiverClosed, attemptOver, UnchangedServer
<1>2. AttemptOver
  BY <1>0, <1>1 DEF Sender, AttemptOver
<1> QED BY <1>0, <1>1, <1>2, AttemptCloses

\* ... whose connection dropped, ...
LEMMA Dropped ==
  ASSUME PInv, dropped
  PROVE  PInv'
<1>0. PairTypeOK /\ snd \in Sender /\ faults \in 0..MaxFaults
  BY DEF PInv, PairTypeOK
<1>1. /\ snd.pc = "xfer" /\ conn' = ConnClosed(conn, snd.cur) /\ UNCHANGED <<ln, rcv, slot, seen, faults>>
      /\ snd' = retried(snd)
  BY DEF dropped, UnchangedServer
<1>2. AttemptOver
  BY <1>0, <1>1, RetriedRecord DEF AttemptOver
<1> QED BY <1>0, <1>1, <1>2, AttemptCloses

\* ... or that the receiver refused.
LEMMA Refused ==
  ASSUME PInv, refused
  PROVE  PInv'
<1>0. PairTypeOK /\ snd \in Sender /\ faults \in 0..MaxFaults
  BY DEF PInv, PairTypeOK
<1>1. /\ snd.pc = "xfer" /\ conn' = ConnClosed(conn, snd.cur) /\ UNCHANGED <<ln, rcv, slot, seen>>
      /\ faults < MaxFaults /\ faults' = faults + 1
      /\ \/ snd' = [snd EXCEPT !.pc = "finish", !.cur = NoConn, !.result = "stop"]
         \/ snd' = [snd EXCEPT !.pc = "finish", !.cur = NoConn,
                     !.misses = IF snd.misses < maxPasswordRounds - 1 THEN snd.misses + 1 ELSE snd.misses,
                     !.result = IF snd.misses < maxPasswordRounds - 1 THEN "again" ELSE "stop"]
  BY DEF refused
<1>2. faults' \in 0..MaxFaults
  BY <1>0, <1>1, FaultCounts
<1>3. PICK m, v : /\ m = IF snd.misses < maxPasswordRounds - 1 THEN snd.misses + 1 ELSE snd.misses
                  /\ v = IF snd.misses < maxPasswordRounds - 1 THEN "again" ELSE "stop"
  OBVIOUS
<1>4. m \in 0..(maxPasswordRounds - 1) /\ v \in {"again", "stop"}
  BY <1>0, <1>3, PairingAssumption DEF Sender
<1>5. ASSUME snd' = [snd EXCEPT !.pc = "finish", !.cur = NoConn, !.result = "stop"] PROVE AttemptOver
  BY <1>0, <1>5 DEF Sender, AttemptOver
<1>6. ASSUME snd' = [snd EXCEPT !.pc = "finish", !.cur = NoConn, !.misses = m, !.result = v] PROVE AttemptOver
  BY <1>0, <1>4, <1>6 DEF Sender, AttemptOver
<1>7. AttemptOver
  BY <1>1, <1>3, <1>5, <1>6
<1> QED BY <1>1, <1>2, <1>7, AttemptCloses

\* No device comes back in time.
LEMMA ReacceptTimesOut ==
  ASSUME PInv, reacceptTimesOut
  PROVE  PInv'
<1>0. PairTypeOK /\ snd \in Sender /\ ln \in [Paths -> Listening]
  BY DEF PInv, PairTypeOK, ListenerTypeOK
<1>1. snd.pc = "reaccept" /\ snd' = retried(snd) /\ UNCHANGED <<conn, ln, rcv, slot, seen, faults>>
  BY DEF reacceptTimesOut, UnchangedNet, UnchangedServer
<1>2. AttemptOver
  BY <1>0, <1>1, RetriedRecord DEF AttemptOver
<1>3. SameListener("lan") /\ SameListener("net")
  BY <1>1 DEF SameListener
<1> QED BY <1>0, <1>1, <1>2, <1>3, AttemptEnds

\* A failed handshake while re-accepting.
LEMMA ReacceptAbsorbs ==
  ASSUME PInv, reacceptAbsorbs
  PROVE  PInv'
<1>0. PairTypeOK /\ snd \in Sender /\ snd.winner \in Paths
  BY DEF PInv, PairTypeOK, SenderShape, After, reacceptAbsorbs
<1>1. PICK kind \in {"auth", "other"} :
        /\ snd.pc = "reaccept" /\ FailTaken(snd.winner, kind) /\ UNCHANGED <<conn, rcv, slot, seen, faults>>
        /\ \/ snd' = snd
           \/ snd' = [snd EXCEPT !.fails = authFailed(snd)]
           \/ snd' = [snd EXCEPT !.fails = authFailed(snd), !.pc = "finish", !.result = "stop"]
           \/ snd' = retried([snd EXCEPT !.fails = authFailed(snd)])
  BY DEF reacceptAbsorbs, UnchangedServer
<1>2. ln' \in [Paths -> Listening] /\ SameListener("lan") /\ SameListener("net")
  BY <1>0, <1>1, FailTakenEffect, Kinds
<1>3. authFailed(snd) \in 0..maxAuthFailures
  BY <1>0, PairingAssumption DEF Sender, authFailed
<1>4. CASE snd' = snd
  BY <1>1, <1>2, <1>4, ReacceptTakes
<1>5. CASE snd' = [snd EXCEPT !.fails = authFailed(snd)]
  BY <1>1, <1>2, <1>5, ReacceptCounts
<1>6. CASE snd' = [snd EXCEPT !.fails = authFailed(snd), !.pc = "finish", !.result = "stop"]
  <2>1. AttemptOver
    BY <1>0, <1>3, <1>6 DEF Sender, AttemptOver
  <2> QED BY <1>1, <1>2, <2>1, AttemptEnds
<1>7. CASE snd' = retried([snd EXCEPT !.fails = authFailed(snd)])
  <2>1. PICK x : x = [snd EXCEPT !.fails = authFailed(snd)]
    OBVIOUS
  <2>2. /\ x \in Sender
        /\ x.key = snd.key /\ x.resumed = snd.resumed /\ x.rkey = snd.rkey /\ x.resume = snd.resume /\ x.winner = snd.winner
        /\ x.paired = snd.paired /\ x.lan = snd.lan /\ x.net = snd.net /\ x.lanConn = snd.lanConn /\ x.netConn = snd.netConn
        /\ x.held = snd.held /\ x.cancel = snd.cancel /\ x.rounds = snd.rounds
    BY <1>0, <1>3, <2>1 DEF Sender
  <2>3. snd' = retried(x)
    BY <1>7, <2>1
  <2>4. AttemptOver
    BY <2>2, <2>3, RetriedRecord DEF AttemptOver
  <2> QED BY <1>1, <1>2, <2>4, AttemptEnds
<1> QED BY <1>1, <1>4, <1>5, <1>6, <1>7

\* A device's command is replaced.
LEMMA DeviceSet ==
  ASSUME PairTypeOK, NEW d \in Devices, NEW y \in Receiver, rcv' = [rcv EXCEPT ![d] = y]
  PROVE  rcv' \in [Devices -> Receiver] /\ rcv'[d] = y /\ \A e \in Devices : e # d => rcv'[e] = rcv[e]
  BY DEF PairTypeOK

Asleep == {"idle", "over"}
OnConn == {"shake", "xfer"}

\* A command that is on no connection keeps what it knows, and starts from what it saved.
Settles(x, y) ==
    /\ x.pc # "done" /\ y.pc \notin OnConn /\ y.pc # "done" /\ y.conn = NoConn
    /\ y.saved = x.saved /\ y.unsaved = x.unsaved /\ (y.resumed <=> y.key # Code)
    /\ y.pc \in Asleep => y.key = Code
    /\ y.pc \notin Asleep => y.key = IF x.pc \in Asleep THEN x.saved ELSE x.key

\* The slots stay what they are, but for the one a device joins.
Joins == /\ slot' \in [Secrets -> Slot]
         /\ \A k \in Secrets : slot'[k].st = slot[k].st \/ (slot[k].st = "waiting" /\ slot'[k].st = "joined")

\* A command that is on no connection takes a step.
LEMMA DeviceMoves ==
  ASSUME PInv,
         NEW d \in Devices,
         NEW y \in Receiver,
         rcv' = [rcv EXCEPT ![d] = y],
         Settles(rcv[d], y),
         rcv[d].pc \notin OnConn,
         Joins,
         UNCHANGED <<conn, ln, snd, seen>>,
         faults' \in 0..MaxFaults
  PROVE  PInv'
<1>0. PairTypeOK /\ snd \in Sender
  BY DEF PInv, PairTypeOK
<1>p. \A e \in Conns : conn[e].path = "lan" \/ conn[e].path = "net"
  BY <1>0, PathKinds
<1>1. TRUE
  OBVIOUS
<1>r. snd.rkey \in Secrets /\ Code \in Secrets
  BY <1>0, Kinds DEF Sender
<1>q. snd.paired => snd.pc \in After
  BY <1>0 DEF PInv, Sender, SenderShape, After
<1>6. \A c \in Conns : conn[c].s # "none" => conn[c].dev \in Devices
  BY DEF PInv, ListenShape
<1>7. \A c \in Conns : conn[c].s = "none" => conn[c].r = "none"
  BY DEF PInv, ListenShape
<1>2. snd' = snd
  OBVIOUS
<1>5. rcv' \in [Devices -> Receiver] /\ rcv'[d] = y /\ \A e \in Devices : e # d => rcv'[e] = rcv[e]
  BY <1>0, DeviceSet
<1>3. conn' = conn /\ ln' = ln
  OBVIOUS
<1>4. seen' = seen /\ Joins /\ faults' \in 0..MaxFaults
  OBVIOUS
<1>t. PairTypeOK'
  BY <1>0, <1>2, <1>3, <1>4, <1>5 DEF PairTypeOK, ListenerTypeOK, Joins
<1>s. SenderShape'
  BY <1>2 DEF PInv, SenderShape
<1>k. KeyShape'
  BY <1>2 DEF PInv, KeyShape
<1>h. HeldShape'
  BY <1>2 DEF PInv, HeldShape
<1>l. SlotShape'
  <2>1. ASSUME NEW k \in Secrets \ seen'.stale, slot'[k].st # "none"
        PROVE  \/ k = snd'.rkey /\ snd'.held /\ slot'[k].st \in {"waiting", "joined"}
               \/ k = Code /\ snd'.resumed /\ slot'[k].st = "consumed" /\ (snd'.resume \/ (snd'.paired /\ snd'.net # "create"))
    <3>1. CASE k = snd.rkey
      BY <2>1, <3>1, <1>q, <1>r, <1>2, <1>4, Kinds DEF PInv, Joins, SlotShape, SlotEnds, consumeCode, SenderShape, KeyShape, HeldShape, RefusedOnlyIfLeft, Winning, After
    <3>2. CASE k # snd.rkey
      BY <2>1, <3>2, <1>q, <1>r, <1>2, <1>4, Kinds DEF PInv, Joins, SlotShape, SlotEnds, consumeCode, SenderShape, KeyShape, HeldShape, RefusedOnlyIfLeft, Winning, After
    <3> QED BY <3>1, <3>2
  <2>2. snd'.held /\ snd'.rkey \notin seen'.stale => slot'[snd'.rkey].st \in {"waiting", "joined"}
    BY <1>q, <1>r, <1>2, <1>4, Kinds DEF PInv, Joins, SlotShape, SlotEnds, consumeCode, SenderShape, KeyShape, HeldShape, RefusedOnlyIfLeft, Winning, After
  <2>3. RefusedOnlyIfLeft' /\ (seen'.owed => snd'.resumed)
    BY <1>q, <1>r, <1>2, <1>4, Kinds DEF PInv, Joins, SlotShape, SlotEnds, consumeCode, SenderShape, KeyShape, HeldShape, RefusedOnlyIfLeft, Winning, After
  <2>4. seen'.owed /\ Code \notin seen'.stale => (~snd'.resume /\ snd'.paired /\ snd'.held) \/ slot'[Code].st = "consumed"
    BY <1>q, <1>r, <1>2, <1>4, Kinds DEF PInv, Joins, SlotShape, SlotEnds, consumeCode, SenderShape, KeyShape, HeldShape, RefusedOnlyIfLeft, Winning, After
  <2> QED BY <2>1, <2>2, <2>3, <2>4 DEF SlotShape
<1>d. HandedShape'
  BY <1>2, <1>3 DEF PInv, HandedShape
<1>n. ListenShape'
  BY <1>2, <1>3 DEF PInv, ListenShape
<1>c. SecretShape'
  BY <1>2, <1>3, <1>4, <1>5, Kinds DEF PInv, SecretShape, ReturnsToFirst, Settles, OnConn, Asleep, Busy
<1>a. AdoptShape'
  BY <1>2, <1>3, <1>5, <1>6, Kinds DEF PInv, AdoptShape, First, Adopted, Opened, Busy, Asleep, OnConn, Settles
<1> QED BY <1>t, <1>s, <1>k, <1>h, <1>l, <1>d, <1>n, <1>c, <1>a DEF PInv

\* The device's end of a connection changes; the sender's does not.
FarEnd(b) ==
    /\ conn' \in [Conns -> Conn] /\ \A c \in Conns : c # b => conn'[c] = conn[c]
    /\ conn'[b].dev = conn[b].dev /\ conn'[b].path = conn[b].path /\ conn'[b].want = conn[b].want
    /\ conn'[b].use = conn[b].use /\ conn'[b].s = conn[b].s /\ conn'[b].live = conn[b].live

\* What the sender holds of the connections does not depend on the device's end.
LEMMA FarEndHanded ==
  ASSUME PInv, NEW b \in Conns, FarEnd(b), UNCHANGED <<snd, ln>>, conn[b].s # "none"
  PROVE  HandedShape' /\ ListenShape'
<1>1. HandedShape'
  BY Kinds DEF PInv, HandedShape, FarEnd, SenderShape
<1>2. ListenShape'
  BY Kinds DEF PInv, ListenShape, FarEnd
<1> QED BY <1>1, <1>2

\* A command gives up its connection.
LEMMA DeviceParts ==
  ASSUME PInv,
         NEW d \in Devices,
         NEW y \in Receiver,
         rcv' = [rcv EXCEPT ![d] = y],
         rcv[d].pc \in OnConn,
         Settles(rcv[d], y),
         FarEnd(rcv[d].conn),
         conn'[rcv[d].conn].r \in {"closed", "failed"},
         conn[rcv[d].conn].r = "handshake" => conn'[rcv[d].conn].r = "failed",
         UNCHANGED <<ln, snd, slot, seen>>,
         faults' \in 0..MaxFaults
  PROVE  PInv'
<1>0. PairTypeOK /\ snd \in Sender
  BY DEF PInv, PairTypeOK
<1>p. \A e \in Conns : conn[e].path = "lan" \/ conn[e].path = "net"
  BY <1>0, PathKinds
<1>1. rcv[d].conn \in Conns /\ conn[rcv[d].conn].dev = d /\ conn[rcv[d].conn].s # "none" /\ conn[rcv[d].conn].r \in {"handshake", "open"}
  BY Kinds DEF PInv, SecretShape, OnConn, ListenShape
<1>6. \A c \in Conns : conn[c].s # "none" => conn[c].dev \in Devices
  BY DEF PInv, ListenShape
<1>7. \A c \in Conns : conn[c].s = "none" => conn[c].r = "none"
  BY DEF PInv, ListenShape
<1>2. snd' = snd
  OBVIOUS
<1>5. rcv' \in [Devices -> Receiver] /\ rcv'[d] = y /\ \A e \in Devices : e # d => rcv'[e] = rcv[e]
  BY <1>0, DeviceSet
<1>3. FarEnd(rcv[d].conn) /\ ln' = ln
  OBVIOUS
<1>4. slot' = slot /\ seen' = seen /\ faults' \in 0..MaxFaults
  OBVIOUS
<1>t. PairTypeOK'
  BY <1>0, <1>2, <1>3, <1>4, <1>5 DEF PairTypeOK, ListenerTypeOK, FarEnd
<1>s. SenderShape'
  BY <1>2 DEF PInv, SenderShape
<1>k. KeyShape'
  BY <1>2 DEF PInv, KeyShape
<1>h. HeldShape'
  BY <1>2 DEF PInv, HeldShape
<1>l. SlotShape'
  BY <1>2, <1>4 DEF PInv, SlotShape, RefusedOnlyIfLeft
<1>d. HandedShape'
  BY <1>1, <1>2, <1>3, FarEndHanded
<1>n. ListenShape'
  BY <1>1, <1>2, <1>3, FarEndHanded
<1>c. SecretShape'
  BY <1>1, <1>2, <1>3, <1>4, <1>5, Kinds, SMTT(30) DEF PInv, SecretShape, ReturnsToFirst, Settles, OnConn, Asleep, Busy, FarEnd, KeyShape
<1>a. AdoptShape'
  <2> DEFINE b == rcv[d].conn
  <2>0. /\ rcv[d].pc \in OnConn /\ Settles(rcv[d], y) /\ b \in Conns /\ conn[b].dev = d /\ conn[b].s # "none"
        /\ FarEnd(b) /\ conn[b].r \in {"handshake", "open"} /\ conn'[b].r \in {"closed", "failed"}
        /\ conn[b].r = "handshake" => conn'[b].r = "failed"
    BY <1>1, <1>3
  <2> HIDE DEF b
  <2>1. ASSUME NEW c \in Conns, First(c)'
        PROVE  /\ First(c) /\ conn'[c].dev = conn[c].dev /\ (c # b => conn'[c] = conn[c])
               /\ Opened(c)' => Opened(c)
    BY <1>2, <2>0, <2>1 DEF First, FarEnd, Opened
  <2>2. ASSUME NEW c \in Conns, First(c)', Opened(c)'
        PROVE  Adopted(conn[c].dev, c)'
    <3>1. Adopted(conn[c].dev, c) /\ conn[c].dev \in Devices
      BY <1>6, <1>7, <2>1, <2>2 DEF PInv, AdoptShape, Opened
    <3>2. CASE conn[c].dev = d
      BY <1>5, <2>0, <2>1, <2>2, <3>1, <3>2 DEF Adopted, Settles, OnConn, Asleep
    <3>3. CASE conn[c].dev # d
      BY <1>5, <2>1, <2>2, <3>1, <3>3 DEF Adopted
    <3> QED BY <3>2, <3>3
  <2>3. ASSUME NEW c \in Conns, First(c)', conn'[c].r = "handshake"
        PROVE  LET e == conn'[c].dev IN rcv'[e].pc = "shake" /\ rcv'[e].conn = c /\ rcv'[e].key = Code
    <3>1. First(c) /\ c # b /\ conn'[c] = conn[c] /\ conn[c].dev \in Devices
      BY <1>6, <1>7, <2>0, <2>1, <2>3
    <3>2. rcv[conn[c].dev].pc = "shake" /\ rcv[conn[c].dev].conn = c /\ rcv[conn[c].dev].key = Code
      BY <2>3, <3>1 DEF PInv, AdoptShape
    <3>3. conn[c].dev # d
      BY <3>1, <3>2 DEF b
    <3> QED BY <1>5, <3>1, <3>2, <3>3
  <2> QED BY <2>2, <2>3 DEF AdoptShape
<1> QED BY <1>t, <1>s, <1>k, <1>h, <1>l, <1>d, <1>n, <1>c, <1>a DEF PInv

\* A device dials.
LEMMA DialledEffect ==
  ASSUME PairTypeOK, NEW d \in Devices, NEW p \in Paths, NEW b \in Conns, NEW k \in Secrets, Dialled(d, p, b, k)
  PROVE  /\ conn' \in [Conns -> Conn] /\ \A c \in Conns : c # b => conn'[c] = conn[c]
         /\ conn'[b].dev = d /\ conn'[b].path = p /\ conn'[b].want = k /\ conn'[b].s = "arrived"
         /\ conn'[b].r = "handshake" /\ conn'[b].live
<1>1. conn \in [Conns -> Conn] /\ Code \in Secrets
  BY Kinds DEF PairTypeOK, ListenerTypeOK
<1>2. PICK v : v = [dev |-> d, path |-> p, want |-> k, use |-> Code, s |-> "arrived", r |-> "handshake", live |-> TRUE, cut |-> FALSE]
  OBVIOUS
<1>3. v \in Conn /\ v.dev = d /\ v.path = p /\ v.want = k /\ v.s = "arrived" /\ v.r = "handshake" /\ v.live
  BY <1>1, <1>2 DEF Conn
<1>4. conn' = [conn EXCEPT ![b] = v]
  BY <1>2 DEF Dialled
<1> QED BY <1>1, <1>3, <1>4

\* A device dials a listener that is open.
LEMMA DeviceDials ==
  ASSUME PInv,
         NEW d \in Devices,
         NEW y \in Receiver,
         rcv' = [rcv EXCEPT ![d] = y],
         NEW p \in Paths,
         NEW b \in Fresh,
         ln[p].open,
         Dialled(d, p, b, rcv[d].key),
         rcv[d].pc \in {"hit", "dial"},
         y.pc = "shake",
         y.conn = b,
         y.key = rcv[d].key,
         y.resumed = rcv[d].resumed,
         y.saved = rcv[d].saved,
         y.unsaved = rcv[d].unsaved,
         UNCHANGED <<ln, snd, slot, seen, faults>>
  PROVE  PInv'
<1>0. PairTypeOK /\ snd \in Sender
  BY DEF PInv, PairTypeOK
<1>p. \A e \in Conns : conn[e].path = "lan" \/ conn[e].path = "net"
  BY <1>0, PathKinds
<1>1. b \in Conns /\ conn[b].s = "none" /\ conn[b].dev = Nobody /\ rcv[d].key \in Secrets
  BY <1>0 DEF Fresh, PInv, ListenShape, PairTypeOK, Receiver
<1>6. \A c \in Conns : conn[c].s # "none" => conn[c].dev \in Devices
  BY DEF PInv, ListenShape
<1>7. \A c \in Conns : conn[c].s = "none" => conn[c].r = "none"
  BY DEF PInv, ListenShape
<1>8. snd.key # b
  BY <1>1, Kinds DEF PInv, SecretShape, KeyShape
<1>2. snd' = snd
  OBVIOUS
<1>5. rcv' \in [Devices -> Receiver] /\ rcv'[d] = y /\ \A e \in Devices : e # d => rcv'[e] = rcv[e]
  BY <1>0, DeviceSet
<1>3. /\ conn' \in [Conns -> Conn] /\ \A c \in Conns : c # b => conn'[c] = conn[c]
      /\ conn'[b].dev = d /\ conn'[b].path = p /\ conn'[b].want = rcv[d].key /\ conn'[b].s = "arrived"
      /\ conn'[b].r = "handshake" /\ conn'[b].live /\ ln' = ln
  BY <1>0, <1>1, DialledEffect
<1>4. slot' = slot /\ seen' = seen /\ faults' = faults
  OBVIOUS
<1>t. PairTypeOK'
  BY <1>0, <1>1, <1>2, <1>3, <1>4, <1>5 DEF PairTypeOK, ListenerTypeOK
<1>s. SenderShape'
  BY <1>2 DEF PInv, SenderShape
<1>k. KeyShape'
  BY <1>2 DEF PInv, KeyShape
<1>h. HeldShape'
  BY <1>2 DEF PInv, HeldShape
<1>l. SlotShape'
  BY <1>2, <1>4 DEF PInv, SlotShape, RefusedOnlyIfLeft
<1>d. HandedShape'
  BY <1>1, <1>2, <1>3 DEF PInv, HandedShape, SenderShape
<1>n. ListenShape'
  BY <1>1, <1>2, <1>3 DEF PInv, ListenShape
<1>c. SecretShape'
  BY <1>1, <1>2, <1>3, <1>4, <1>5, <1>6, Kinds DEF PInv, SecretShape, ReturnsToFirst, Busy, KeyShape, ListenShape
<1>a. AdoptShape'
  BY <1>1, <1>2, <1>3, <1>5, <1>6, <1>7, <1>8, Kinds DEF PInv, AdoptShape, First, Adopted, Opened, Busy, Asleep, OnConn
<1> QED BY <1>t, <1>s, <1>k, <1>h, <1>l, <1>d, <1>n, <1>c, <1>a DEF PInv

\* The handshake succeeds at the device: on the code, it adopts the connection's key.
LEMMA DevicePairs ==
  ASSUME PInv,
         NEW d \in Devices,
         NEW y \in Receiver,
         rcv' = [rcv EXCEPT ![d] = y],
         rcv[d].pc = "shake",
         FarEnd(rcv[d].conn),
         conn'[rcv[d].conn].r = "open",
         y.pc = "xfer",
         y.conn = rcv[d].conn,
         rcv[d].resumed => y.key = rcv[d].key /\ y.resumed /\ y.saved = rcv[d].saved /\ y.unsaved = rcv[d].unsaved,
         ~rcv[d].resumed => y.key = rcv[d].conn /\ y.resumed,
         ~rcv[d].resumed => y.unsaved \/ (y.saved = rcv[d].conn /\ y.unsaved = rcv[d].unsaved),
         y.saved \in {rcv[d].saved, rcv[d].conn},
         rcv[d].unsaved => y.unsaved,
         UNCHANGED <<ln, snd, slot, seen>>,
         faults' \in 0..MaxFaults
  PROVE  PInv'
<1>0. PairTypeOK /\ snd \in Sender
  BY DEF PInv, PairTypeOK
<1>p. \A e \in Conns : conn[e].path = "lan" \/ conn[e].path = "net"
  BY <1>0, PathKinds
<1>1. rcv[d].conn \in Conns /\ conn[rcv[d].conn].dev = d /\ conn[rcv[d].conn].s # "none" /\ conn[rcv[d].conn].r = "handshake"
  BY Kinds DEF PInv, SecretShape, ListenShape
<1>6. \A c \in Conns : conn[c].s # "none" => conn[c].dev \in Devices
  BY DEF PInv, ListenShape
<1>7. \A c \in Conns : conn[c].s = "none" => conn[c].r = "none"
  BY DEF PInv, ListenShape
<1>2. snd' = snd
  OBVIOUS
<1>5. rcv' \in [Devices -> Receiver] /\ rcv'[d] = y /\ \A e \in Devices : e # d => rcv'[e] = rcv[e]
  BY <1>0, DeviceSet
<1>3. FarEnd(rcv[d].conn) /\ ln' = ln /\ conn'[rcv[d].conn].r = "open"
  OBVIOUS
<1>4. slot' = slot /\ seen' = seen /\ faults' \in 0..MaxFaults
  OBVIOUS
<1>t. PairTypeOK'
  BY <1>0, <1>2, <1>3, <1>4, <1>5 DEF PairTypeOK, ListenerTypeOK, FarEnd
<1>s. SenderShape'
  BY <1>2 DEF PInv, SenderShape
<1>k. KeyShape'
  BY <1>2 DEF PInv, KeyShape
<1>h. HeldShape'
  BY <1>2 DEF PInv, HeldShape
<1>l. SlotShape'
  BY <1>2, <1>4 DEF PInv, SlotShape, RefusedOnlyIfLeft
<1>d. HandedShape'
  BY <1>1, <1>2, <1>3, FarEndHanded
<1>n. ListenShape'
  BY <1>1, <1>2, <1>3, FarEndHanded
<1>c. SecretShape'
  BY <1>1, <1>2, <1>3, <1>4, <1>5, Kinds, SMTT(30) DEF PInv, SecretShape, ReturnsToFirst, Busy, FarEnd, KeyShape
<1>a. AdoptShape'
  <2> DEFINE b == rcv[d].conn
  <2>0. b \in Conns /\ conn[b].dev = d /\ conn[b].r = "handshake" /\ FarEnd(b) /\ conn'[b].r = "open"
    BY <1>1, <1>3
  <2> HIDE DEF b
  <2>1. ASSUME NEW c \in Conns, First(c)'
        PROVE  /\ First(c) /\ conn'[c].dev = conn[c].dev /\ (c # b => conn'[c] = conn[c])
    BY <1>2, <2>0, <2>1 DEF First, FarEnd
  <2>2. ASSUME NEW c \in Conns, First(c)', Opened(c)'
        PROVE  Adopted(conn[c].dev, c)'
    <3>1. CASE c = b
      <4>1. rcv[d].key = Code /\ ~rcv[d].resumed
        BY <2>0, <2>1, <2>2, <3>1 DEF PInv, AdoptShape, SecretShape
      <4> QED BY <1>5, <2>0, <2>1, <2>2, <3>1, <4>1 DEF Adopted, b
    <3>2. CASE c # b
      <4>1. Adopted(conn[c].dev, c) /\ conn[c].dev \in Devices
        BY <1>6, <1>7, <2>1, <2>2, <3>2 DEF PInv, AdoptShape, Opened
      <4>2. CASE conn[c].dev = d
        <5>1. rcv[d].unsaved \/ (rcv[d].saved = c /\ rcv[d].key = c /\ rcv[d].resumed)
          BY <4>1, <4>2, Kinds DEF Adopted, PInv, SecretShape
        <5> QED BY <1>5, <2>1, <2>2, <4>2, <5>1 DEF Adopted
      <4>3. CASE conn[c].dev # d
        BY <1>5, <2>1, <2>2, <4>1, <4>3 DEF Adopted
      <4> QED BY <4>2, <4>3
    <3> QED BY <3>1, <3>2
  <2>3. ASSUME NEW c \in Conns, First(c)', conn'[c].r = "handshake"
        PROVE  LET e == conn'[c].dev IN rcv'[e].pc = "shake" /\ rcv'[e].conn = c /\ rcv'[e].key = Code
    <3>1. First(c) /\ c # b /\ conn'[c] = conn[c] /\ conn[c].dev \in Devices
      BY <1>6, <1>7, <2>0, <2>1, <2>3
    <3>2. rcv[conn[c].dev].pc = "shake" /\ rcv[conn[c].dev].conn = c /\ rcv[conn[c].dev].key = Code
      BY <2>3, <3>1 DEF PInv, AdoptShape
    <3>3. conn[c].dev # d
      BY <3>1, <3>2 DEF b
    <3> QED BY <1>5, <3>1, <3>2, <3>3
  <2> QED BY <2>2, <2>3 DEF AdoptShape
<1> QED BY <1>t, <1>s, <1>k, <1>h, <1>l, <1>d, <1>n, <1>c, <1>a DEF PInv

\* The transfer is complete and the saved key forgotten.
LEMMA DeviceDone ==
  ASSUME PInv,
         NEW d \in Devices,
         NEW y \in Receiver,
         rcv' = [rcv EXCEPT ![d] = y],
         rcv[d].pc = "xfer",
         FarEnd(rcv[d].conn),
         conn'[rcv[d].conn].r = "done",
         y.pc = "done",
         y.conn = NoConn,
         y.key = Code,
         ~y.resumed,
         y.saved = Code,
         UNCHANGED <<ln, snd, slot, seen, faults>>
  PROVE  PInv'
<1>0. PairTypeOK /\ snd \in Sender
  BY DEF PInv, PairTypeOK
<1>p. \A e \in Conns : conn[e].path = "lan" \/ conn[e].path = "net"
  BY <1>0, PathKinds
<1>1. rcv[d].conn \in Conns /\ conn[rcv[d].conn].dev = d /\ conn[rcv[d].conn].s # "none" /\ conn[rcv[d].conn].r = "open"
  BY Kinds DEF PInv, SecretShape, ListenShape
<1>6. \A c \in Conns : conn[c].s # "none" => conn[c].dev \in Devices
  BY DEF PInv, ListenShape
<1>7. \A c \in Conns : conn[c].s = "none" => conn[c].r = "none"
  BY DEF PInv, ListenShape
<1>2. snd' = snd
  OBVIOUS
<1>5. rcv' \in [Devices -> Receiver] /\ rcv'[d] = y /\ \A e \in Devices : e # d => rcv'[e] = rcv[e]
  BY <1>0, DeviceSet
<1>3. FarEnd(rcv[d].conn) /\ ln' = ln /\ conn'[rcv[d].conn].r = "done"
  OBVIOUS
<1>4. slot' = slot /\ seen' = seen /\ faults' = faults
  OBVIOUS
<1>t. PairTypeOK'
  BY <1>0, <1>2, <1>3, <1>4, <1>5 DEF PairTypeOK, ListenerTypeOK, FarEnd
<1>s. SenderShape'
  BY <1>2 DEF PInv, SenderShape
<1>k. KeyShape'
  BY <1>2 DEF PInv, KeyShape
<1>h. HeldShape'
  BY <1>2 DEF PInv, HeldShape
<1>l. SlotShape'
  BY <1>2, <1>4 DEF PInv, SlotShape, RefusedOnlyIfLeft
<1>d. HandedShape'
  BY <1>1, <1>2, <1>3, FarEndHanded
<1>n. ListenShape'
  BY <1>1, <1>2, <1>3, FarEndHanded
<1>c. SecretShape'
  BY <1>1, <1>2, <1>3, <1>4, <1>5, Kinds, SMTT(30) DEF PInv, SecretShape, ReturnsToFirst, Busy, FarEnd, KeyShape
<1>a. AdoptShape'
  BY <1>1, <1>2, <1>3, <1>5, <1>6, <1>7, Kinds DEF PInv, FarEnd, AdoptShape, First, Adopted, Opened, Busy, Asleep, OnConn
<1> QED BY <1>t, <1>s, <1>k, <1>h, <1>l, <1>d, <1>n, <1>c, <1>a DEF PInv

\* What a command that has ended keeps, ...
LEMMA EndsRecord ==
  ASSUME NEW x \in Receiver, NEW y, y = receiveEnds(x)
  PROVE  /\ y \in Receiver /\ y.pc = "over" /\ y.key = Code /\ ~y.resumed /\ y.saved = x.saved
         /\ y.conn = NoConn /\ y.unsaved = x.unsaved
<1>1. 1 \in 1..DefaultAttempts /\ 0 \in 0..maxRepairRounds /\ Code \in Secrets /\ "lan" \in Paths
  BY PairingAssumption, Kinds
<1> QED BY <1>1 DEF Receiver, receiveEnds, NotRunning

\* ... and one that tries again.
LEMMA AgainRecord ==
  ASSUME NEW x \in Receiver, NEW y, y = receiveAgain(x)
  PROVE  /\ y \in Receiver /\ y.saved = x.saved /\ y.unsaved = x.unsaved /\ y.conn \in {x.conn, NoConn}
         /\ y.pc \in {"dial", "find", "over"}
         /\ y.pc = "over" => y.key = Code /\ ~y.resumed
         /\ y.pc # "over" => y.key = x.key /\ y.resumed = x.resumed
<1>1. CASE x.attempt < DefaultAttempts
  <2>1. x.attempt + 1 \in 1..DefaultAttempts
    BY <1>1, PairingAssumption DEF Receiver
  <2>2. y = [x EXCEPT !.pc = "dial", !.attempt = x.attempt + 1]
    BY <1>1 DEF receiveAgain
  <2> QED BY <2>1, <2>2 DEF Receiver
<1>2. CASE ~(x.attempt < DefaultAttempts) /\ x.resumed /\ x.round < maxRepairRounds
  <2>1. x.round + 1 \in 0..maxRepairRounds /\ 1 \in 1..DefaultAttempts /\ Code \in Secrets /\ "lan" \in Paths
    BY <1>2, PairingAssumption, Kinds DEF Receiver
  <2>2. y = [x EXCEPT !.pc = "find", !.armed = TRUE, !.attempt = 1, !.round = x.round + 1,
                      !.port = Code, !.via = "lan", !.first = FALSE]
    BY <1>2 DEF receiveAgain
  <2>3. PICK r \in 0..maxRepairRounds : y = [x EXCEPT !.pc = "find", !.armed = TRUE, !.attempt = 1, !.round = r,
                      !.port = Code, !.via = "lan", !.first = FALSE]
    BY <2>1, <2>2
  <2>4. y \in Receiver
    BY <2>1, <2>3 DEF Receiver
  <2>5. /\ y.pc = "find" /\ y.saved = x.saved /\ y.unsaved = x.unsaved /\ y.conn = x.conn /\ y.key = x.key
        /\ y.resumed = x.resumed
    BY <2>3 DEF Receiver
  <2> QED BY <2>4, <2>5
<1>3. CASE ~(x.attempt < DefaultAttempts) /\ ~(x.resumed /\ x.round < maxRepairRounds)
  <2>1. y = receiveEnds(x)
    BY <1>3 DEF receiveAgain
  <2> QED BY <2>1, EndsRecord
<1> QED BY <1>1, <1>2, <1>3

\* A device, and what is known of its command.
LEMMA DeviceFacts ==
  ASSUME PInv, NEW d \in Devices
  PROVE  /\ PairTypeOK /\ rcv[d] \in Receiver /\ rcv \in [Devices -> Receiver]
         /\ rcv[d].resumed <=> rcv[d].key # Code
         /\ rcv[d].pc \notin OnConn => rcv[d].conn = NoConn
         /\ rcv[d].pc \in OnConn => rcv[d].conn \in Conns
         /\ faults \in 0..MaxFaults /\ slot \in [Secrets -> Slot] /\ conn \in [Conns -> Conn]
  BY DEF PInv, PairTypeOK, ListenerTypeOK, SecretShape, OnConn

\* The slots as they are.
LEMMA NoJoin ==
  ASSUME PInv, slot' = slot
  PROVE  Joins
  BY DEF PInv, PairTypeOK, Joins

\* The command starts.
LEMMA RunReceive ==
  ASSUME PInv, NEW d \in Devices, runReceive(d)
  PROVE  PInv'
<1>1. PairTypeOK /\ rcv[d] \in Receiver /\ faults \in 0..MaxFaults /\ rcv[d].conn = NoConn
  BY DeviceFacts DEF runReceive, OnConn
<1>2. PICK x, y : /\ x = rcv[d] /\ rcv' = [rcv EXCEPT ![d] = y] /\ x.pc \in {"idle", "over"} /\ x.starts < MaxStarts
                  /\ y = [x EXCEPT !.pc = "find", !.key = x.saved, !.resumed = x.saved # Code, !.armed = TRUE, !.starts = x.starts + 1]
  BY DEF runReceive
<1>3. x \in Receiver
  BY <1>1, <1>2
<1>4. x.starts + 1 \in 0..MaxStarts /\ (x.saved # Code) \in BOOLEAN
  BY <1>2, <1>3, PairingAssumption DEF Receiver
<1>5. PICK s \in 0..MaxStarts, v \in BOOLEAN : v = (x.saved # Code) /\ y = [x EXCEPT !.pc = "find", !.key = x.saved, !.resumed = v, !.armed = TRUE, !.starts = s]
  BY <1>2, <1>4
<1>6. /\ y \in Receiver /\ y.pc = "find" /\ y.key = x.saved /\ (y.resumed <=> x.saved # Code) /\ y.saved = x.saved
      /\ y.conn = x.conn /\ y.unsaved = x.unsaved
  BY <1>3, <1>5 DEF Receiver
<1>7. Settles(rcv[d], y) /\ rcv[d].pc \notin OnConn
  BY <1>1, <1>2, <1>6 DEF Settles, OnConn, Asleep
<1>8. UNCHANGED <<conn, ln, snd, slot, seen, faults>>
  BY DEF runReceive, RcvOnly, UnchangedServer
<1> QED BY <1>1, <1>2, <1>6, <1>7, <1>8, NoJoin, DeviceMoves

\* A running command that is on no connection goes on, with what it knows.
GoesOnTo(x, y) ==
    /\ y.pc \in {"find", "hit", "join", "last", "link", "dial"} /\ y.key = x.key /\ y.resumed = x.resumed
    /\ y.saved = x.saved /\ y.conn = NoConn /\ y.unsaved = x.unsaved

\* A command that goes on, or ends, keeps what it knows.
LEMMA GoesOnSettles ==
  ASSUME NEW x \in Receiver, NEW y, x.pc \notin {"idle", "done", "over"}, x.resumed <=> x.key # Code,
         GoesOnTo(x, y) \/ y = receiveEnds(x)
  PROVE  Settles(x, y)
<1>1. CASE GoesOnTo(x, y)
  BY <1>1 DEF GoesOnTo, Settles, OnConn, Asleep
<1>2. CASE y = receiveEnds(x)
  BY <1>2, EndsRecord DEF Settles, OnConn, Asleep
<1> QED BY <1>1, <1>2

\* The running command takes a step on no connection.
LEMMA RunningMoves ==
  ASSUME PInv, NEW d \in Devices, NEW y \in Receiver, rcv' = [rcv EXCEPT ![d] = y],
         rcv[d].pc \in {"find", "hit", "join", "last", "link", "dial"},
         GoesOnTo(rcv[d], y) \/ y = receiveEnds(rcv[d]),
         Joins, UNCHANGED <<conn, ln, snd, seen>>, faults' \in 0..MaxFaults
  PROVE  PInv'
<1>1. rcv[d] \in Receiver /\ (rcv[d].resumed <=> rcv[d].key # Code) /\ rcv[d].pc \notin {"idle", "done", "over"}
  BY DeviceFacts
<1>2. Settles(rcv[d], y)
  BY <1>1, GoesOnSettles
<1>3. rcv[d].pc \notin OnConn
  BY DEF OnConn
<1> QED BY <1>2, <1>3, DeviceMoves

\* No answer on the LAN within the head start.
LEMMA HeadStart ==
  ASSUME PInv, NEW d \in Devices, headStart(d)
  PROVE  PInv'
<1>1. rcv[d] \in Receiver /\ faults \in 0..MaxFaults /\ rcv \in [Devices -> Receiver] /\ rcv[d].conn = NoConn
  BY DeviceFacts DEF headStart, OnConn
<1>2. PICK armed \in BOOLEAN : rcv' = [rcv EXCEPT ![d].pc = "join", ![d].armed = armed]
  BY DEF headStart
<1>3. PICK x, y : x = rcv[d] /\ y = [x EXCEPT !.pc = "join", !.armed = armed] /\ rcv' = [rcv EXCEPT ![d] = y]
  BY <1>1, <1>2
<1>4. x \in Receiver
  BY <1>1, <1>3
<1>5. y \in Receiver /\ y.conn = x.conn /\ y.pc = "join" /\ y.key = x.key
      /\ y.resumed = x.resumed /\ y.saved = x.saved /\ y.unsaved = x.unsaved
  BY <1>3, <1>4 DEF Receiver
<1>6. GoesOnTo(rcv[d], y)
  BY <1>1, <1>3, <1>5 DEF GoesOnTo
<1>7. UNCHANGED <<conn, ln, snd, slot, seen, faults>> /\ rcv[d].pc = "find"
  BY DEF headStart, RcvOnly, UnchangedServer
<1> QED BY <1>1, <1>3, <1>5, <1>6, <1>7, NoJoin, RunningMoves

\* A LAN answer, ...
LEMMA LanAnswer ==
  ASSUME PInv, NEW d \in Devices, lanAnswer(d)
  PROVE  PInv'
<1>1. rcv[d] \in Receiver /\ faults \in 0..MaxFaults /\ rcv \in [Devices -> Receiver] /\ rcv[d].conn = NoConn
  BY DeviceFacts DEF lanAnswer, OnConn
<1>2. PICK x, y : x = rcv[d] /\ y = [x EXCEPT !.pc = "hit", !.armed = FALSE, !.port = x.key] /\ rcv' = [rcv EXCEPT ![d] = y]
  BY <1>1 DEF lanAnswer
<1>3. x \in Receiver
  BY <1>1, <1>2
<1>4. y \in Receiver /\ y.conn = x.conn /\ y.pc = "hit" /\ y.key = x.key
      /\ y.resumed = x.resumed /\ y.saved = x.saved /\ y.unsaved = x.unsaved
  BY <1>2, <1>3 DEF Receiver
<1>5. GoesOnTo(rcv[d], y)
  BY <1>1, <1>2, <1>4 DEF GoesOnTo
<1>6. UNCHANGED <<conn, ln, snd, slot, seen, faults>> /\ rcv[d].pc \in {"find", "join", "last"}
  BY DEF lanAnswer, RcvOnly, UnchangedServer
<1> QED BY <1>1, <1>2, <1>4, <1>5, <1>6, NoJoin, RunningMoves

\* ... none, ...
LEMMA LanMiss ==
  ASSUME PInv, NEW d \in Devices, lanMiss(d)
  PROVE  PInv'
<1>1. rcv[d] \in Receiver /\ faults \in 0..MaxFaults /\ rcv \in [Devices -> Receiver] /\ rcv[d].conn = NoConn
  BY DeviceFacts DEF lanMiss, OnConn
<1>2. PICK x, y : x = rcv[d] /\ rcv' = [rcv EXCEPT ![d] = y] /\ x.pc \in {"join", "last"}
                  /\ (y = receiveEnds(x) \/ (x.pc = "join" /\ y = [x EXCEPT !.armed = FALSE]))
  BY <1>1 DEF lanMiss
<1>3. x \in Receiver
  BY <1>1, <1>2
<1>4. UNCHANGED <<conn, ln, snd, slot, seen, faults>>
  BY DEF lanMiss, RcvOnly, UnchangedServer
<1>5. CASE y = receiveEnds(x)
  <2>1. y \in Receiver
    BY <1>3, <1>5, EndsRecord
  <2> QED BY <1>1, <1>2, <1>4, <1>5, <2>1, NoJoin, RunningMoves
<1>6. CASE x.pc = "join" /\ y = [x EXCEPT !.armed = FALSE]
  <2>1. y \in Receiver /\ y.conn = x.conn /\ y.pc = x.pc /\ y.key = x.key
        /\ y.resumed = x.resumed /\ y.saved = x.saved /\ y.unsaved = x.unsaved
    BY <1>3, <1>6 DEF Receiver
  <2>2. GoesOnTo(rcv[d], y)
    BY <1>1, <1>2, <1>6, <2>1 DEF GoesOnTo
  <2> QED BY <1>1, <1>2, <1>4, <2>1, <2>2, NoJoin, RunningMoves
<1> QED BY <1>2, <1>5, <1>6

\* ... or a dial to where it led.
LEMMA DialLAN ==
  ASSUME PInv, NEW d \in Devices, dialLAN(d)
  PROVE  PInv'
<1>1. rcv[d] \in Receiver /\ faults \in 0..MaxFaults /\ rcv \in [Devices -> Receiver] /\ rcv[d].conn = NoConn
  BY DeviceFacts DEF dialLAN, OnConn
<1>2. UNCHANGED <<ln, snd, slot, seen, faults>> /\ rcv[d].pc = "hit"
  BY DEF dialLAN, RcvOnly, UnchangedServer
<1>3. CASE ln["lan"].open /\ \E c \in Fresh :
                /\ Dialled(d, "lan", c, rcv[d].key)
                /\ rcv' = [rcv EXCEPT ![d].pc = "shake", ![d].conn = c, ![d].via = "lan", ![d].first = TRUE]
  <2>1. PICK c \in Fresh : /\ Dialled(d, "lan", c, rcv[d].key)
                           /\ rcv' = [rcv EXCEPT ![d].pc = "shake", ![d].conn = c, ![d].via = "lan", ![d].first = TRUE]
    BY <1>3
  <2>2. PICK x, y : /\ x = rcv[d] /\ y = [x EXCEPT !.pc = "shake", !.conn = c, !.via = "lan", !.first = TRUE]
                    /\ rcv' = [rcv EXCEPT ![d] = y]
    BY <1>1, <2>1
  <2>3. x \in Receiver /\ c \in Conns /\ "lan" \in Paths
    BY <1>1, <2>2, Kinds DEF Fresh
  <2>4. y \in Receiver /\ y.conn = c /\ y.pc = "shake" /\ y.key = x.key
        /\ y.resumed = x.resumed /\ y.saved = x.saved /\ y.unsaved = x.unsaved
    BY <2>2, <2>3 DEF Receiver
  <2>5. /\ y.key = rcv[d].key /\ y.resumed = rcv[d].resumed /\ y.saved = rcv[d].saved /\ y.unsaved = rcv[d].unsaved
        /\ y.conn = c /\ y.pc = "shake" /\ y \in Receiver /\ rcv' = [rcv EXCEPT ![d] = y]
    BY <2>2, <2>4
  <2> QED BY <1>2, <1>3, <2>1, <2>3, <2>5, DeviceDials
<1>4. CASE rcv' = [rcv EXCEPT ![d].pc = "join"] /\ UNCHANGED conn
  <2>1. PICK x, y : x = rcv[d] /\ y = [x EXCEPT !.pc = "join"] /\ rcv' = [rcv EXCEPT ![d] = y]
    BY <1>1, <1>4
  <2>2. x \in Receiver
    BY <1>1, <2>1
  <2>3. y \in Receiver /\ y.conn = x.conn /\ y.pc = "join" /\ y.key = x.key
        /\ y.resumed = x.resumed /\ y.saved = x.saved /\ y.unsaved = x.unsaved
    BY <2>1, <2>2 DEF Receiver
  <2>4. GoesOnTo(rcv[d], y)
    BY <1>1, <2>1, <2>3 DEF GoesOnTo
  <2> QED BY <1>1, <1>2, <1>4, <2>1, <2>3, <2>4, NoJoin, RunningMoves
<1> QED BY <1>3, <1>4 DEF dialLAN

\* A slot is joined.
LEMMA JoinEffect ==
  ASSUME PairTypeOK, NEW d \in Devices, NEW k \in Secrets, slot[k].st = "waiting",
         slot' = [slot EXCEPT ![k] = [st |-> "joined", dev |-> d]]
  PROVE  Joins
<1>1. PICK v : v = [st |-> "joined", dev |-> d]
  OBVIOUS
<1>2. v \in Slot /\ v.st = "joined" /\ slot' = [slot EXCEPT ![k] = v]
  BY <1>1 DEF Slot
<1>3. slot' \in [Secrets -> Slot] /\ slot'[k] = v /\ \A j \in Secrets : j # k => slot'[j] = slot[j]
  BY <1>2, SlotEffect
<1> QED BY <1>2, <1>3 DEF Joins

\* The device joins through the server, ...
LEMMA Join ==
  ASSUME PInv, NEW d \in Devices, join(d)
  PROVE  PInv'
<1>1. PairTypeOK /\ rcv[d] \in Receiver /\ faults \in 0..MaxFaults /\ rcv \in [Devices -> Receiver] /\ rcv[d].conn = NoConn
  BY DeviceFacts DEF join, OnConn
<1>2. PICK x, y : x = rcv[d] /\ y = [x EXCEPT !.pc = "link", !.via = "net", !.armed = FALSE] /\ rcv' = [rcv EXCEPT ![d] = y]
  BY <1>1 DEF join
<1>3. x \in Receiver /\ "net" \in Paths
  BY <1>1, <1>2, Kinds
<1>4. y \in Receiver /\ y.conn = x.conn /\ y.pc = "link" /\ y.key = x.key
      /\ y.resumed = x.resumed /\ y.saved = x.saved /\ y.unsaved = x.unsaved
  BY <1>2, <1>3 DEF Receiver
<1>5. GoesOnTo(rcv[d], y)
  BY <1>1, <1>2, <1>4 DEF GoesOnTo
<1>6. UNCHANGED <<conn, ln, snd, seen, faults>> /\ rcv[d].pc = "join"
  BY DEF join
<1>7. rcv[d].key \in Secrets
  BY <1>1 DEF Receiver
<1>8. Joins
  BY <1>1, <1>7, JoinEffect DEF join
<1> QED BY <1>1, <1>2, <1>4, <1>5, <1>6, <1>8, RunningMoves

\* A command that lost the race to join.
LEMMA JoinLostMoves ==
  ASSUME PInv, NEW d \in Devices, rcv[d].pc = "join", rcv' = [rcv EXCEPT ![d] = joinLost(rcv[d])],
         Joins, UNCHANGED <<conn, ln, snd, seen>>, faults' \in 0..MaxFaults
  PROVE  PInv'
<1>1. rcv[d] \in Receiver /\ rcv[d].conn = NoConn
  BY DeviceFacts DEF OnConn
<1>2. PICK x, y : x = rcv[d] /\ y = joinLost(x) /\ rcv' = [rcv EXCEPT ![d] = y]
  BY <1>1
<1>3. x \in Receiver
  BY <1>1, <1>2
<1>4. CASE x.armed
  <2>1. y = [x EXCEPT !.pc = "last"]
    BY <1>2, <1>4 DEF joinLost
  <2>2. y \in Receiver /\ y.conn = x.conn /\ y.pc = "last" /\ y.key = x.key
        /\ y.resumed = x.resumed /\ y.saved = x.saved /\ y.unsaved = x.unsaved
    BY <1>3, <2>1 DEF Receiver
  <2>3. GoesOnTo(rcv[d], y)
    BY <1>1, <1>2, <2>2 DEF GoesOnTo
  <2> QED BY <1>2, <2>2, <2>3, RunningMoves
<1>5. CASE ~x.armed
  <2>1. y = receiveEnds(x)
    BY <1>2, <1>5 DEF joinLost
  <2>2. y \in Receiver
    BY <1>3, <2>1, EndsRecord
  <2> QED BY <1>2, <2>1, <2>2, RunningMoves
<1> QED BY <1>4, <1>5

\* ... is refused, ...
LEMMA JoinRefused ==
  ASSUME PInv, NEW d \in Devices, joinRefused(d)
  PROVE  PInv'
<1>1. faults \in 0..MaxFaults
  BY DeviceFacts
<1>2. /\ rcv[d].pc = "join" /\ rcv' = [rcv EXCEPT ![d] = joinLost(rcv[d])]
      /\ UNCHANGED <<conn, ln, snd, slot, seen, faults>>
  BY DEF joinRefused, RcvOnly, UnchangedServer
<1> QED BY <1>1, <1>2, NoJoin, JoinLostMoves

\* ... or does not reach the server, or not the answer.
LEMMA JoinFails ==
  ASSUME PInv, NEW d \in Devices, joinFails(d)
  PROVE  PInv'
<1>1. PairTypeOK /\ rcv[d] \in Receiver
  BY DeviceFacts
<1>2. /\ rcv[d].pc = "join" /\ rcv' = [rcv EXCEPT ![d] = joinLost(rcv[d])]
      /\ UNCHANGED <<conn, ln, snd, seen>> /\ faults < MaxFaults /\ faults' = faults + 1
  BY DEF joinFails
<1>3. faults' \in 0..MaxFaults
  BY <1>1, <1>2, FaultCounts
<1>4. \/ slot' = slot
      \/ \E k \in Secrets : slot[k].st = "waiting" /\ slot' = [slot EXCEPT ![k] = [st |-> "joined", dev |-> d]]
  BY DEF joinFails
<1>5. Joins
  BY <1>1, <1>4, NoJoin, JoinEffect
<1> QED BY <1>2, <1>3, <1>5, JoinLostMoves

\* The path to the sender is found or not.
LEMMA LinkStep ==
  ASSUME PInv, NEW d \in Devices, link(d)
  PROVE  PInv'
<1>1. rcv[d] \in Receiver /\ faults \in 0..MaxFaults /\ rcv \in [Devices -> Receiver] /\ rcv[d].conn = NoConn
  BY DeviceFacts DEF link, OnConn
<1>2. UNCHANGED <<conn, ln, snd, slot, seen, faults>> /\ rcv[d].pc = "link"
  BY DEF link, RcvOnly, UnchangedServer
<1>3. CASE rcv' = [rcv EXCEPT ![d].pc = "dial", ![d].attempt = 1]
  <2>1. PICK x, y : x = rcv[d] /\ y = [x EXCEPT !.pc = "dial", !.attempt = 1] /\ rcv' = [rcv EXCEPT ![d] = y]
    BY <1>1, <1>3
  <2>2. x \in Receiver /\ 1 \in 1..DefaultAttempts
    BY <1>1, <2>1, PairingAssumption
  <2>3. y \in Receiver /\ y.conn = x.conn /\ y.pc = "dial" /\ y.key = x.key
        /\ y.resumed = x.resumed /\ y.saved = x.saved /\ y.unsaved = x.unsaved
    BY <2>1, <2>2 DEF Receiver
  <2>4. GoesOnTo(rcv[d], y)
    BY <1>1, <2>1, <2>3 DEF GoesOnTo
  <2> QED BY <1>1, <1>2, <2>1, <2>3, <2>4, NoJoin, RunningMoves
<1>4. CASE rcv' = [rcv EXCEPT ![d] = receiveEnds(rcv[d])]
  <2>1. PICK y : y = receiveEnds(rcv[d])
    OBVIOUS
  <2>2. y \in Receiver
    BY <1>1, <2>1, EndsRecord
  <2> QED BY <1>1, <1>2, <1>4, <2>1, <2>2, NoJoin, RunningMoves
<1> QED BY <1>3, <1>4 DEF link

\* A device dials its route again, or gives it up.
LEMMA Dial ==
  ASSUME PInv, NEW d \in Devices, dial(d)
  PROVE  PInv'
<1>1. /\ rcv[d] \in Receiver /\ faults \in 0..MaxFaults /\ rcv \in [Devices -> Receiver] /\ rcv[d].conn = NoConn
      /\ (rcv[d].resumed <=> rcv[d].key # Code)
  BY DeviceFacts DEF dial, OnConn
<1>2. UNCHANGED <<ln, snd, slot, seen, faults>> /\ rcv[d].pc = "dial"
  BY DEF dial, RcvOnly, UnchangedServer
<1>3. CASE Reachable(d) /\ \E c \in Fresh :
                /\ Dialled(d, rcv[d].via, c, rcv[d].key)
                /\ rcv' = [rcv EXCEPT ![d].pc = "shake", ![d].conn = c, ![d].first = FALSE]
  <2>1. PICK c \in Fresh : /\ Dialled(d, rcv[d].via, c, rcv[d].key)
                           /\ rcv' = [rcv EXCEPT ![d].pc = "shake", ![d].conn = c, ![d].first = FALSE]
    BY <1>3
  <2>2. PICK x, y : /\ x = rcv[d] /\ y = [x EXCEPT !.pc = "shake", !.conn = c, !.first = FALSE]
                    /\ rcv' = [rcv EXCEPT ![d] = y]
    BY <1>1, <2>1
  <2>3. x \in Receiver /\ c \in Conns
    BY <1>1, <2>2 DEF Fresh
  <2>4. y \in Receiver /\ y.conn = c /\ y.pc = "shake" /\ y.key = x.key
        /\ y.resumed = x.resumed /\ y.saved = x.saved /\ y.unsaved = x.unsaved
    BY <2>2, <2>3 DEF Receiver
  <2>5. /\ y.key = rcv[d].key /\ y.resumed = rcv[d].resumed /\ y.saved = rcv[d].saved /\ y.unsaved = rcv[d].unsaved
        /\ y.conn = c /\ y.pc = "shake" /\ y \in Receiver /\ rcv' = [rcv EXCEPT ![d] = y]
    BY <2>2, <2>4
  <2>6. rcv[d].via \in Paths /\ ln[rcv[d].via].open
    BY <1>1, <1>3 DEF Receiver, Paths, Reachable
  <2> QED BY <1>2, <2>1, <2>5, <2>6, DeviceDials
<1>4. CASE rcv' = [rcv EXCEPT ![d] = receiveAgain(rcv[d])] /\ UNCHANGED conn
  <2>1. PICK y : y = receiveAgain(rcv[d])
    OBVIOUS
  <2>2. /\ y \in Receiver /\ y.saved = rcv[d].saved /\ y.unsaved = rcv[d].unsaved /\ y.conn \in {rcv[d].conn, NoConn}
        /\ y.pc \in {"dial", "find", "over"}
        /\ y.pc = "over" => y.key = Code /\ ~y.resumed
        /\ y.pc # "over" => y.key = rcv[d].key /\ y.resumed = rcv[d].resumed
    BY <1>1, <2>1, AgainRecord
  <2>3. Settles(rcv[d], y) /\ rcv[d].pc \notin OnConn
    BY <1>1, <1>2, <2>2 DEF Settles, OnConn, Asleep
  <2>4. rcv' = [rcv EXCEPT ![d] = y]
    BY <1>4, <2>1
  <2> QED BY <1>1, <1>2, <1>4, <2>2, <2>3, <2>4, NoJoin, DeviceMoves
<1> QED BY <1>3, <1>4 DEF dial

\* The device's end of a connection is set.
LEMMA FarEndSet ==
  ASSUME PairTypeOK, NEW b \in Conns, NEW v \in {"open", "done", "closed", "failed"}, conn' = [conn EXCEPT ![b].r = v]
  PROVE  FarEnd(b) /\ conn'[b].r = v
<1>1. conn \in [Conns -> Conn]
  BY DEF PairTypeOK, ListenerTypeOK
<1>2. PICK x, y : x = conn[b] /\ y = [x EXCEPT !.r = v] /\ conn' = [conn EXCEPT ![b] = y]
  BY <1>1
<1>3. x \in Conn
  BY <1>1, <1>2
<1>4. /\ y \in Conn /\ y.r = v /\ y.dev = x.dev /\ y.path = x.path /\ y.want = x.want /\ y.use = x.use /\ y.s = x.s
      /\ y.live = x.live
  BY <1>2, <1>3 DEF Conn
<1> QED BY <1>1, <1>2, <1>4 DEF FarEnd

\* The record of a device whose handshake succeeded: it transfers, and keeps the key.
Opens(x) == [x EXCEPT !.pc = "xfer", !.attempt = IF x.first THEN 1 ELSE x.attempt]
Kept(r, k, u) == [r EXCEPT !.key = r.conn, !.resumed = TRUE, !.saved = k, !.unsaved = u]
Adopts(r, saves) == IF r.resumed THEN r ELSE Kept(r, IF saves THEN r.conn ELSE r.saved, r.unsaved \/ ~saves)

\* The handshake succeeds at the device.
LEMMA Paired ==
  ASSUME PInv, NEW d \in Devices, paired(d)
  PROVE  PInv'
<1>1. /\ PairTypeOK /\ rcv[d] \in Receiver /\ faults \in 0..MaxFaults /\ rcv[d].conn \in Conns
  BY DeviceFacts DEF paired, OnConn
<1>2. UNCHANGED <<ln, snd, slot, seen>> /\ rcv[d].pc = "shake" /\ conn' = [conn EXCEPT ![rcv[d].conn].r = "open"]
  BY DEF paired, ReceiverHandshake
<1>3. FarEnd(rcv[d].conn) /\ conn'[rcv[d].conn].r = "open"
  BY <1>1, <1>2, FarEndSet
<1>4. PICK saves \in BOOLEAN :
          /\ saves \/ faults < MaxFaults
          /\ rcv' = [rcv EXCEPT ![d] = Adopts(Opens(rcv[d]), saves)]
          /\ faults' = IF saves THEN faults ELSE faults + 1
  BY DEF paired, Adopts, Opens, Kept
<1>5. faults' \in 0..MaxFaults
  BY <1>1, <1>4, FaultCounts
<1>6. PICK x, r, y :
        /\ x = rcv[d] /\ r = Opens(x) /\ y = Adopts(r, saves)
        /\ rcv' = [rcv EXCEPT ![d] = y]
  BY <1>4
<1>7. x \in Receiver /\ x.conn \in Conns
  BY <1>1, <1>6
<1>8. (IF x.first THEN 1 ELSE x.attempt) \in 1..DefaultAttempts
  BY <1>7, PairingAssumption DEF Receiver
<1>9. PICK a \in 1..DefaultAttempts : r = [x EXCEPT !.pc = "xfer", !.attempt = a]
  BY <1>6, <1>8 DEF Opens
<1>10. /\ r \in Receiver /\ r.pc = "xfer" /\ r.conn = x.conn /\ r.key = x.key /\ r.resumed = x.resumed
       /\ r.saved = x.saved /\ r.unsaved = x.unsaved
  BY <1>7, <1>9 DEF Receiver
<1>11. CASE r.resumed
  <2>1. y = r
    BY <1>6, <1>11 DEF Adopts
  <2> QED BY <1>2, <1>3, <1>5, <1>6, <1>10, <1>11, <2>1, DevicePairs
<1>12. CASE ~r.resumed
  <2>1. (IF saves THEN r.conn ELSE r.saved) \in Secrets /\ r.conn \in Secrets /\ (r.unsaved \/ ~saves) \in BOOLEAN
    BY <1>7, <1>10, Kinds DEF Receiver
  <2>2. PICK s \in Secrets, u \in BOOLEAN :
          s = (IF saves THEN r.conn ELSE r.saved) /\ u = (r.unsaved \/ ~saves) /\ y = Kept(r, s, u)
    BY <1>6, <1>12, <2>1, Zenon DEF Adopts
  <2>3. y \in Receiver /\ y.pc = r.pc /\ y.conn = r.conn /\ y.key = r.conn /\ y.resumed /\ y.saved = s /\ y.unsaved = u
    BY <1>10, <2>1, <2>2 DEF Receiver, Kept
  <2>4. /\ y.saved \in {rcv[d].saved, rcv[d].conn} /\ (rcv[d].unsaved => y.unsaved)
        /\ y.unsaved \/ (y.saved = rcv[d].conn /\ y.unsaved = rcv[d].unsaved)
    BY <1>6, <1>10, <2>2, <2>3 DEF Receiver
  <2>5. /\ y \in Receiver /\ rcv' = [rcv EXCEPT ![d] = y] /\ y.pc = "xfer" /\ y.conn = rcv[d].conn
        /\ ~rcv[d].resumed /\ y.key = rcv[d].conn /\ y.resumed
    BY <1>6, <1>10, <1>12, <2>3
  <2> QED BY <1>2, <1>3, <1>5, <2>4, <2>5, DevicePairs
<1> QED BY <1>11, <1>12

\* It fails at the device.
LEMMA ShakeFails ==
  ASSUME PInv, NEW d \in Devices, shakeFails(d)
  PROVE  PInv'
<1>1. /\ PairTypeOK /\ rcv[d] \in Receiver /\ faults \in 0..MaxFaults /\ rcv[d].conn \in Conns
      /\ (rcv[d].resumed <=> rcv[d].key # Code) /\ rcv \in [Devices -> Receiver]
  BY DeviceFacts DEF shakeFails, OnConn
<1>2. UNCHANGED <<ln, snd, slot, seen, faults>> /\ rcv[d].pc = "shake" /\ conn' = [conn EXCEPT ![rcv[d].conn].r = "failed"]
  BY DEF shakeFails, ReceiverFails, RcvOnly, UnchangedServer
<1>3. FarEnd(rcv[d].conn) /\ conn'[rcv[d].conn].r = "failed"
  BY <1>1, <1>2, FarEndSet
<1>4. PICK x : x = [rcv[d] EXCEPT !.conn = NoConn]
  OBVIOUS
<1>5. /\ x \in Receiver /\ x.pc = "shake" /\ x.conn = NoConn /\ x.key = rcv[d].key /\ x.resumed = rcv[d].resumed
      /\ x.saved = rcv[d].saved /\ x.unsaved = rcv[d].unsaved
  BY <1>1, <1>2, <1>4 DEF Receiver
<1>6. PICK y : /\ rcv' = [rcv EXCEPT ![d] = y]
               /\ y = [x EXCEPT !.pc = "join"] \/ y = receiveAgain(x) \/ y = receiveEnds(x)
  <2>1. [rcv EXCEPT ![d].pc = "join", ![d].conn = NoConn] = [rcv EXCEPT ![d] = [x EXCEPT !.pc = "join"]]
    BY <1>1, <1>4 DEF Receiver
  <2> QED BY <1>4, <2>1 DEF shakeFails
<1>7. y \in Receiver /\ Settles(rcv[d], y)
  <2>1. CASE y = [x EXCEPT !.pc = "join"]
    <3>1. /\ y \in Receiver /\ y.pc = "join" /\ y.conn = NoConn /\ y.key = x.key /\ y.resumed = x.resumed
          /\ y.saved = x.saved /\ y.unsaved = x.unsaved
      BY <1>5, <2>1 DEF Receiver
    <3> QED BY <1>1, <1>2, <1>5, <3>1 DEF Settles, OnConn, Asleep
  <2>2. CASE y = receiveAgain(x)
    <3>1. /\ y \in Receiver /\ y.saved = x.saved /\ y.unsaved = x.unsaved /\ y.conn \in {x.conn, NoConn}
          /\ y.pc \in {"dial", "find", "over"}
          /\ y.pc = "over" => y.key = Code /\ ~y.resumed
          /\ y.pc # "over" => y.key = x.key /\ y.resumed = x.resumed
      BY <1>5, <2>2, AgainRecord
    <3> QED BY <1>1, <1>2, <1>5, <3>1 DEF Settles, OnConn, Asleep
  <2>3. CASE y = receiveEnds(x)
    <3>1. /\ y \in Receiver /\ y.pc = "over" /\ y.key = Code /\ ~y.resumed /\ y.saved = x.saved
          /\ y.conn = NoConn /\ y.unsaved = x.unsaved
      BY <1>5, <2>3, EndsRecord
    <3> QED BY <1>1, <1>2, <1>5, <3>1 DEF Settles, OnConn, Asleep
  <2> QED BY <1>6, <2>1, <2>2, <2>3
<1>8. rcv[d].pc \in OnConn
  BY <1>2 DEF OnConn
<1> QED BY <1>1, <1>2, <1>3, <1>6, <1>7, <1>8, DeviceParts

\* The transfer ends well.
LEMMA ReceivedStep ==
  ASSUME PInv, NEW d \in Devices, received(d)
  PROVE  PInv'
<1>1. /\ PairTypeOK /\ rcv[d] \in Receiver /\ rcv[d].conn \in Conns
  BY DeviceFacts DEF received, OnConn
<1>2. /\ UNCHANGED <<ln, snd, slot, seen, faults>> /\ rcv[d].pc = "xfer" /\ conn' = [conn EXCEPT ![rcv[d].conn].r = "done"]
      /\ rcv' = [rcv EXCEPT ![d] = [receiveEnds(rcv[d]) EXCEPT !.pc = "done", !.saved = Code]]
  BY DEF received, RcvOnly, UnchangedServer
<1>3. FarEnd(rcv[d].conn) /\ conn'[rcv[d].conn].r = "done"
  BY <1>1, <1>2, FarEndSet
<1>4. PICK x, y : x = receiveEnds(rcv[d]) /\ y = [x EXCEPT !.pc = "done", !.saved = Code] /\ rcv' = [rcv EXCEPT ![d] = y]
  BY <1>2
<1>5. x \in Receiver /\ x.key = Code /\ ~x.resumed /\ x.conn = NoConn /\ Code \in Secrets
  BY <1>1, <1>4, EndsRecord, Kinds
<1>6. y \in Receiver /\ y.pc = "done" /\ y.conn = NoConn /\ y.key = Code /\ ~y.resumed /\ y.saved = Code
  BY <1>4, <1>5 DEF Receiver
<1> QED BY <1>2, <1>3, <1>4, <1>6, DeviceDone

\* The connection of a transfer is lost.
LEMMA Lost ==
  ASSUME PInv, NEW d \in Devices, lost(d)
  PROVE  PInv'
<1>1. /\ PairTypeOK /\ rcv[d] \in Receiver /\ faults \in 0..MaxFaults /\ rcv[d].conn \in Conns
      /\ (rcv[d].resumed <=> rcv[d].key # Code) /\ rcv \in [Devices -> Receiver] /\ conn[rcv[d].conn].r = "open"
  BY DeviceFacts DEF lost, OnConn, PInv, SecretShape
<1>2. UNCHANGED <<ln, snd, slot, seen, faults>> /\ rcv[d].pc = "xfer" /\ conn' = [conn EXCEPT ![rcv[d].conn].r = "closed"]
  BY DEF lost, RcvOnly, UnchangedServer
<1>3. FarEnd(rcv[d].conn) /\ conn'[rcv[d].conn].r = "closed"
  BY <1>1, <1>2, FarEndSet
<1>4. PICK x, y : /\ x = receiveAgain(rcv[d]) \/ x = receiveEnds(rcv[d])
                  /\ y = [x EXCEPT !.conn = NoConn] /\ rcv' = [rcv EXCEPT ![d] = y]
  BY DEF lost
<1>5. /\ x \in Receiver /\ x.saved = rcv[d].saved /\ x.unsaved = rcv[d].unsaved
      /\ x.pc \in {"dial", "find", "over"}
      /\ x.pc = "over" => x.key = Code /\ ~x.resumed
      /\ x.pc # "over" => x.key = rcv[d].key /\ x.resumed = rcv[d].resumed
  BY <1>1, <1>4, AgainRecord, EndsRecord
<1>6. /\ y \in Receiver /\ y.pc = x.pc /\ y.key = x.key /\ y.resumed = x.resumed /\ y.saved = x.saved
      /\ y.unsaved = x.unsaved /\ y.conn = NoConn
  BY <1>4, <1>5 DEF Receiver
<1>7. Settles(rcv[d], y) /\ rcv[d].pc \in OnConn
  BY <1>1, <1>2, <1>5, <1>6 DEF Settles, OnConn, Asleep
<1> QED BY <1>1, <1>2, <1>3, <1>4, <1>6, <1>7, DeviceParts

\* The user quits or the process dies.
LEMMA Quit ==
  ASSUME PInv, NEW d \in Devices, quit(d)
  PROVE  PInv'
<1>1. /\ PairTypeOK /\ rcv[d] \in Receiver /\ (rcv[d].resumed <=> rcv[d].key # Code)
      /\ rcv[d].pc \notin OnConn => rcv[d].conn = NoConn
      /\ rcv[d].pc \in OnConn => rcv[d].conn \in Conns
      /\ conn \in [Conns -> Conn]
  BY DeviceFacts
<1>2. /\ UNCHANGED <<ln, snd, slot, seen>> /\ rcv[d].pc \notin {"idle", "done", "over"}
      /\ rcv' = [rcv EXCEPT ![d] = receiveEnds(rcv[d])] /\ faults < MaxFaults /\ faults' = faults + 1
  BY DEF quit
<1>3. faults' \in 0..MaxFaults
  BY <1>1, <1>2, FaultCounts
<1>4. PICK y : y = receiveEnds(rcv[d]) /\ rcv' = [rcv EXCEPT ![d] = y]
  BY <1>2
<1>5. y \in Receiver /\ Settles(rcv[d], y)
  BY <1>1, <1>2, <1>4, EndsRecord, GoesOnSettles
<1>6. CASE rcv[d].pc \notin OnConn
  <2>1. conn' = conn
    BY <1>1, <1>6 DEF quit, Ended
  <2> QED BY <1>2, <1>3, <1>4, <1>5, <1>6, <2>1, NoJoin, DeviceMoves
<1>7. CASE rcv[d].pc \in OnConn
  <2>1. PICK b : b = rcv[d].conn
    OBVIOUS
  <2>2. b \in Conns /\ b # NoConn /\ conn[b] \in Conn
    BY <1>1, <1>7, <2>1, Kinds
  <2>3. PICK v, u : /\ v = IF conn[b].r = "open" THEN "closed" ELSE "failed"
                    /\ u \in BOOLEAN /\ conn' = [conn EXCEPT ![b] = [conn[b] EXCEPT !.r = v, !.cut = u]]
    <3>1. PICK silent \in BOOLEAN : conn' = Ended(d, silent)
      BY DEF quit
    <3>2. conn' = [conn EXCEPT ![b].r = IF @ = "open" THEN "closed" ELSE "failed",
                               ![b].cut = @ \/ (silent /\ conn[b].s # "closed")]
      BY <2>1, <2>2, <3>1 DEF Ended
    <3>3. conn' = [conn EXCEPT ![b] = [conn[b] EXCEPT !.r = IF conn[b].r = "open" THEN "closed" ELSE "failed",
                               !.cut = conn[b].cut \/ (silent /\ conn[b].s # "closed")]]
      BY <1>1, <2>2, <3>2 DEF Conn
    <3>4. (conn[b].cut \/ (silent /\ conn[b].s # "closed")) \in BOOLEAN
      OBVIOUS
    <3> QED BY <3>3, <3>4
  <2>4. PICK x, z : x = conn[b] /\ z = [x EXCEPT !.r = v, !.cut = u] /\ conn' = [conn EXCEPT ![b] = z]
    BY <2>3
  <2>5. x \in Conn /\ v \in {"closed", "failed"} /\ u \in BOOLEAN /\ (x.r = "handshake" => v = "failed")
    BY <2>2, <2>3, <2>4
  <2>6. /\ z \in Conn /\ z.r = v /\ z.dev = x.dev /\ z.path = x.path /\ z.want = x.want /\ z.use = x.use /\ z.s = x.s
        /\ z.live = x.live
    BY <2>4, <2>5 DEF Conn
  <2>7. /\ FarEnd(rcv[d].conn) /\ conn'[rcv[d].conn].r \in {"closed", "failed"}
        /\ conn[rcv[d].conn].r = "handshake" => conn'[rcv[d].conn].r = "failed"
    BY <1>1, <2>1, <2>2, <2>4, <2>5, <2>6 DEF FarEnd
  <2> QED BY <1>2, <1>3, <1>4, <1>5, <1>7, <2>7, DeviceParts
<1> QED BY <1>6, <1>7

\* A connection that nobody was handed is closed.
LEMMA ConnShuts ==
  ASSUME PInv,
         NEW b \in Conns,
         conn[b].s \in {"arrived", "handshake", "ready"},
         conn' = ConnClosed(conn, b),
         ln' \in [Paths -> Listening],
         SameListener("lan"),
         SameListener("net"),
         UNCHANGED <<snd, rcv, slot, faults, seen>>
  PROVE  PInv'
<1>0. PairTypeOK /\ snd \in Sender
  BY DEF PInv, PairTypeOK
<1>p. \A e \in Conns : conn[e].path = "lan" \/ conn[e].path = "net"
  BY <1>0, PathKinds
<1>2. snd' = snd
  OBVIOUS
<1>3. /\ conn' \in [Conns -> Conn] /\ \A c \in Conns : SameOrShut(c)
      /\ conn'[b].s = "closed" /\ \A c \in Conns : c # b => conn'[c] = conn[c]
      /\ SameListener("lan") /\ SameListener("net") /\ rcv' = rcv
  BY <1>0, ConnClosedEffect
<1>4. slot' = slot /\ seen' = seen /\ faults' = faults
  OBVIOUS
<1>t. PairTypeOK'
  BY <1>0, <1>2, <1>3, <1>4 DEF PairTypeOK, ListenerTypeOK
<1>s. SenderShape'
  BY <1>2 DEF PInv, SenderShape
<1>k. KeyShape'
  BY <1>2 DEF PInv, KeyShape
<1>h. HeldShape'
  BY <1>2 DEF PInv, HeldShape
<1>l. SlotShape'
  BY <1>2, <1>4 DEF PInv, SlotShape, RefusedOnlyIfLeft
<1>d. HandedShape'
  BY <1>p, <1>2, <1>3, Kinds DEF PInv, SameOrShut, Keeps, SameListener, HandedShape, SenderShape, Winning, After
<1>n. ListenShape'
  <2>1. ln'["lan"].open => snd'.lan \in {"accept", "paired"} \/ (snd'.winner = "lan" /\ snd'.pc \in Winning)
    BY <1>p, <1>2, <1>3, Kinds DEF PInv, SameListener, SameOrShut, Keeps, ListenShape, SenderShape, Winning, After
  <2>2. ln'["net"].open => snd'.net \in {"accept", "paired"} \/ (snd'.winner = "net" /\ snd'.pc \in Winning)
    BY <1>p, <1>2, <1>3, Kinds DEF PInv, SameListener, SameOrShut, Keeps, ListenShape, SenderShape, Winning, After
  <2>3. \A p \in Paths : ln'[p].open => ln'[p].secret \in {snd'.rkey, snd'.key}
    BY <1>p, <1>2, <1>3, Kinds DEF PInv, SameListener, SameOrShut, Keeps, ListenShape, SenderShape, Winning, After
  <2>4. ASSUME NEW c \in Conns
        PROVE  /\ conn'[c].s = "none" => conn'[c].dev = Nobody /\ conn'[c].r = "none" /\ ~conn'[c].live
               /\ conn'[c].s # "none" => conn'[c].dev \in Devices
               /\ conn'[c].live => ln'[conn'[c].path].open
               /\ conn'[c].live /\ conn'[c].s \in {"handshake", "ready"} => conn'[c].use \in {snd'.rkey, snd'.key}
               /\ conn'[c].s \in {"ready", "handed"} => conn'[c].use = conn'[c].want
    <3>1. CASE conn[c].path = "lan"
      BY <3>1, <1>p, <1>2, <1>3, Kinds DEF PInv, SameListener, SameOrShut, Keeps, ListenShape, SenderShape, Winning, After
    <3>2. CASE conn[c].path = "net"
      BY <3>2, <1>p, <1>2, <1>3, Kinds DEF PInv, SameListener, SameOrShut, Keeps, ListenShape, SenderShape, Winning, After
    <3> QED BY <3>1, <3>2, <1>p
  <2> QED BY <2>1, <2>2, <2>3, <2>4 DEF ListenShape
<1>c. SecretShape'
  BY <1>p, <1>2, <1>3, <1>4, Kinds DEF PInv, SameOrShut, Keeps, SameListener, SecretShape, SenderShape, KeyShape, ReturnsToFirst, Busy
<1>a. AdoptShape'
  BY <1>p, <1>2, <1>3, Kinds DEF PInv, SameOrShut, Keeps, SameListener, AdoptShape, First, Adopted, Opened, Busy
<1> QED BY <1>t, <1>s, <1>k, <1>h, <1>l, <1>d, <1>n, <1>c, <1>a DEF PInv

\* The sender's handshake on a connection starts or succeeds.
LEMMA ConnAdvances ==
  ASSUME PInv,
         NEW b \in Conns,
         conn' \in [Conns -> Conn], \A c \in Conns : c # b => conn'[c] = conn[c],
         conn'[b].dev = conn[b].dev, conn'[b].path = conn[b].path, conn'[b].want = conn[b].want,
         conn'[b].r = conn[b].r, conn'[b].live = conn[b].live,
         conn[b].s \in {"arrived", "handshake"},
         conn'[b].s \in {"handshake", "ready"},
         conn[b].live => conn'[b].use \in {snd.rkey, snd.key},
         conn'[b].s = "ready" => conn'[b].use = conn'[b].want,
         UNCHANGED <<ln, snd, rcv, slot, seen>>,
         faults' \in 0..MaxFaults
  PROVE  PInv'
<1>0. PairTypeOK /\ snd \in Sender
  BY DEF PInv, PairTypeOK
<1>p. \A e \in Conns : conn[e].path = "lan" \/ conn[e].path = "net"
  BY <1>0, PathKinds
<1>2. snd' = snd
  OBVIOUS
<1>3. rcv' = rcv /\ ln' = ln
  OBVIOUS
<1>4. slot' = slot /\ seen' = seen /\ faults' \in 0..MaxFaults
  OBVIOUS
<1>t. PairTypeOK'
  BY <1>0, <1>2, <1>3, <1>4 DEF PairTypeOK, ListenerTypeOK
<1>s. SenderShape'
  BY <1>2 DEF PInv, SenderShape
<1>k. KeyShape'
  BY <1>2 DEF PInv, KeyShape
<1>h. HeldShape'
  BY <1>2 DEF PInv, HeldShape
<1>l. SlotShape'
  BY <1>2, <1>4 DEF PInv, SlotShape, RefusedOnlyIfLeft
<1>d. HandedShape'
  BY <1>2, <1>3, Kinds DEF PInv, HandedShape, SenderShape, Winning
<1>n. ListenShape'
  <2>1. ln'["lan"].open => snd'.lan \in {"accept", "paired"} \/ (snd'.winner = "lan" /\ snd'.pc \in Winning)
    BY <1>p, <1>2, <1>3, Kinds DEF PInv, SameListener, SameOrShut, Keeps, ListenShape, SenderShape, Winning, After
  <2>2. ln'["net"].open => snd'.net \in {"accept", "paired"} \/ (snd'.winner = "net" /\ snd'.pc \in Winning)
    BY <1>p, <1>2, <1>3, Kinds DEF PInv, SameListener, SameOrShut, Keeps, ListenShape, SenderShape, Winning, After
  <2>3. \A p \in Paths : ln'[p].open => ln'[p].secret \in {snd'.rkey, snd'.key}
    BY <1>p, <1>2, <1>3, Kinds DEF PInv, SameListener, SameOrShut, Keeps, ListenShape, SenderShape, Winning, After
  <2>4. ASSUME NEW c \in Conns
        PROVE  /\ conn'[c].s = "none" => conn'[c].dev = Nobody /\ conn'[c].r = "none" /\ ~conn'[c].live
               /\ conn'[c].s # "none" => conn'[c].dev \in Devices
               /\ conn'[c].live => ln'[conn'[c].path].open
               /\ conn'[c].live /\ conn'[c].s \in {"handshake", "ready"} => conn'[c].use \in {snd'.rkey, snd'.key}
               /\ conn'[c].s \in {"ready", "handed"} => conn'[c].use = conn'[c].want
    <3>1. CASE conn[c].path = "lan"
      BY <3>1, <1>p, <1>2, <1>3, Kinds DEF PInv, SameListener, SameOrShut, Keeps, ListenShape, SenderShape, Winning, After
    <3>2. CASE conn[c].path = "net"
      BY <3>2, <1>p, <1>2, <1>3, Kinds DEF PInv, SameListener, SameOrShut, Keeps, ListenShape, SenderShape, Winning, After
    <3> QED BY <3>1, <3>2, <1>p
  <2> QED BY <2>1, <2>2, <2>3, <2>4 DEF ListenShape
<1>c. SecretShape'
  BY <1>2, <1>3, <1>4, Kinds DEF PInv, SecretShape, SenderShape, KeyShape, ReturnsToFirst, Busy
<1>a. AdoptShape'
  BY <1>2, <1>3, Kinds DEF PInv, AdoptShape, First, Adopted, Opened, Busy
<1> QED BY <1>t, <1>s, <1>k, <1>h, <1>l, <1>d, <1>n, <1>c, <1>a DEF PInv

\* The network stops carrying a connection.
LEMMA ConnCut ==
  ASSUME PInv,
         NEW b \in Conns,
         conn' \in [Conns -> Conn], \A c \in Conns : c # b => conn'[c] = conn[c],
         conn'[b].dev = conn[b].dev, conn'[b].path = conn[b].path, conn'[b].want = conn[b].want,
         conn'[b].r = conn[b].r, conn'[b].live = conn[b].live,
         conn'[b].s = conn[b].s,
         conn'[b].use = conn[b].use,
         UNCHANGED <<ln, snd, rcv, slot, seen>>,
         faults' \in 0..MaxFaults
  PROVE  PInv'
<1>0. PairTypeOK /\ snd \in Sender
  BY DEF PInv, PairTypeOK
<1>p. \A e \in Conns : conn[e].path = "lan" \/ conn[e].path = "net"
  BY <1>0, PathKinds
<1>2. snd' = snd
  OBVIOUS
<1>3. rcv' = rcv /\ ln' = ln
  OBVIOUS
<1>4. slot' = slot /\ seen' = seen /\ faults' \in 0..MaxFaults
  OBVIOUS
<1>t. PairTypeOK'
  BY <1>0, <1>2, <1>3, <1>4 DEF PairTypeOK, ListenerTypeOK
<1>s. SenderShape'
  BY <1>2 DEF PInv, SenderShape
<1>k. KeyShape'
  BY <1>2 DEF PInv, KeyShape
<1>h. HeldShape'
  BY <1>2 DEF PInv, HeldShape
<1>l. SlotShape'
  BY <1>2, <1>4 DEF PInv, SlotShape, RefusedOnlyIfLeft
<1>d. HandedShape'
  BY <1>2, <1>3, Kinds DEF PInv, HandedShape, SenderShape, Winning
<1>n. ListenShape'
  <2>1. ln'["lan"].open => snd'.lan \in {"accept", "paired"} \/ (snd'.winner = "lan" /\ snd'.pc \in Winning)
    BY <1>p, <1>2, <1>3, Kinds DEF PInv, SameListener, SameOrShut, Keeps, ListenShape, SenderShape, Winning, After
  <2>2. ln'["net"].open => snd'.net \in {"accept", "paired"} \/ (snd'.winner = "net" /\ snd'.pc \in Winning)
    BY <1>p, <1>2, <1>3, Kinds DEF PInv, SameListener, SameOrShut, Keeps, ListenShape, SenderShape, Winning, After
  <2>3. \A p \in Paths : ln'[p].open => ln'[p].secret \in {snd'.rkey, snd'.key}
    BY <1>p, <1>2, <1>3, Kinds DEF PInv, SameListener, SameOrShut, Keeps, ListenShape, SenderShape, Winning, After
  <2>4. ASSUME NEW c \in Conns
        PROVE  /\ conn'[c].s = "none" => conn'[c].dev = Nobody /\ conn'[c].r = "none" /\ ~conn'[c].live
               /\ conn'[c].s # "none" => conn'[c].dev \in Devices
               /\ conn'[c].live => ln'[conn'[c].path].open
               /\ conn'[c].live /\ conn'[c].s \in {"handshake", "ready"} => conn'[c].use \in {snd'.rkey, snd'.key}
               /\ conn'[c].s \in {"ready", "handed"} => conn'[c].use = conn'[c].want
    <3>1. CASE conn[c].path = "lan"
      BY <3>1, <1>p, <1>2, <1>3, Kinds DEF PInv, SameListener, SameOrShut, Keeps, ListenShape, SenderShape, Winning, After
    <3>2. CASE conn[c].path = "net"
      BY <3>2, <1>p, <1>2, <1>3, Kinds DEF PInv, SameListener, SameOrShut, Keeps, ListenShape, SenderShape, Winning, After
    <3> QED BY <3>1, <3>2, <1>p
  <2> QED BY <2>1, <2>2, <2>3, <2>4 DEF ListenShape
<1>c. SecretShape'
  BY <1>2, <1>3, <1>4, Kinds DEF PInv, SecretShape, SenderShape, KeyShape, ReturnsToFirst, Busy
<1>a. AdoptShape'
  BY <1>2, <1>3, Kinds DEF PInv, AdoptShape, First, Adopted, Opened, Busy
<1> QED BY <1>t, <1>s, <1>k, <1>h, <1>l, <1>d, <1>n, <1>c, <1>a DEF PInv

\* The accept loop takes or refuses a connection.
LEMMA AcceptLoop ==
  ASSUME PInv, NEW c \in Conns, acceptLoop(c), UNCHANGED <<snd, rcv>>, UnchangedServer
  PROVE  PInv'
<1>1. conn \in [Conns -> Conn] /\ ln \in [Paths -> Listening] /\ faults \in 0..MaxFaults
  BY DEF PInv, PairTypeOK, ListenerTypeOK
<1>2. conn[c].s = "arrived" /\ UNCHANGED <<ln, snd, rcv, slot, seen, faults>> /\ SameListener("lan") /\ SameListener("net")
  BY DEF acceptLoop, UnchangedServer, SameListener
<1>3. CASE conn' = [conn EXCEPT ![c] = Shut(conn[c])]
  <2>1. conn' = ConnClosed(conn, c)
    BY <1>3 DEF ConnClosed
  <2> QED BY <1>1, <1>2, <2>1, ConnShuts
<1>4. CASE conn[c].live /\ conn' = [conn EXCEPT ![c] = [conn[c] EXCEPT !.s = "handshake", !.use = ln[conn[c].path].secret]]
  <2>1. conn[c] \in Conn /\ conn[c].path \in Paths
    BY <1>1 DEF Conn
  <2>2. ln[conn[c].path].secret \in Secrets /\ ln[conn[c].path].secret \in {snd.rkey, snd.key}
    BY <1>1, <1>4, <2>1 DEF PInv, ListenShape, Listening
  <2>3. PICK x, k, y : /\ x = conn[c] /\ k = ln[conn[c].path].secret /\ y = [x EXCEPT !.s = "handshake", !.use = k]
                       /\ conn' = [conn EXCEPT ![c] = y]
    BY <1>4
  <2>4. x \in Conn /\ k \in Secrets
    BY <2>1, <2>2, <2>3
  <2>5. /\ y \in Conn /\ y.s = "handshake" /\ y.use = k /\ y.dev = x.dev /\ y.path = x.path /\ y.want = x.want
        /\ y.r = x.r /\ y.live = x.live
    BY <2>3, <2>4 DEF Conn
  <2>6. /\ conn' \in [Conns -> Conn] /\ \A b \in Conns : b # c => conn'[b] = conn[b]
        /\ conn'[c] = y
    BY <1>1, <2>3, <2>5
  <2> QED BY <1>1, <1>2, <2>2, <2>3, <2>5, <2>6, ConnAdvances
<1> QED BY <1>3, <1>4 DEF acceptLoop

\* The sender's handshake succeeds.
LEMMA SenderShakes ==
  ASSUME PInv, NEW c \in Conns, SenderHandshake(c), UNCHANGED <<snd, rcv>>, UnchangedServer
  PROVE  PInv'
<1>1. conn \in [Conns -> Conn] /\ faults \in 0..MaxFaults
  BY DEF PInv, PairTypeOK, ListenerTypeOK
<1>2. /\ conn[c].s = "handshake" /\ conn[c].use = conn[c].want /\ UNCHANGED <<ln, snd, rcv, slot, seen, faults>>
      /\ conn' = [conn EXCEPT ![c].s = "ready"]
  BY DEF SenderHandshake, UnchangedServer
<1>3. PICK x, y : x = conn[c] /\ y = [x EXCEPT !.s = "ready"] /\ conn' = [conn EXCEPT ![c] = y]
  BY <1>1, <1>2
<1>4. x \in Conn
  BY <1>1, <1>3
<1>5. /\ y \in Conn /\ y.s = "ready" /\ y.use = x.use /\ y.dev = x.dev /\ y.path = x.path /\ y.want = x.want
      /\ y.r = x.r /\ y.live = x.live
  BY <1>3, <1>4 DEF Conn
<1>6. /\ conn' \in [Conns -> Conn] /\ \A b \in Conns : b # c => conn'[b] = conn[b]
      /\ conn'[c] = y
  BY <1>1, <1>3, <1>5
<1>7. conn[c].live => conn[c].use \in {snd.rkey, snd.key}
  BY <1>2 DEF PInv, ListenShape
<1> QED BY <1>1, <1>2, <1>3, <1>5, <1>6, <1>7, ConnAdvances

\* A connection is cut.
LEMMA CutStep ==
  ASSUME PInv, NEW c \in Conns, Cut(c)
  PROVE  PInv'
<1>1. PairTypeOK /\ conn \in [Conns -> Conn] /\ faults \in 0..MaxFaults
  BY DEF PInv, PairTypeOK, ListenerTypeOK
<1>2. /\ UNCHANGED <<ln, snd, rcv, slot, seen>> /\ faults < MaxFaults /\ faults' = faults + 1
      /\ conn' = [conn EXCEPT ![c].cut = TRUE]
  BY DEF Cut, cut
<1>3. PICK x, y : x = conn[c] /\ y = [x EXCEPT !.cut = TRUE] /\ conn' = [conn EXCEPT ![c] = y]
  BY <1>1, <1>2
<1>4. x \in Conn
  BY <1>1, <1>3
<1>5. /\ y \in Conn /\ y.s = x.s /\ y.use = x.use /\ y.dev = x.dev /\ y.path = x.path /\ y.want = x.want
      /\ y.r = x.r /\ y.live = x.live
  BY <1>3, <1>4 DEF Conn
<1>6. /\ conn' \in [Conns -> Conn] /\ \A b \in Conns : b # c => conn'[b] = conn[b]
      /\ conn'[c] = y
  <2>1. conn \in [Conns -> Conn] /\ y \in Conn /\ conn' = [conn EXCEPT ![c] = y]
    BY <1>1, <1>3, <1>5
  <2> QED BY ONLY <2>1, c \in Conns
<1>7. faults' \in 0..MaxFaults
  BY <1>1, <1>2, FaultCounts
<1>8. /\ conn'[c].dev = conn[c].dev /\ conn'[c].path = conn[c].path /\ conn'[c].want = conn[c].want
      /\ conn'[c].r = conn[c].r /\ conn'[c].live = conn[c].live /\ conn'[c].s = conn[c].s /\ conn'[c].use = conn[c].use
  BY <1>3, <1>5, <1>6
<1>9. UNCHANGED <<ln, snd, rcv, slot, seen>>
  BY <1>2
<1> QED BY <1>6, <1>7, <1>8, <1>9, ConnCut

\* The sender's handshake fails.
LEMMA HandshakeFailed ==
  ASSUME PInv, NEW c \in Conns, handshakeFailed(c), UNCHANGED <<snd, rcv>>, UnchangedServer
  PROVE  PInv'
<1>1. PairTypeOK /\ ln \in [Paths -> Listening] /\ conn[c] \in Conn
  BY DEF PInv, PairTypeOK, ListenerTypeOK
<1>2. conn[c].s = "handshake" /\ UNCHANGED <<snd, rcv, slot, seen, faults>> /\ conn' = ConnClosed(conn, c)
  BY DEF handshakeFailed, UnchangedServer
<1>3. PICK kind \in {"auth", "other"} : ln' = IF conn[c].live THEN [ln EXCEPT ![conn[c].path] = FailAdded(ln[conn[c].path], kind)] ELSE ln
  BY DEF handshakeFailed
<1>4. conn[c].path \in Paths
  BY <1>1 DEF Conn
<1>5. PICK l : l = FailAdded(ln[conn[c].path], kind)
  OBVIOUS
<1>6. l \in Listening /\ l.open = ln[conn[c].path].open /\ l.secret = ln[conn[c].path].secret
  BY <1>1, <1>4, <1>5, FailAddedEffect
<1>7. ln' \in [Paths -> Listening] /\ SameListener("lan") /\ SameListener("net")
  BY <1>1, <1>3, <1>4, <1>5, <1>6, Kinds DEF SameListener
<1> QED BY <1>2, <1>7, ConnShuts

\* A finished handshake whose listener is gone.
LEMMA Abandon ==
  ASSUME PInv, NEW c \in Conns, abandon(c), UNCHANGED <<snd, rcv>>, UnchangedServer
  PROVE  PInv'
<1>1. ln \in [Paths -> Listening]
  BY DEF PInv, PairTypeOK, ListenerTypeOK
<1>2. conn[c].s = "ready" /\ UNCHANGED <<ln, snd, rcv, slot, seen, faults>> /\ conn' = ConnClosed(conn, c)
  BY DEF abandon, UnchangedServer
<1>3. SameListener("lan") /\ SameListener("net")
  BY <1>2 DEF SameListener
<1> QED BY <1>1, <1>2, <1>3, ConnShuts

\* The server loses a slot.
LEMMA ServerLoses ==
  ASSUME PInv,
         NEW k \in Secrets,
         serverLoses(k)
  PROVE  PInv'
<1>0. PairTypeOK /\ snd \in Sender
  BY DEF PInv, PairTypeOK
<1>p. \A e \in Conns : conn[e].path = "lan" \/ conn[e].path = "net"
  BY <1>0, PathKinds
<1>r. snd.rkey \in Secrets /\ Code \in Secrets
  BY <1>0, Kinds DEF Sender
<1>q. snd.paired => snd.pc \in After
  BY <1>0 DEF PInv, Sender, SenderShape, After
<1>5. PICK v : v = [st |-> "none", dev |-> Nobody]
  OBVIOUS
<1>6. /\ v \in Slot /\ v.st = "none" /\ slot' = [slot EXCEPT ![k] = v]
      /\ seen' = [seen EXCEPT !.stale = seen.stale \cup {k}] /\ faults < MaxFaults /\ faults' = faults + 1
  BY <1>5 DEF Slot, serverLoses
<1>2. snd' = snd
  BY DEF serverLoses
<1>3. conn' = conn /\ ln' = ln /\ rcv' = rcv /\ snd' = snd
  BY DEF serverLoses
<1>4. /\ slot' \in [Secrets -> Slot] /\ slot'[k].st = "none" /\ (\A j \in Secrets : j # k => slot'[j] = slot[j])
      /\ seen' \in [first : Devices \cup {Nobody}, owed : BOOLEAN, stale : SUBSET Secrets]
      /\ seen'.first = seen.first /\ seen'.owed = seen.owed /\ seen'.stale = seen.stale \cup {k} /\ faults' \in 0..MaxFaults
  BY <1>0, <1>6, SlotEffect, StaleEffect, FaultCounts
<1>t. PairTypeOK'
  BY <1>0, <1>2, <1>3, <1>4 DEF PairTypeOK, ListenerTypeOK
<1>s. SenderShape'
  BY <1>2 DEF PInv, SenderShape
<1>k. KeyShape'
  BY <1>2 DEF PInv, KeyShape
<1>h. HeldShape'
  BY <1>2 DEF PInv, HeldShape
<1>l. SlotShape'
  BY <1>r, <1>2, <1>4 DEF PInv, SlotShape, RefusedOnlyIfLeft
<1>d. HandedShape'
  BY <1>2, <1>3 DEF PInv, HandedShape
<1>n. ListenShape'
  BY <1>2, <1>3 DEF PInv, ListenShape
<1>c. SecretShape'
  BY <1>2, <1>3, <1>4 DEF PInv, SecretShape, ReturnsToFirst
<1>a. AdoptShape'
  BY <1>2, <1>3 DEF PInv, AdoptShape, First, Adopted, Opened
<1> QED BY <1>t, <1>s, <1>k, <1>h, <1>l, <1>d, <1>n, <1>c, <1>a DEF PInv

-----------------------------------------------------------------------------
\* Before anything has happened.
LEMMA InitPInv ==
  ASSUME Init
  PROVE  PInv
<1>1. /\ conn = [c \in Conns |-> Undialled] /\ ln = [p \in Paths |-> NotListening]
      /\ rcv = [d \in Devices |-> NotRunning] /\ slot = [k \in Secrets |-> [st |-> "none", dev |-> Nobody]]
      /\ faults = 0 /\ seen = [first |-> Nobody, owed |-> FALSE, stale |-> {}]
  BY DEF Init, ListenerInit
<1>2. /\ 1 \in 1..DefaultAttempts /\ 0 \in 0..maxAuthFailures /\ 0 \in 0..(maxPasswordRounds - 1) /\ 1 \in 1..MaxRounds
      /\ 0 \in 0..maxRepairRounds /\ 0 \in 0..MaxStarts /\ 0 \in 0..MaxFaults /\ ~(1 > 1)
  BY PairingAssumption
<1>3. snd \in Sender
  BY <1>2, Kinds DEF Init, Sender
<1>4. /\ snd.pc = "pair" /\ snd.key = Code /\ ~snd.resumed /\ snd.rkey = Code /\ ~snd.resume /\ snd.winner = "none"
      /\ ~snd.paired /\ snd.lan = "bind" /\ snd.net = "create" /\ snd.lanConn = NoConn /\ snd.netConn = NoConn
      /\ snd.cur = NoConn /\ ~snd.held /\ snd.rounds = 1
  BY DEF Init
<1>5. /\ NotRunning \in Receiver /\ NotRunning.pc = "idle" /\ NotRunning.key = Code /\ ~NotRunning.resumed
      /\ NotRunning.saved = Code /\ NotRunning.conn = NoConn
  BY <1>2, Kinds DEF NotRunning, Receiver
<1>6. /\ Undialled \in Conn /\ Undialled.s = "none" /\ Undialled.r = "none" /\ Undialled.dev = Nobody /\ ~Undialled.live
  BY Kinds DEF Undialled, Conn
<1>7. NotListening \in Listening /\ ~NotListening.open
  BY ListenerRecords
<1>8. /\ \A c \in Conns : conn[c] = Undialled
      /\ \A p \in Paths : ln[p] = NotListening
      /\ \A d \in Devices : rcv[d] = NotRunning
      /\ \A k \in Secrets : slot[k].st = "none"
      /\ seen.first = Nobody /\ ~seen.owed /\ seen.stale = {}
  BY <1>1
<1>9. [st |-> "none", dev |-> Nobody] \in Slot
  BY DEF Slot
<1>10. slot \in [Secrets -> Slot]
  BY <1>1, <1>9
<1>11. /\ conn \in [Conns -> Conn] /\ ln \in [Paths -> Listening] /\ rcv \in [Devices -> Receiver]
       /\ seen \in [first : Devices \cup {Nobody}, owed : BOOLEAN, stale : SUBSET Secrets]
  BY <1>1, <1>5, <1>6, <1>7
<1>t. PairTypeOK
  BY <1>1, <1>2, <1>3, <1>10, <1>11 DEF PairTypeOK, ListenerTypeOK
<1>s. SenderShape
  BY <1>4 DEF SenderShape, After
<1>k. KeyShape
  BY <1>2, <1>4 DEF KeyShape
<1>h. HeldShape
  BY <1>4 DEF HeldShape
<1>l. SlotShape
  BY <1>4, <1>8 DEF SlotShape, RefusedOnlyIfLeft
<1>d. HandedShape
  BY <1>4, <1>6, <1>8 DEF HandedShape
<1>n. ListenShape
  BY <1>4, <1>6, <1>7, <1>8, Kinds DEF ListenShape
<1>c. SecretShape
  BY <1>4, <1>5, <1>6, <1>8, Kinds DEF SecretShape, ReturnsToFirst, Busy
<1>a. AdoptShape
  BY <1>4, <1>5, <1>6, <1>8, Kinds DEF AdoptShape, First, Opened, Busy
<1> QED BY <1>t, <1>s, <1>k, <1>h, <1>l, <1>d, <1>n, <1>c, <1>a DEF PInv

\* Steps that change nothing.
LEMMA StutterPInv ==
  ASSUME PInv, UNCHANGED vars
  PROVE  PInv'
<1>1. conn' = conn /\ ln' = ln /\ snd' = snd /\ rcv' = rcv /\ slot' = slot /\ faults' = faults /\ seen' = seen
  BY DEF vars
<1>t. PairTypeOK'
  BY <1>1 DEF PInv, PairTypeOK, ListenerTypeOK
<1>s. SenderShape' /\ KeyShape' /\ HeldShape'
  BY <1>1 DEF PInv, SenderShape, KeyShape, HeldShape
<1>l. SlotShape'
  BY <1>1 DEF PInv, SlotShape, RefusedOnlyIfLeft
<1>d. HandedShape' /\ ListenShape'
  BY <1>1 DEF PInv, HandedShape, ListenShape
<1>c. SecretShape'
  BY <1>1 DEF PInv, SecretShape, ReturnsToFirst
<1>a. AdoptShape'
  BY <1>1 DEF PInv, AdoptShape, First, Opened, Adopted
<1> QED BY <1>t, <1>s, <1>l, <1>d, <1>c, <1>a DEF PInv

\* The steps of the two goroutines, ...
LEMMA GoroutineSteps ==
  ASSUME PInv, LanGoroutine \/ NetGoroutine
  PROVE  PInv'
<1>1. CASE LanGoroutine
  BY <1>1, BindLAN, LanPairs, LanAbsorbs, LanCancelled DEF LanGoroutine
<1>2. CASE create
  BY <1>2, Create DEF create
<1>3. CASE createClaimed
  BY <1>3, CreateClaimed DEF createClaimed
<1>4. CASE pollsFail
  <2>1. /\ UNCHANGED <<conn, ln, rcv>> /\ UNCHANGED <<slot, seen>>
        /\ faults < MaxFaults /\ faults' = faults + 1 /\ snd' = [snd EXCEPT !.downCh = TRUE]
    BY <1>4 DEF pollsFail
  <2> QED BY <2>1, ServerDown
<1>5. CASE waitCancelled
  BY <1>5, WaitCancelled DEF waitCancelled
<1>6. CASE pathFound
  BY <1>6, PathFound DEF pathFound
<1>7. CASE budgetSpent
  BY <1>7, BudgetSpent DEF budgetSpent
<1>8. CASE createFails \/ createCancelled \/ waitForReceiver \/ pathFails \/ netPairs \/ netGone
  BY <1>8, CreateFails, CreateCancelled, WaitForReceiver, PathFails, NetPairs, NetGone
<1> QED BY <1>1, <1>2, <1>3, <1>4, <1>5, <1>6, <1>7, <1>8 DEF NetGoroutine

\* ... of the coordinator, ...
LEMMA CoordinatorSteps ==
  ASSUME PInv, Coordinator \/ drainLoser
  PROVE  PInv'
<1>1. CASE takeLAN \/ takeNet \/ takeDown \/ expire \/ bothFailed \/ commit
  BY <1>1, TakeLAN, TakeNet, TakeDown, Expire, BothFailed, Commit
<1>2. CASE drainBoth \/ drainLoser \/ finish \/ leave
  BY <1>2, DrainBoth, DrainLoser, Finish, Leave
<1>3. CASE sent \/ receiverClosed \/ dropped \/ refused \/ reaccept \/ reacceptAbsorbs \/ reacceptTimesOut
  BY <1>3, Sent, ReceiverClosed, Dropped, Refused, Reaccept, ReacceptAbsorbs, ReacceptTimesOut
<1> QED BY <1>1, <1>2, <1>3 DEF Coordinator

\* ... of a device, ...
LEMMA DeviceSteps ==
  ASSUME PInv, NEW d \in Devices, runReceive(d) \/ quit(d) \/ ReceiverSteps(d)
  PROVE  PInv'
<1>1. CASE runReceive(d) \/ quit(d)
  BY <1>1, RunReceive, Quit
<1>2. CASE headStart(d) \/ lanAnswer(d) \/ lanMiss(d) \/ dialLAN(d) \/ join(d) \/ joinRefused(d) \/ joinFails(d)
  BY <1>2, HeadStart, LanAnswer, LanMiss, DialLAN, Join, JoinRefused, JoinFails
<1>3. CASE link(d) \/ dial(d) \/ paired(d) \/ shakeFails(d) \/ received(d) \/ lost(d)
  BY <1>3, LinkStep, Dial, Paired, ShakeFails, ReceivedStep, Lost
<1> QED BY <1>1, <1>2, <1>3 DEF ReceiverSteps

\* ... and of the listeners and the network.
LEMMA ConnSteps ==
  ASSUME PInv, NEW c \in Conns, Listens(c) \/ Cut(c)
  PROVE  PInv'
<1>1. CASE Listens(c)
  <2>1. UNCHANGED <<snd, rcv>> /\ UnchangedServer /\ (acceptLoop(c) \/ SenderHandshake(c) \/ handshakeFailed(c) \/ abandon(c))
    BY <1>1 DEF Listens, ListenerSteps
  <2> QED BY <2>1, AcceptLoop, SenderShakes, HandshakeFailed, Abandon
<1>2. CASE Cut(c)
  BY <1>2, CutStep
<1> QED BY <1>1, <1>2

\* PInv is an invariant of every pairing.
THEOREM Invariance == Spec => []PInv
<1>1. Init => PInv
  BY InitPInv
<1>2. PInv /\ [Next]_vars => PInv'
  <2>1. SUFFICES ASSUME PInv, [Next]_vars PROVE PInv'
    OBVIOUS
  <2>2. CASE LanGoroutine \/ NetGoroutine
    BY <2>1, <2>2, GoroutineSteps
  <2>3. CASE Coordinator \/ drainLoser
    BY <2>1, <2>3, CoordinatorSteps
  <2>4. CASE \E c \in Conns : Listens(c) \/ Cut(c)
    BY <2>1, <2>4, ConnSteps
  <2>5. CASE \E d \in Devices : runReceive(d) \/ quit(d) \/ ReceiverSteps(d)
    BY <2>1, <2>5, DeviceSteps
  <2>6. CASE \E k \in Secrets : serverLoses(k)
    BY <2>1, <2>6, ServerLoses
  <2>7. CASE UNCHANGED vars
    BY <2>1, <2>7, StutterPInv
  <2> QED BY <2>1, <2>2, <2>3, <2>4, <2>5, <2>6, <2>7 DEF Next
<1> QED BY <1>1, <1>2, PTL DEF Spec

\* Every variable of a pairing keeps its type: the sender's counters of attempts,
\* failed authentications and lost password rounds stay within their limits
\* (sendSession.authFailed, runSenderTransferLoop), and so do the receiver's
\* (receiveOver).
THEOREM PairTypeCorrect == Spec => []PairTypeOK
<1>1. PInv => PairTypeOK
  BY DEF PInv
<1> QED BY <1>1, Invariance, PTL

\* Between rounds the sender holds no connection: runSendOnce's cleanups and
\* drains release the winner's, the loser's and the re-accepted ones, however
\* late a goroutine's connection lands.
THEOREM ReleasedCorrect == Spec => []LoserReleased
<1>1. PInv => LoserReleased
  <2>1. SUFFICES ASSUME PInv, NEW c \in Conns, conn[c].s = "handed",
                        snd.pc = "over" \/ (snd.pc = "pair" /\ snd.lan = "bind" /\ snd.net = "create")
                 PROVE  FALSE
    BY DEF LoserReleased
  <2> QED BY <2>1 DEF PInv, HandedShape, SenderShape, Winning
<1> QED BY <1>1, Invariance, PTL

\* createWithRetry is refused as claimed only for a slot that a lost answer, a
\* lost end or a spent relay budget left behind: the rounds of a session, and
\* its switch to the resume key, do not block each other.
THEOREM ClaimCorrect == Spec => []RefusedOnlyIfLeft
<1>1. PInv => RefusedOnlyIfLeft
  BY DEF PInv, SlotShape
<1> QED BY <1>1, Invariance, PTL

\* A code that paired while the server held its session is spent once the round
\* is left (consumeCode): nobody can create a session on it again, unless the
\* server lost the slot or the request.
THEOREM SpentCorrect == Spec => []CodeSpent
<1>1. PInv => CodeSpent
  <2>1. SUFFICES ASSUME PInv, seen.owed, snd.pc = "over" \/ snd.rounds > 1, Code \notin seen.stale
                 PROVE  slot[Code].st \in {"joined", "consumed"}
    BY DEF CodeSpent
  <2>2. snd.pc = "over" => ~snd.held
    BY <2>1 DEF PInv, SenderShape
  <2>3. snd.rounds > 1 => snd.resume
    BY <2>1 DEF PInv, KeyShape
  <2> QED BY <2>1, <2>2, <2>3 DEF PInv, SlotShape
<1> QED BY <1>1, Invariance, PTL

\* After the first pairing a round is only ever won by the device of that first
\* pairing: sendSession.paired sets the key once, and the key stays between the
\* two ends that made it.
THEOREM ReturnCorrect == Spec => []ReturnsToFirst
<1>1. PInv => ReturnsToFirst
  BY DEF PInv, SecretShape
<1> QED BY <1>1, Invariance, PTL

\* A device that opened the connection the session's key comes from looks for
\* the sender under that very key, and has it saved between runs
\* (recvSession.paired), unless it is done or the key could not be written.
THEOREM KeysCorrect == Spec => []KeysAgree
<1>1. PInv => KeysAgree
  <2>1. SUFFICES ASSUME PInv, snd.resumed, Opened(snd.key), NEW d \in {conn[snd.key].dev} \cap Devices
                 PROVE  \/ rcv[d].pc = "done" \/ rcv[d].unsaved
                        \/ rcv[d].pc \in {"idle", "over"} /\ rcv[d].saved = snd.key
                        \/ rcv[d].pc \notin {"idle", "done", "over"} /\ rcv[d].key = snd.key
    BY DEF KeysAgree
  <2>2. snd.key \in Conns /\ First(snd.key)
    BY <2>1 DEF PInv, KeyShape, First
  <2>3. Adopted(conn[snd.key].dev, snd.key) /\ d = conn[snd.key].dev
    BY <2>1, <2>2 DEF PInv, AdoptShape
  <2> QED BY <2>3 DEF Adopted
<1> QED BY <1>1, Invariance, PTL
=============================================================================
