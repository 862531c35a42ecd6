------------------------------- MODULE Listener -------------------------------
(***************************************************************************)
(* The sender's authenticated QUIC listeners (internal/quicconn) and the   *)
(* connections devices dial to them: the accept loop with its bound on     *)
(* pending handshakes, one goroutine per handshake that reads the secret   *)
(* when it starts, the unbuffered channel of authenticated connections,    *)
(* the channel of failures, SetSecret and Close.  The cryptography is      *)
(* taken at its word: two ends authenticate exactly when they used the     *)
(* same secret, and a finished handshake yields a binding no other         *)
(* connection has, so the connection's number stands for its binding.      *)
(***************************************************************************)
EXTENDS Naturals, FiniteSets

CONSTANTS Devices,               \* receiving devices
          Nobody,                \* no device
          MaxConns,              \* bound on the connections ever dialled
          maxPendingHandshakes,  \* handshakes a listener runs at once
          FailCap                \* capacity of the channel of failures

Conns == 1..MaxConns
Code == 0                \* the short code; a resume secret is its connection's number
Secrets == {Code} \cup Conns
Paths == {"lan", "net"}

ASSUME ListenerAssumption == /\ Nobody \notin Devices /\ MaxConns \in Nat \ {0}
                             /\ maxPendingHandshakes \in Nat \ {0}
                             /\ FailCap \in Nat \ {0}

VARIABLES conn,  \* the connections
          ln     \* the listener of each path

Conn == [dev : Devices \cup {Nobody}, path : Paths, want : Secrets, use : Secrets,
         s : {"none", "arrived", "handshake", "ready", "handed", "closed"},
         r : {"none", "handshake", "open", "done", "closed", "failed"},
         live : BOOLEAN,   \* its listener is still open
         cut : BOOLEAN]    \* the network no longer carries it

Listening == [open : BOOLEAN, port : Secrets, secret : Secrets,
              auth : 0..FailCap, other : 0..FailCap]

Undialled == [dev |-> Nobody, path |-> "lan", want |-> Code, use |-> Code,
              s |-> "none", r |-> "none", live |-> FALSE, cut |-> FALSE]
NotListening == [open |-> FALSE, port |-> Code, secret |-> Code, auth |-> 0, other |-> 0]

ListenerInit == /\ conn = [c \in Conns |-> Undialled]
                /\ ln = [p \in Paths |-> NotListening]

Fresh == {c \in Conns : conn[c].s = "none" /\ \A b \in Conns : b < c => conn[b].s # "none"}

(* ListenAddr and NewListener: a listener of its own, on a port that stands *)
(* for the rendezvous it was derived from.                                  *)
NewListener(k) == [open |-> TRUE, port |-> k, secret |-> k, auth |-> 0, other |-> 0]

(* Close: accepted connections stay open, pending handshakes are on their own. *)
Closed(cs, p) == [c \in Conns |-> IF cs[c].path = p THEN [cs[c] EXCEPT !.live = FALSE] ELSE cs[c]]

(* A connection the sender has closed: nothing but its end matters any more. *)
Shut(cn) == [cn EXCEPT !.s = "closed", !.want = Code, !.use = Code, !.live = FALSE, !.cut = FALSE]

(* Closing the QUIC transport under the listener ends its connections too. *)
TornDown(cs, p) == [c \in Conns |-> IF cs[c].path = p /\ cs[c].live THEN Shut(cs[c]) ELSE cs[c]]

(* AcceptResult.Close at the sender's end. *)
ConnClosed(cs, c) == [cs EXCEPT ![c] = Shut(@)]

(* A device's QUIC connect to the listener of path p. *)
Dialled(d, p, c, k) == conn' = [conn EXCEPT ![c] =
    [dev |-> d, path |-> p, want |-> k, use |-> Code, s |-> "arrived",
     r |-> "handshake", live |-> TRUE, cut |-> FALSE]]

Pending(p) == Cardinality({c \in Conns : conn[c].path = p /\ conn[c].live
                                         /\ conn[c].s \in {"handshake", "ready"}})

(* The accept loop takes a connection: a goroutine of its own starts the    *)
(* handshake with the listener's secret of that moment, unless too many are *)
(* pending.                                                                 *)
acceptLoop(c) ==
    /\ conn[c].s = "arrived"
    /\ conn' = [conn EXCEPT ![c] =
           IF conn[c].live /\ Pending(conn[c].path) < maxPendingHandshakes
           THEN [conn[c] EXCEPT !.s = "handshake", !.use = ln[conn[c].path].secret]
           ELSE Shut(conn[c])]
    /\ UNCHANGED ln

(* SenderHandshake succeeds. *)
SenderHandshake(c) ==
    /\ conn[c].s = "handshake" /\ conn[c].r = "handshake"
    /\ ~conn[c].cut /\ conn[c].use = conn[c].want
    /\ conn' = [conn EXCEPT ![c].s = "ready"]
    /\ UNCHANGED ln

FailAdded(l, kind) == IF l[kind] < FailCap THEN [l EXCEPT ![kind] = @ + 1] ELSE l

(* SenderHandshake fails: the secrets differ, the device gave up, or the    *)
(* network died (the timeout).  closeOnFailure takes a device that closed   *)
(* with the handshake code for a failed authentication, so a device that    *)
(* gave up counts as either.  A full channel drops the failure.             *)
handshakeFailed(c) ==
    /\ conn[c].s = "handshake"
    /\ \E kind \in {"auth", "other"} :
          /\ \/ conn[c].use # conn[c].want /\ kind = "auth"
             \/ conn[c].cut
             \/ conn[c].r # "handshake"
          /\ ln' = IF conn[c].live THEN [ln EXCEPT ![conn[c].path] = FailAdded(@, kind)] ELSE ln
    /\ conn' = ConnClosed(conn, c)

(* A finished handshake whose listener is gone closes its connection. *)
abandon(c) ==
    /\ conn[c].s = "ready" /\ ~conn[c].live
    /\ conn' = ConnClosed(conn, c)
    /\ UNCHANGED ln

(* Accept hands an authenticated connection over, ... *)
Handed(p, c) == conn[c].path = p /\ conn[c].live /\ conn[c].s = "ready"

(* ... or one failed handshake. *)
FailTaken(p, kind) == ln[p][kind] > 0 /\ ln' = [ln EXCEPT ![p][kind] = @ - 1]

SetSecret(l, k) == [l EXCEPT !.secret = k]

(* ReceiverHandshake succeeds: the sender's priming byte has arrived. *)
ReceiverHandshake(c) ==
    /\ conn[c].r = "handshake" /\ conn[c].s \in {"ready", "handed"} /\ ~conn[c].cut
    /\ conn' = [conn EXCEPT ![c].r = "open"]

(* It fails: refused, closed by the sender, wrong secret, or timed out.  A   *)
(* connection the sender never takes is not waited for longer than that.     *)
ReceiverFails(c) ==
    /\ conn[c].r = "handshake"
    /\ \/ conn[c].cut \/ conn[c].s = "closed"
       \/ conn[c].s = "handshake" /\ conn[c].use # conn[c].want
    /\ conn' = [conn EXCEPT ![c].r = "failed"]

(* The network stops carrying a connection. *)
cut(c) ==
    /\ conn[c].s \notin {"none", "closed"} /\ ~conn[c].cut
    /\ conn' = [conn EXCEPT ![c].cut = TRUE]
    /\ UNCHANGED ln

ListenerSteps(c) == acceptLoop(c) \/ SenderHandshake(c) \/ handshakeFailed(c) \/ abandon(c)

ListenerTypeOK == conn \in [Conns -> Conn] /\ ln \in [Paths -> Listening]
=============================================================================
