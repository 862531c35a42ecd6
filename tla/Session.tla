------------------------------ MODULE Session ------------------------------
(***************************************************************************)
(* One attempt of a transfer as its two engines see it (internal/transfer: *)
(* Send and Recv over the streams of internal/quicconn): hello, password   *)
(* gate, listing and decisions or a stream, the data phase through the     *)
(* chunk packer, the final acknowledgement, and the ways to leave early.   *)
(* What the folder holds is module Transfer's; here a file is a row of     *)
(* chunks, and the question is how the two ends come to the same answer    *)
(* over streams that close in one direction, cancel in the other, and die  *)
(* with the connection.                                                    *)
(*                                                                         *)
(* A control frame is small, so writing it never blocks; a write that      *)
(* fails on a dead connection is seen by the read that follows it.         *)
(***************************************************************************)
EXTENDS Naturals, Sequences, FiniteSets

CONSTANTS
    PasswordAttempts,
    Chunks,          \* bound: the chunks a source fills
    PackerQueue,     \* chunks the packer holds, the one its writer works on included
    Window,          \* chunks the data stream and the reader ahead of the disk take
    MaxVerifyRounds, \* bound: requests of --checksum
    Modes,           \* "files", "stream", and "raw" or "tar" to the stdout sink
    Faults           \* what may happen besides: "cancel", "idle", "slow"

ASSUME SessionAssumption ==
    /\ PasswordAttempts \in Nat \ {0} /\ Chunks \in Nat \ {0} /\ PackerQueue \in Nat \ {0}
    /\ Window \in Nat \ {0} /\ MaxVerifyRounds \in Nat
    /\ Modes \subseteq {"files", "stream", "raw", "tar"}
    /\ Faults \subseteq {"cancel", "idle", "slow"}

VARIABLES
    opt,    \* how the two commands were started
    s,      \* the sender: Send, and its close in runSenderTransferLoop
    out,    \* the chunkPacker: its queue and its first error
    r,      \* the receiver: Recv, and recvOnce around it
    net,    \* the control stream: per side, what it has still to read
    data,   \* the data stream
    conn    \* the connection as each side knows it

vars == <<opt, s, out, r, net, data, conn>>

Sides == {"snd", "rcv"}
Other(me) == IF me = "snd" THEN "rcv" ELSE "snd"

\* The codes of an ERROR frame.
Codes == {"declined", "wrongPassword", "passwordRequired", "targetExists", "writeFailed", "diskFull",
          "readFailed", "cancelled"}
Frames == {"hello", "foreign", "ack", "nack", "challenge", "good", "bad", "verified", "listing",
           "verifyRequest", "verifyResponse", "decisions", "nothing", "complete", "transferAck"} \cup Codes

\* How Send and Recv return. drop, closed (by the peer) and cancelClose are a
\* lost connection; malformed is a frame that does not decode.
Causes == {"none", "ok", "drop", "closed", "cancelClose", "malformed", "protocol", "incompatible", "peerCancelled"} \cup Codes

Options == [mode : Modes, password : BOOLEAN, compatible : BOOLEAN, key : {"none", "right", "wrong", "prompt"}]
Sender == [pc : {"hello", "ack", "response", "negotiate", "data", "closing", "reason", "acked", "drain", "notify", "over"},
           tries : 0..PasswordAttempts, rounds : 0..MaxVerifyRounds, next : 1..(Chunks + 1),
           cause : Causes, ctx : BOOLEAN, late : BOOLEAN]
Receiver == [pc : {"hello", "accept", "challenge", "type", "verdict", "listing", "decide", "verify", "target",
                   "data", "why", "commit", "complete", "drain", "grace", "over"},
             tries : 0..PasswordAttempts, rounds : 0..MaxVerifyRounds, typed : {"none", "good", "bad"},
             asked : BOOLEAN, got : Seq(1..Chunks), skipped : BOOLEAN, committed : BOOLEAN,
             cause : Causes, ctx : BOOLEAN, aborted : BOOLEAN]
\* A chunk by its number; a skip marker; a chunk the write deadline cut.
Skip == 0
Torn == Chunks + 1
Chunk == Skip..Torn

\* The types, and the bounds of the packer's queue and of the flow control.
SessionTypeOK ==
    /\ opt \in Options
    /\ s \in Sender
    /\ out \in [q : Seq(Skip..Chunks), err : Causes] /\ Len(out.q) <= PackerQueue
    /\ r \in Receiver
    /\ net \in [Sides -> [q : Seq(Frames), fin : BOOLEAN]]
    /\ data \in [q : Seq(Chunk), fin : BOOLEAN, stop : BOOLEAN] /\ Len(data.q) <= Window + 1
    /\ conn \in [Sides -> {"open", "closed", "cancelClose", "drop"}]

-----------------------------------------------------------------------------
(* The streams.  Closing a control stream, or the sender's data stream, ends  *)
(* its writing half; closing the receiver's data stream cancels the sender's  *)
(* writes.                                                                    *)

Post(n, me, f) == [n EXCEPT ![Other(me)].q = Append(@, f)]
Shut(n, me) == [n EXCEPT ![Other(me)].fin = TRUE]
Took(me) == [net EXCEPT ![me].q = Tail(@)]

Ctx(me) == IF me = "snd" THEN s.ctx ELSE r.ctx
HasFrame(me) == conn[me] = "open" /\ net[me].q # <<>>
EndOfStream(me) == net[me].q = <<>> /\ net[me].fin

\* ctxConn: a read is cut by the end of the connection or of the stream, and by
\* the deadline that bindCtx sets once the context is cancelled.
ReadFails(me) == conn[me] # "open" \/ EndOfStream(me) \/ Ctx(me)
ReadError(me) == IF Ctx(me) THEN "cancelled" ELSE IF conn[me] # "open" THEN conn[me] ELSE "drop"

mapPeerError(c) == IF c = "cancelled" THEN "peerCancelled" ELSE c

-----------------------------------------------------------------------------
(* Send *)

\* Send returns: Ctrl-C and an unreadable source are told to the peer
\* (notifyPeer, declineTransfer), then the connection closes.
SendEnds(cause, n) ==
    LET told == cause \in {"cancelled", "readFailed"}
    IN  /\ s' = [s EXCEPT !.cause = cause, !.pc = IF told THEN "notify" ELSE "over"]
        /\ net' = Shut(IF told THEN Post(n, "snd", cause) ELSE n, "snd")
        /\ data' = [data EXCEPT !.fin = TRUE]

\* notifyPeer and the last wrong password wait for the peer's end of the
\* control stream; a cancelled read does not wait. notifyPeer gives up after a
\* second.
notified ==
    /\ s.pc \in {"notify", "drain"}
    /\ ReadFails("snd")
    /\ s' = [s EXCEPT !.pc = "over"]
    /\ net' = Shut(net, "snd") /\ data' = [data EXCEPT !.fin = TRUE]
    /\ UNCHANGED <<opt, out, r, conn>>
drained ==
    /\ s.pc \in {"notify", "drain"}
    /\ HasFrame("snd")
    /\ net' = Took("snd")
    /\ UNCHANGED <<opt, s, out, r, data, conn>>
notifyTimesOut ==
    /\ "slow" \in Faults
    /\ s.pc = "notify"
    /\ s' = [s EXCEPT !.pc = "over", !.late = TRUE]
    /\ UNCHANGED <<opt, out, r, net, data, conn>>

\* sendListing, or at once the stream.
StartSending(n) ==
    IF opt.mode = "stream" THEN s' = [s EXCEPT !.pc = "data"] /\ net' = n
    ELSE s' = [s EXCEPT !.pc = "negotiate"] /\ net' = Post(n, "snd", "listing")

hello ==
    /\ s.pc = "hello"
    /\ s' = [s EXCEPT !.pc = "ack"]
    /\ net' = Post(net, "snd", IF opt.compatible THEN "hello" ELSE "foreign")
    /\ UNCHANGED <<opt, out, r, data, conn>>

\* send reads HELLO_ACK.
readAck ==
    /\ s.pc = "ack"
    /\ HasFrame("snd")
    /\ LET f == Head(net["snd"].q)
       IN  \/ f = "ack" /\ ~opt.password /\ StartSending(Took("snd")) /\ UNCHANGED data
           \/ /\ f = "ack" /\ opt.password
              /\ s' = [s EXCEPT !.pc = "response", !.tries = 1]
              /\ net' = Post(Took("snd"), "snd", "challenge")
              /\ UNCHANGED data
           \/ f = "foreign" /\ SendEnds("incompatible", Took("snd"))
           \/ f = "nack" /\ SendEnds("declined", Took("snd"))
    /\ UNCHANGED <<opt, out, r, conn>>

verifyTagAny(f) == f \in {"good", "bad"}   \* mutant: any answer opens the gate
verifyTag(f) == f = "good"

\* senderPasswordHandshake: the tag opens the gate; a mismatch is answered with
\* WrongPassword and a fresh challenge, the last one with the end of the stream.
readResponse ==
    /\ s.pc = "response"
    /\ HasFrame("snd")
    /\ LET f == Head(net["snd"].q)
           refused == Post(Took("snd"), "snd", "wrongPassword")
       IN  \/ verifyTag(f) /\ StartSending(Post(Took("snd"), "snd", "verified")) /\ UNCHANGED data
           \/ /\ f = "bad" /\ ~verifyTag(f) /\ s.tries < PasswordAttempts
              /\ s' = [s EXCEPT !.tries = @ + 1]
              /\ net' = Post(refused, "snd", "challenge")
              /\ UNCHANGED data
           \/ /\ f = "bad" /\ ~verifyTag(f) /\ s.tries = PasswordAttempts
              /\ s' = [s EXCEPT !.pc = "drain", !.cause = "wrongPassword"]
              /\ net' = Shut(refused, "snd")
              /\ UNCHANGED data
           \/ f \in Codes /\ SendEnds(mapPeerError(f), Took("snd"))
    /\ UNCHANGED <<opt, out, r, conn>>

\* senderNegotiate
readDecisions ==
    /\ s.pc = "negotiate"
    /\ HasFrame("snd")
    /\ LET f == Head(net["snd"].q)
       IN  \/ /\ f = "verifyRequest"
              /\ IF s.rounds = MaxVerifyRounds THEN SendEnds("protocol", Took("snd"))
                 ELSE /\ s' = [s EXCEPT !.rounds = @ + 1]
                      /\ net' = Post(Took("snd"), "snd", "verifyResponse")
                      /\ UNCHANGED data
           \/ /\ f \in {"decisions", "nothing"}
              /\ s' = [s EXCEPT !.pc = "data", !.next = IF f = "nothing" THEN Chunks + 1 ELSE 1]
              /\ net' = Took("snd")
              /\ UNCHANGED data
           \/ f \in Codes /\ SendEnds(mapPeerError(f), Took("snd"))
    /\ UNCHANGED <<opt, out, r, conn>>

\* What a read that fails makes of it: past the first attempt the password is
\* the honest error, whatever cut the read.
ReadCause == IF s.pc = "response" /\ s.tries > 1 THEN "wrongPassword" ELSE ReadError("snd")
readFailed ==
    /\ s.pc \in {"ack", "response", "negotiate", "acked"}
    /\ ReadFails("snd")
    /\ SendEnds(ReadCause, net)
    /\ UNCHANGED <<opt, out, r, conn>>

-----------------------------------------------------------------------------
(* The data phase: the sender's loop and the packer's writer. *)

\* sendOneFile and sendStream hand the packer the next chunk; a file that
\* cannot be read any more ends in a skip marker.
Packs(c) ==
    /\ s.pc = "data" /\ s.next <= Chunks
    /\ Len(out.q) < PackerQueue
    /\ out' = [out EXCEPT !.q = Append(@, c)]
appendBytes ==
    /\ Packs(s.next)
    /\ s' = [s EXCEPT !.next = @ + 1]
    /\ UNCHANGED <<opt, r, net, data, conn>>
skipFile ==
    /\ opt.mode # "stream"
    /\ Packs(Skip)
    /\ s' = [s EXCEPT !.next = Chunks + 1]
    /\ UNCHANGED <<opt, r, net, data, conn>>

\* The loop ends: with the last chunk, with the reader's error (sendStream) or
\* with the context's. Close waits for the writer.
Leaves(cause) ==
    \/ cause = "none" /\ s.next > Chunks
    \/ cause = "readFailed" /\ opt.mode = "stream" /\ s.next <= Chunks
    \/ cause = "cancelled" /\ s.ctx
closePacker(cause) ==
    /\ s.pc = "data"
    /\ Leaves(cause)
    /\ s' = [s EXCEPT !.pc = "closing", !.cause = cause]
    /\ UNCHANGED <<opt, out, r, net, data, conn>>

\* appendBytes, endFile or flush returns the writer's error: sendChunkErr.
chunkError ==
    /\ s.pc = "data"
    /\ out.err # "none"
    /\ s' = [s EXCEPT !.pc = "reason"]
    /\ UNCHANGED <<opt, out, r, net, data, conn>>

\* The writer is done: COMPLETE, or its error.
packerClosed ==
    /\ s.pc = "closing"
    /\ out.q = <<>>
    /\ IF s.cause # "none" THEN SendEnds(s.cause, net)
       ELSE /\ UNCHANGED data
            /\ IF out.err # "none" THEN s' = [s EXCEPT !.pc = "reason"] /\ UNCHANGED net
               ELSE s' = [s EXCEPT !.pc = "acked"] /\ net' = Post(net, "snd", "complete")
    /\ UNCHANGED <<opt, out, r, conn>>

\* tryReadPeerError: the reason the receiver posted, or the writer's error.
sendChunkErr ==
    /\ s.pc = "reason"
    /\ out.q = <<>>
    /\ \/ HasFrame("snd") /\ Head(net["snd"].q) \in Codes /\ SendEnds(mapPeerError(Head(net["snd"].q)), Took("snd"))
       \/ HasFrame("snd") /\ Head(net["snd"].q) \notin Codes /\ SendEnds(out.err, Took("snd"))
       \/ ReadFails("snd") /\ SendEnds(out.err, net)
    /\ UNCHANGED <<opt, out, r, conn>>

\* The last read of sendFiles and sendStream.
readTransferAck ==
    /\ s.pc = "acked"
    /\ HasFrame("snd")
    /\ LET f == Head(net["snd"].q)
       IN  SendEnds(CASE f = "transferAck" -> "ok" [] f \in Codes -> mapPeerError(f) [] OTHER -> "protocol", Took("snd"))
    /\ UNCHANGED <<opt, out, r, conn>>

\* writeLoop: chunks in order; after the first error they are only taken.
Fails(err) ==
    \/ err = "closed" /\ data.stop
    \/ err = conn["snd"] /\ conn["snd"] # "open"
    \/ err = "cancelled" /\ s.ctx
writeChunk ==
    /\ out.q # <<>> /\ out.err = "none"
    /\ conn["snd"] = "open" /\ ~data.stop
    /\ Len(data.q) < Window
    /\ data' = [data EXCEPT !.q = Append(@, Head(out.q))]
    /\ out' = [out EXCEPT !.q = Tail(@)]
    /\ UNCHANGED <<opt, s, r, net, conn>>
\* A write deadline may cut a chunk in two.
writeFails(err, torn) ==
    /\ out.q # <<>> /\ out.err = "none"
    /\ Fails(err)
    /\ torn => err = "cancelled" /\ Len(data.q) <= Window
    /\ data' = [data EXCEPT !.q = IF torn THEN Append(@, Torn) ELSE @]
    /\ out' = [q |-> Tail(out.q), err |-> IF s.ctx THEN "cancelled" ELSE err]
    /\ UNCHANGED <<opt, s, r, net, conn>>
takeChunk ==
    /\ out.q # <<>> /\ out.err # "none"
    /\ out' = [out EXCEPT !.q = Tail(@)]
    /\ UNCHANGED <<opt, s, r, net, data, conn>>

-----------------------------------------------------------------------------
(* Recv *)

\* What recvOnce may have to wait for: only an error shaped like a drop can
\* hide a cancel.
Transient == {"drop", "closed"}
ConnLost(x) == x.aborted \/ (conn["rcv"] # "open" /\ x.cause = "cancelled")
Doubtful(x) == ~x.ctx /\ (ConnLost(x) \/ x.cause \in Transient)

\* recvOnce returns and the connection closes.
RecvOver(x, cause, n) ==
    /\ r' = [x EXCEPT !.cause = cause, !.pc = "over"]
    /\ net' = Shut(n, "rcv")
    /\ data' = [data EXCEPT !.stop = TRUE]
\* Recv returns.
RecvEnds(x, n) ==
    IF Doubtful(x) THEN r' = [x EXCEPT !.pc = "grace"] /\ net' = n /\ UNCHANGED data
    ELSE RecvOver(x, IF x.cause = "cancelClose" /\ ~x.ctx THEN "peerCancelled" ELSE x.cause, n)
Returns(cause, n) == RecvEnds([r EXCEPT !.cause = cause], n)

\* PeerCancelled: up to peerCancelGrace for the sender's close to arrive. Bound
\* on time: the close of a sender that is over, or has been cancelled and has
\* posted so, arrives within it.
CloseComes == s.pc = "over" \/ (s.pc = "notify" /\ s.ctx)
graceless ==   \* mutant: recvOnce does not wait for the close
    /\ r.pc = "grace"
    /\ RecvOver(r, IF conn["rcv"] = "cancelClose" THEN "peerCancelled" ELSE IF ConnLost(r) THEN "drop" ELSE r.cause, net)
    /\ UNCHANGED <<opt, s, out, conn>>
grace ==
    /\ r.pc = "grace"
    /\ conn["rcv"] # "open" \/ ~CloseComes
    /\ RecvOver(r, IF conn["rcv"] = "cancelClose" THEN "peerCancelled" ELSE IF ConnLost(r) THEN "drop" ELSE r.cause, net)
    /\ UNCHANGED <<opt, s, out, conn>>

\* declineTransfer: the data stream first, so a sender blocked in a write turns
\* to the reason; then the end of the sender's stream is awaited (drainControl).
declineKeepsData(x, code, n) ==   \* mutant: the data stream is left open
    /\ r' = [x EXCEPT !.cause = code, !.pc = "drain"]
    /\ net' = Shut(Post(n, "rcv", code), "rcv")
    /\ UNCHANGED data
declineTransfer(x, code, n) ==
    /\ r' = [x EXCEPT !.cause = code, !.pc = "drain"]
    /\ net' = Shut(Post(n, "rcv", code), "rcv")
    /\ data' = [data EXCEPT !.stop = TRUE]

\* ackProceed(false), drainControl.
Refuses(x, f, cause, n) ==
    /\ r' = [x EXCEPT !.cause = cause, !.pc = "drain"]
    /\ net' = Shut(Post(n, "rcv", f), "rcv")
    /\ UNCHANGED data

drainControl ==
    /\ r.pc = "drain"
    /\ IF HasFrame("rcv") THEN net' = Took("rcv") /\ UNCHANGED <<r, data>>
       ELSE ReadFails("rcv") /\ RecvEnds(r, net)
    /\ UNCHANGED <<opt, s, out, conn>>

\* Where the gate leads.
Proceed(x) == [x EXCEPT !.pc = IF opt.mode = "stream" THEN "target" ELSE "listing"]
Gate(x) == IF opt.password THEN [x EXCEPT !.pc = "challenge"] ELSE Proceed(x)

\* Recv reads HELLO: a files transfer is acknowledged at once, a stream after
\* the user's consent.
readHello ==
    /\ r.pc = "hello"
    /\ HasFrame("rcv")
    /\ LET f == Head(net["rcv"].q)
       IN  \/ f = "foreign" /\ Refuses(r, "foreign", "incompatible", Took("rcv"))
           \/ /\ f = "hello" /\ opt.mode = "stream"
              /\ r' = [r EXCEPT !.pc = "accept"]
              /\ net' = Took("rcv")
              /\ UNCHANGED data
           \/ /\ f = "hello" /\ opt.mode # "stream"
              /\ r' = Gate(r)
              /\ net' = Post(Took("rcv"), "rcv", "ack")
              /\ UNCHANGED data
    /\ UNCHANGED <<opt, s, out, conn>>

\* The accept prompt ends without an answer when its context does.
Aborted == r.ctx \/ conn["rcv"] # "open"
Answers(ok) == ok => ~Aborted
Refusing == [r EXCEPT !.aborted = conn["rcv"] # "open" /\ ~r.ctx]

\* recvStream asks before it acknowledges.
acceptStream(ok) ==
    /\ r.pc = "accept"
    /\ Answers(ok)
    /\ IF ok THEN r' = Gate(r) /\ net' = Post(net, "rcv", "ack") /\ UNCHANGED data
       ELSE Refuses(Refusing, "nack", "declined", net)
    /\ UNCHANGED <<opt, s, out, conn>>

\* receiverPasswordHandshake reads a challenge. Any other frame fails to
\* decode as one.
PastFirst(cause) == IF r.tries > 0 THEN "wrongPassword" ELSE cause
readChallenge ==
    /\ r.pc = "challenge"
    /\ HasFrame("rcv")
    /\ LET f == Head(net["rcv"].q)
       IN  \/ f = "challenge" /\ opt.key = "none" /\ declineTransfer(r, "passwordRequired", Took("rcv"))
           \/ /\ f = "challenge" /\ opt.key # "none"
              /\ r' = [r EXCEPT !.pc = "type", !.tries = @ + 1]
              /\ net' = Took("rcv")
              /\ UNCHANGED data
           \/ f # "challenge" /\ Returns(PastFirst("malformed"), Took("rcv"))
    /\ UNCHANGED <<opt, s, out, conn>>

\* The password: the one of the command line, or what the user types.
respond(tag) ==
    /\ r.pc = "type"
    /\ opt.key = "right" => tag = "good"
    /\ opt.key = "wrong" => tag = "bad"
    /\ r' = [r EXCEPT !.pc = "verdict", !.typed = tag]
    /\ net' = Post(net, "rcv", tag)
    /\ UNCHANGED <<opt, s, out, data, conn>>
promptAborts ==
    /\ r.pc = "type" /\ opt.key = "prompt"
    /\ Aborted
    /\ Returns("cancelled", net)
    /\ UNCHANGED <<opt, s, out, conn>>

readVerdict ==
    /\ r.pc = "verdict"
    /\ HasFrame("rcv")
    /\ LET f == Head(net["rcv"].q)
       IN  \/ f = "verified" /\ r' = Proceed(r) /\ net' = Took("rcv") /\ UNCHANGED data
           \/ /\ f = "wrongPassword" /\ opt.key = "prompt" /\ r.tries < PasswordAttempts
              /\ r' = [r EXCEPT !.pc = "challenge"]
              /\ net' = Took("rcv")
              /\ UNCHANGED data
           \/ /\ f = "wrongPassword" /\ (opt.key # "prompt" \/ r.tries = PasswordAttempts)
              /\ Returns("wrongPassword", Took("rcv"))
           \/ f \in Codes \ {"wrongPassword"} /\ Returns(mapPeerError(f), Took("rcv"))
    /\ UNCHANGED <<opt, s, out, conn>>

\* recvListing; the reader of a verify response and of COMPLETE likewise takes
\* an ERROR frame for an answer.
readListing ==
    /\ r.pc = "listing"
    /\ HasFrame("rcv")
    /\ LET f == Head(net["rcv"].q)
       IN  \/ f = "listing" /\ r' = [r EXCEPT !.pc = "decide"] /\ net' = Took("rcv") /\ UNCHANGED data
           \/ f \in Codes /\ Returns(mapPeerError(f), Took("rcv"))
    /\ UNCHANGED <<opt, s, out, conn>>

\* resolveVerify, verifyRound
requestVerify ==
    /\ r.pc = "decide" /\ opt.mode = "files"
    /\ r.rounds < MaxVerifyRounds
    /\ r' = [r EXCEPT !.pc = "verify", !.rounds = @ + 1]
    /\ net' = Post(net, "rcv", "verifyRequest")
    /\ UNCHANGED <<opt, s, out, data, conn>>
readVerify ==
    /\ r.pc = "verify"
    /\ HasFrame("rcv")
    /\ LET f == Head(net["rcv"].q)
       IN  \/ f = "verifyResponse" /\ r' = [r EXCEPT !.pc = "decide"] /\ net' = Took("rcv") /\ UNCHANGED data
           \/ f \in Codes /\ Returns(mapPeerError(f), Took("rcv"))
    /\ UNCHANGED <<opt, s, out, conn>>

\* run and recvFilesToSink: the space, the user, the decisions. A sink asks for
\* everything, a folder may have it all already.
decline(code) ==
    /\ r.pc = "decide"
    /\ code = "diskFull" => opt.mode = "files"
    /\ declineTransfer(IF code = "declined" THEN Refusing ELSE r, code, net)
    /\ UNCHANGED <<opt, s, out, conn>>
sendDecisions(ask) ==
    /\ r.pc = "decide"
    /\ ~Aborted
    /\ ~ask => opt.mode = "files"
    /\ r' = [r EXCEPT !.pc = IF ask THEN "data" ELSE "commit", !.asked = ask]
    /\ net' = Post(net, "rcv", IF ask THEN "decisions" ELSE "nothing")
    /\ UNCHANGED <<opt, s, out, data, conn>>

\* recvStream looks at its target and opens the partial.
openTarget(code) ==
    /\ r.pc = "target"
    /\ IF code = "none" THEN r' = [r EXCEPT !.pc = "data", !.asked = TRUE] /\ UNCHANGED <<net, data>>
       ELSE declineTransfer(r, code, net)
    /\ UNCHANGED <<opt, s, out, conn>>

\* receiveData, streamPayload and streamTar take a chunk; the last one carries
\* the root. A skipped file is dropped from a folder and from an archive that
\* does not hold a part of it.
DataRead == r.pc = "data" /\ conn["rcv"] = "open" /\ data.q # <<>>
Drops == opt.mode = "files" \/ (opt.mode = "tar" /\ r.got = <<>>)
writeData ==
    /\ DataRead
    /\ LET c == Head(data.q)
       IN  /\ c \in 1..Chunks
           /\ r' = [r EXCEPT !.got = Append(@, c), !.pc = IF c = Chunks THEN "commit" ELSE "data"]
           /\ data' = [data EXCEPT !.q = Tail(@)]
    /\ UNCHANGED <<opt, s, out, net, conn>>
writeDataFails(code) ==
    /\ DataRead
    /\ Head(data.q) \in 1..Chunks
    /\ declineTransfer(r, code, net)
    /\ UNCHANGED <<opt, s, out, conn>>
readSkip ==
    /\ DataRead
    /\ Head(data.q) = Skip
    /\ IF Drops THEN /\ r' = [r EXCEPT !.pc = "commit", !.skipped = TRUE]
                     /\ data' = [data EXCEPT !.q = Tail(@)]
                     /\ UNCHANGED net
       ELSE Returns("readFailed", net)
    /\ UNCHANGED <<opt, s, out, conn>>

\* The stream ends within a chunk, or between two: then the sender may have
\* posted why.
readTorn ==
    /\ DataRead
    /\ Head(data.q) = Torn /\ data.fin
    /\ Returns("drop", net)
    /\ UNCHANGED <<opt, s, out, conn>>
readEOF ==
    /\ r.pc = "data" /\ conn["rcv"] = "open"
    /\ data.q = <<>> /\ data.fin
    /\ r' = [r EXCEPT !.pc = "why"]
    /\ UNCHANGED <<opt, s, out, net, data, conn>>
tryReadPeerErrorNot ==   \* mutant: the reason is not looked for
    /\ r.pc = "why"
    /\ Returns("drop", net)
    /\ UNCHANGED <<opt, s, out, conn>>
tryReadPeerError ==
    /\ r.pc = "why"
    /\ \/ /\ HasFrame("rcv")
          /\ LET f == Head(net["rcv"].q)
             IN  Returns(IF f \in Codes THEN mapPeerError(f) ELSE "drop", Took("rcv"))
       \/ ReadFails("rcv") /\ Returns("drop", net)
    /\ UNCHANGED <<opt, s, out, conn>>
dataFails ==
    /\ r.pc = "data"
    /\ conn["rcv"] # "open" \/ r.ctx
    /\ Returns(ReadError("rcv"), net)
    /\ UNCHANGED <<opt, s, out, conn>>

\* committer.flush, the rename of a stream, the end of an archive.
commitAnyway(code) ==   \* mutant: a failed commit is acknowledged
    /\ r.pc = "commit"
    /\ r' = [r EXCEPT !.pc = "complete", !.committed = code = "none"]
    /\ UNCHANGED <<opt, s, out, net, data, conn>>
commit(code) ==
    /\ r.pc = "commit"
    /\ IF code = "none" THEN r' = [r EXCEPT !.pc = "complete", !.committed = TRUE] /\ UNCHANGED <<net, data>>
       ELSE declineTransfer(r, code, net)
    /\ UNCHANGED <<opt, s, out, conn>>

\* finishRecv
finishRecv ==
    /\ r.pc = "complete"
    /\ HasFrame("rcv")
    /\ LET f == Head(net["rcv"].q)
       IN  \/ f = "complete" /\ Refuses(r, "transferAck", "ok", Took("rcv"))
           \/ f \in Codes /\ Returns(mapPeerError(f), Took("rcv"))
    /\ UNCHANGED <<opt, s, out, conn>>

recvFails ==
    /\ r.pc \in {"hello", "challenge", "verdict", "listing", "verify", "complete"}
    /\ ReadFails("rcv")
    /\ Returns(IF r.pc = "challenge" THEN PastFirst(ReadError("rcv")) ELSE ReadError("rcv"), net)
    /\ UNCHANGED <<opt, s, out, conn>>

-----------------------------------------------------------------------------
(* The world. *)

\* The connection close of a side that is over reaches the other; after an
\* idle timeout there is none, and the other side's own timer ends it.
closeArrives(me) ==
    /\ conn[me] = "open"
    /\ IF me = "rcv" THEN s.pc = "over" ELSE r.pc = "over"
    /\ conn[Other(me)] # "drop"
    /\ conn' = [conn EXCEPT ![me] = IF me = "rcv" /\ s.ctx THEN "cancelClose" ELSE "closed"]
    /\ UNCHANGED <<opt, s, out, r, net, data>>
idleTimeout(me) ==
    /\ conn[me] = "open"
    /\ "idle" \in Faults \/ conn[Other(me)] = "drop"
    /\ conn' = [conn EXCEPT ![me] = "drop"]
    /\ UNCHANGED <<opt, s, out, r, net, data>>

\* Ctrl-C.
cancelSend ==
    /\ "cancel" \in Faults
    /\ s.pc # "over" /\ ~s.ctx
    /\ s' = [s EXCEPT !.ctx = TRUE]
    /\ UNCHANGED <<opt, out, r, net, data, conn>>
cancelRecv ==
    /\ "cancel" \in Faults
    /\ r.pc # "over" /\ ~r.ctx
    /\ r' = [r EXCEPT !.ctx = TRUE]
    /\ UNCHANGED <<opt, s, out, net, data, conn>>

Init ==
    /\ opt \in {o \in Options : o.key \in {"none", "right"} \/ o.password}
    /\ s = [pc |-> "hello", tries |-> 0, rounds |-> 0, next |-> 1, cause |-> "none", ctx |-> FALSE, late |-> FALSE]
    /\ out = [q |-> <<>>, err |-> "none"]
    /\ r = [pc |-> "hello", tries |-> 0, rounds |-> 0, typed |-> "none", asked |-> FALSE, got |-> <<>>,
            skipped |-> FALSE, committed |-> FALSE, cause |-> "none", ctx |-> FALSE, aborted |-> FALSE]
    /\ net = [me \in Sides |-> [q |-> <<>>, fin |-> FALSE]]
    /\ data = [q |-> <<>>, fin |-> FALSE, stop |-> FALSE]
    /\ conn = [me \in Sides |-> "open"]

\* The send goroutine, the packer's writer, and the receive goroutine with the
\* user at its prompts.
SendSteps ==
    \/ hello \/ readAck \/ readResponse \/ readDecisions \/ readFailed
    \/ appendBytes \/ skipFile \/ chunkError \/ packerClosed \/ sendChunkErr \/ readTransferAck
    \/ \E c \in {"none", "readFailed", "cancelled"} : closePacker(c)
    \/ notified \/ drained
WriterSteps ==
    \/ writeChunk \/ takeChunk
    \/ \E e \in {"closed", "cancelClose", "drop", "cancelled"}, torn \in BOOLEAN : writeFails(e, torn)
RecvSteps ==
    \/ readHello \/ readChallenge \/ readVerdict \/ readListing \/ requestVerify \/ readVerify
    \/ \E ok \in BOOLEAN : acceptStream(ok) \/ sendDecisions(ok)
    \/ \E tag \in {"good", "bad"} : respond(tag)
    \/ promptAborts
    \/ \E c \in {"declined", "diskFull"} : decline(c)
    \/ \E c \in {"none", "targetExists", "writeFailed"} : openTarget(c)
    \/ \E c \in {"none", "writeFailed"} : commit(c)
    \/ \E c \in {"writeFailed", "diskFull"} : writeDataFails(c)
    \/ writeData \/ readSkip \/ readTorn \/ readEOF \/ tryReadPeerError \/ dataFails
    \/ finishRecv \/ recvFails \/ drainControl \/ grace

Next ==
    \/ SendSteps \/ WriterSteps \/ RecvSteps
    \/ notifyTimesOut
    \/ \E me \in Sides : closeArrives(me) \/ idleTimeout(me)
    \/ cancelSend \/ cancelRecv

Spec == Init /\ [][Next]_vars

\* Goroutines run, the user answers prompts, a close that was sent arrives, and
\* QUIC's keepalives notice a peer that is gone.
FairSpec ==
    /\ Spec
    /\ WF_vars(SendSteps) /\ WF_vars(WriterSteps) /\ WF_vars(RecvSteps)
    /\ \A me \in Sides : WF_vars(closeArrives(me)) /\ WF_vars(conn[Other(me)] = "drop" /\ idleTimeout(me))

-----------------------------------------------------------------------------
Whole == [i \in 1..Chunks |-> i]

\* The sender reports success only when the receiver has committed all it asked
\* for, each chunk once and in order, and so does the receiver: no early end,
\* late error or cancel on either side turns into one (packer.Close, finishRecv).
SuccessIsShared ==
    /\ s.pc = "over" /\ s.cause = "ok" => r.committed
    /\ r.pc = "over" /\ r.cause = "ok" => s.cause # "readFailed"
    /\ r.committed => r.got = Whole \/ r.skipped \/ ~r.asked

\* While nobody cancels, the link holds and notifyPeer is not out of time, the
\* two ends report the same: what ends a transfer on one side (a decline, a
\* full disk, a wrong password, an unreadable source) is told before the
\* connection goes, and overtaken by neither the data stream nor the close.
\* Each keeps its own reason when both fail at once. The sink's receiver alone
\* leaves without a word when a file cannot be read any more.
Undisturbed == ~s.ctx /\ ~r.ctx /\ ~s.late /\ \A me \in Sides : conn[me] # "drop"
SameOutcome ==
    Undisturbed /\ s.pc = "over" /\ r.pc = "over" =>
        \/ s.cause = r.cause
        \/ s.cause = "readFailed" /\ r.cause \in {"writeFailed", "diskFull", "targetExists"}
        \/ r.cause = "readFailed" /\ opt.mode \in {"raw", "tar"} /\ s.cause \in Transient

\* runSenderTransferLoop: "A Ctrl-C closes with the cancel code, so the receiver
\* reports E032 at once instead of retrying a sender that is gone": no cancel
\* of the sender looks like a drop to the receiver, whichever of the data
\* stream, the posted reason and the close it sees first.
CancelNotRetried ==
    r.pc = "over" /\ s.ctx /\ s.pc = "over" /\ ~r.ctx /\ (\A me \in Sides : conn[me] # "drop")
        => r.cause \notin Transient

\* Nothing of the transfer is on the wire before the receiver has shown the
\* password, and it is never asked for more of them than the sender counts.
GateHeld ==
    opt.password =>
        /\ r.tries <= s.tries
        /\ (\E i \in 1..Len(net["rcv"].q) : net["rcv"].q[i] = "listing") \/ data.q # <<>> \/ r.got # <<>>
              => r.typed = "good"

\* Both engines return, whatever blocks the other: a sender in a full data
\* stream, a receiver at the end of the control stream, or both.
SessionOver == <>(s.pc = "over" /\ r.pc = "over")
=============================================================================
