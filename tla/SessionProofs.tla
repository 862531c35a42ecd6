---------------------------- MODULE SessionProofs ----------------------------
(***************************************************************************)
(* The invariants of one transfer attempt, for any number of chunks,       *)
(* password attempts and verify rounds and any size of the queues.  SInv   *)
(* is inductive; it says which frames may be under way at each step of the *)
(* two engines, and in which order the chunks lie between source and disk. *)
(* OInv, at the end, adds to it how the two keep in step while nothing     *)
(* disturbs them, and so end with the same outcome.                        *)
(***************************************************************************)
EXTENDS Session, TLAPS

\* A queue with frame f in it, and one with at most one of the frames F.
Has(q, f) == \E i \in 1..Len(q) : q[i] = f
AtMostOne(q, F) == \A i, j \in 1..Len(q) : q[i] \in F /\ q[j] \in F => i = j

Tags == {"good", "bad"}
Verdicts == {"wrongPassword", "verified"}
Asked == {"hello", "accept", "challenge", "type"}       \* the receiver before its answer
Sending == {"negotiate", "data", "closing", "reason", "acked"}
Left == {"drain", "grace", "over"}
FromReceiver == {"ack", "nack", "good", "bad", "verifyRequest", "decisions", "nothing", "transferAck"}

\* An acknowledgement is only for what was committed, and the sender's own
\* errors do not come from the receiver.
AckCommitted ==
    /\ ~Has(net["snd"].q, "readFailed")
    /\ out.err \in {"none", "closed", "cancelClose", "drop", "cancelled"}
    /\ r.pc = "complete" \/ Has(net["snd"].q, "transferAck") \/ s.cause = "ok" => r.committed
    /\ r.committed => r.pc \in Left \cup {"complete"}

\* COMPLETE is sent only after the whole source was read.
CompleteSent ==
    /\ s.pc \notin {"closing", "drain", "notify", "over"} => s.cause = "none"
    /\ s.pc \in {"hello", "ack", "response", "negotiate"} => s.next = 1
    /\ s.pc = "closing" => s.cause \in {"none", "readFailed", "cancelled"}
    /\ s.pc = "drain" => s.cause = "wrongPassword"
    /\ Has(net["rcv"].q, "complete") \/ r.cause = "ok" =>
         s.pc \in {"acked", "notify", "over"} /\ s.cause # "readFailed"

\* The chunks between the source and the disk are consecutive. A skip marker,
\* and a chunk that was cut, are the last.
InOrder ==
    LET n == Len(r.got)
        m == Len(data.q)
        k == Len(out.q)
    IN  /\ \A i \in 1..n : r.got[i] = i
        /\ \A i \in 1..m : \/ data.q[i] = n + i
                           \/ i = m /\ data.q[i] = Torn /\ out.err # "none"
                           \/ i = m /\ data.q[i] = Skip /\ s.next > Chunks /\ (out.err = "none" => k = 0)
        /\ out.err = "none" =>
             /\ s.next <= Chunks => n + m + k + 1 = s.next
             /\ \A i \in 1..k : \/ out.q[i] = n + m + i
                                \/ i = k /\ out.q[i] = Skip /\ s.next > Chunks
        /\ r.skipped => m = 0 /\ (out.err = "none" => k = 0 /\ s.next > Chunks)
        /\ r.pc = "commit" \/ r.committed => n = Chunks \/ r.skipped \/ ~r.asked

\* The password gate: one challenge, one answer and one verdict at a time, and
\* nothing of the transfer before the right answer.
Opened ==
    \/ s.pc \in Sending
    \/ Has(net["rcv"].q, "listing") \/ Has(net["rcv"].q, "verified")
    \/ data.q # <<>> \/ out.q # <<>> \/ r.got # <<>>
Gated ==
    /\ r.pc \in {"challenge", "type", "verdict"} => opt.password
    /\ s.pc \in {"response", "drain"} => opt.password
    /\ AtMostOne(net["snd"].q, Tags)
    /\ AtMostOne(net["rcv"].q, {"challenge"})
    /\ AtMostOne(net["rcv"].q, Verdicts)
    /\ r.tries <= s.tries
    /\ Has(net["rcv"].q, "challenge") => r.tries < s.tries
    /\ s.pc \in {"hello", "ack"} =>
         /\ s.tries = 0
         /\ \A f \in Verdicts \cup {"challenge"} : ~Has(net["rcv"].q, f)
         /\ \A t \in Tags : ~Has(net["snd"].q, t)
    /\ ~opt.password => \A f \in Verdicts \cup {"challenge"} : ~Has(net["rcv"].q, f)
    /\ opt.password /\ s.pc \in {"hello", "ack", "response"} => r.pc \in Asked \cup Left \cup {"verdict"}
    /\ \A t \in Tags : Has(net["snd"].q, t) =>
         \A f \in Verdicts \cup {"challenge"} : ~Has(net["rcv"].q, f)
    /\ Has(net["snd"].q, "good") => r.typed = "good"
    /\ r.pc \in Asked => /\ \A t \in Tags : ~Has(net["snd"].q, t)
                         /\ \A f \in Verdicts : ~Has(net["rcv"].q, f)
    /\ r.pc = "type" => ~Has(net["rcv"].q, "challenge")
    /\ r.pc \in {"type", "verdict"} => r.tries > 0
    /\ opt.password /\ Opened =>
         /\ r.typed = "good" /\ r.pc \notin Asked
         /\ ~Has(net["rcv"].q, "challenge") /\ ~Has(net["rcv"].q, "wrongPassword")
         /\ \A t \in Tags : ~Has(net["snd"].q, t)
         /\ s.pc \notin {"hello", "ack", "response", "drain"}

\* How the sender leaves, and what the receiver can see of it.
Leaving == s.pc \in {"notify", "over"}
Departure ==
    /\ s.cause = "cancelled" \/ out.err = "cancelled" => s.ctx
    /\ s.pc = "notify" => s.cause \in {"cancelled", "readFailed"}
    /\ s.cause = "readFailed" => opt.mode = "stream"
    /\ net["rcv"].fin => Leaving \/ s.pc = "drain"
    /\ data.fin => Leaving
    /\ Has(data.q, Torn) => s.ctx
    /\ r.aborted => conn["rcv"] # "open"
    /\ conn["rcv"] = "closed" => s.pc = "over" /\ ~s.ctx
    /\ conn["rcv"] = "cancelClose" => s.pc = "over" /\ s.ctx

\* The frames the receiver still has to read at each of its steps.
Pending ==
    /\ r.pc \notin Left /\ s.pc = "notify" /\ s.cause = "readFailed" => Has(net["rcv"].q, "readFailed")
    /\ s.pc = "drain" /\ r.pc \notin Left =>
         \/ r.pc = "challenge" /\ r.tries > 0
         \/ r.pc = "verdict" /\ Has(net["rcv"].q, "wrongPassword")
    /\ s.pc = "drain" => ~Has(net["rcv"].q, "challenge")
    /\ s.pc = "hello" => r.pc \in Left \cup {"hello"}
    /\ s.pc = "negotiate" => opt.mode # "stream"
    /\ \A f \in FromReceiver : ~Has(net["rcv"].q, f)
    /\ AtMostOne(net["rcv"].q, {"hello", "foreign"})
    /\ r.pc \notin Left \cup {"hello"} => ~Has(net["rcv"].q, "hello") /\ ~Has(net["rcv"].q, "foreign")
    /\ s.pc = "hello" => ~Has(net["rcv"].q, "hello") /\ ~Has(net["rcv"].q, "foreign")
    /\ r.pc \notin Asked \cup Left \cup {"verdict"} => \A f \in {"challenge"} \cup Verdicts : ~Has(net["rcv"].q, f)
    /\ opt.mode = "stream" => ~Has(net["rcv"].q, "listing") /\ ~Has(net["rcv"].q, "verifyResponse")

\* What looks like a drop to the receiver is one, or a sender that leaves.
Doubted ==
    /\ r.pc = "drain" => r.cause \notin Transient
    /\ r.pc = "why" => data.fin
    /\ r.pc = "grace" /\ conn["rcv"] = "open" => CloseComes
    /\ r.pc = "over" /\ r.cause \in Transient /\ ~r.ctx /\ conn["rcv"] # "drop" => conn["rcv"] = "closed"

SInv ==
    /\ SessionTypeOK
    /\ AckCommitted
    /\ CompleteSent
    /\ InOrder
    /\ Gated
    /\ Departure
    /\ Pending
    /\ Doubted

-----------------------------------------------------------------------------
Net == [Sides -> [q : Seq(Frames), fin : BOOLEAN]]
Data == [q : Seq(Chunk), fin : BOOLEAN, stop : BOOLEAN]

\* What a queue holds after a frame is added.
LEMMA HasAppend ==
  ASSUME NEW S, NEW q \in Seq(S), NEW f \in S
  PROVE  /\ \A g : Has(Append(q, f), g) <=> Has(q, g) \/ f = g
         /\ \A F : AtMostOne(q, F) /\ (f \notin F \/ \A g \in F : ~Has(q, g)) => AtMostOne(Append(q, f), F)
<1>1. Len(Append(q, f)) = Len(q) + 1 /\ Len(q) \in Nat
  OBVIOUS
<1>2. \A i \in 1..Len(q) : Append(q, f)[i] = q[i]
  OBVIOUS
<1>3. Append(q, f)[Len(q) + 1] = f
  OBVIOUS
<1>4. ASSUME NEW g PROVE Has(Append(q, f), g) <=> Has(q, g) \/ f = g
  <2>1. ASSUME Has(Append(q, f), g) PROVE Has(q, g) \/ f = g
    BY <1>1, <1>2, <1>3, <2>1 DEF Has
  <2>2. ASSUME Has(q, g) PROVE Has(Append(q, f), g)
    BY <1>1, <1>2, <2>2 DEF Has
  <2>3. ASSUME f = g PROVE Has(Append(q, f), g)
    BY <1>1, <1>3, <2>3 DEF Has
  <2> QED BY <2>1, <2>2, <2>3
<1>5. ASSUME NEW F, AtMostOne(q, F), f \notin F \/ \A g \in F : ~Has(q, g) PROVE AtMostOne(Append(q, f), F)
  BY <1>1, <1>2, <1>3, <1>5 DEF AtMostOne, Has
<1> QED BY <1>4, <1>5

\* What a queue holds after its head is taken.
LEMMA HasTail ==
  ASSUME NEW S, NEW q \in Seq(S), q # <<>>
  PROVE  /\ \A f : Has(Tail(q), f) => Has(q, f)
         /\ \A f : Has(q, f) => Head(q) = f \/ Has(Tail(q), f)
         /\ Has(q, Head(q))
         /\ \A F : AtMostOne(q, F) => AtMostOne(Tail(q), F)
         /\ \A F : AtMostOne(q, F) /\ Head(q) \in F => \A f \in F : ~Has(Tail(q), f)
<1>1. Len(q) \in Nat /\ Len(q) > 0 /\ Len(Tail(q)) = Len(q) - 1 /\ Head(q) = q[1]
  OBVIOUS
<1>2. \A i \in 1..(Len(q) - 1) : Tail(q)[i] = q[i + 1]
  OBVIOUS
<1>3. ASSUME NEW f PROVE Has(Tail(q), f) => Has(q, f)
  BY <1>1, <1>2 DEF Has
<1>4. ASSUME NEW f PROVE Has(q, f) => Head(q) = f \/ Has(Tail(q), f)
  <2> SUFFICES ASSUME NEW i \in 1..Len(q), q[i] = f, i # 1 PROVE Has(Tail(q), f)
    BY <1>1 DEF Has
  <2>1. i - 1 \in 1..(Len(q) - 1) /\ Tail(q)[i - 1] = q[i]
    BY <1>1, <1>2
  <2> QED BY <1>1, <2>1 DEF Has
<1>5. Has(q, Head(q))
  BY <1>1 DEF Has
<1>6. ASSUME NEW F, AtMostOne(q, F) PROVE AtMostOne(Tail(q), F)
  <2> SUFFICES ASSUME NEW i \in 1..(Len(q) - 1), NEW j \in 1..(Len(q) - 1), Tail(q)[i] \in F, Tail(q)[j] \in F
               PROVE  i = j
    BY <1>1 DEF AtMostOne
  <2>1. i + 1 = j + 1
    BY <1>1, <1>2, <1>6 DEF AtMostOne
  <2> QED BY <2>1
<1>7. ASSUME NEW F, AtMostOne(q, F), Head(q) \in F, NEW f \in F PROVE ~Has(Tail(q), f)
  <2> SUFFICES ASSUME NEW i \in 1..(Len(q) - 1), Tail(q)[i] = f PROVE FALSE
    BY <1>1 DEF Has
  <2>1. i + 1 = 1
    BY <1>1, <1>2, <1>7 DEF AtMostOne
  <2> QED BY <2>1
<1> QED BY <1>3, <1>4, <1>5, <1>6, <1>7

\* The empty queue.
LEMMA HasEmpty ==
  ASSUME NEW S, NEW q \in Seq(S), q = <<>>
  PROVE  (\A f : ~Has(q, f)) /\ (\A F : AtMostOne(q, F))
  BY DEF Has, AtMostOne

\* A stream whose queue is replaced.
LEMMA QueueUpdate ==
  ASSUME NEW x \in [q : Seq(Frames), fin : BOOLEAN], NEW p \in Seq(Frames)
  PROVE  /\ [x EXCEPT !.q = p] \in [q : Seq(Frames), fin : BOOLEAN]
         /\ [x EXCEPT !.q = p].q = p /\ [x EXCEPT !.q = p].fin = x.fin
  OBVIOUS

\* Posting a frame on the control stream.
LEMMA PostEffect ==
  ASSUME NEW n \in Net, NEW f \in Frames
  PROVE  /\ Post(n, "snd", f) \in Net /\ Post(n, "rcv", f) \in Net
         /\ Post(n, "snd", f)["snd"] = n["snd"] /\ Post(n, "rcv", f)["rcv"] = n["rcv"]
         /\ Post(n, "snd", f)["rcv"].q = Append(n["rcv"].q, f) /\ Post(n, "rcv", f)["snd"].q = Append(n["snd"].q, f)
         /\ Post(n, "snd", f)["rcv"].fin = n["rcv"].fin /\ Post(n, "rcv", f)["snd"].fin = n["snd"].fin
<1>1. /\ n["snd"] \in [q : Seq(Frames), fin : BOOLEAN] /\ n["rcv"] \in [q : Seq(Frames), fin : BOOLEAN]
      /\ Append(n["snd"].q, f) \in Seq(Frames) /\ Append(n["rcv"].q, f) \in Seq(Frames)
  BY DEF Net, Sides
<1>2. /\ Post(n, "snd", f) = [n EXCEPT !["rcv"] = [n["rcv"] EXCEPT !.q = Append(n["rcv"].q, f)]]
      /\ Post(n, "rcv", f) = [n EXCEPT !["snd"] = [n["snd"] EXCEPT !.q = Append(n["snd"].q, f)]]
  BY DEF Post, Other
<1> DEFINE x == [n["rcv"] EXCEPT !.q = Append(n["rcv"].q, f)]
           y == [n["snd"] EXCEPT !.q = Append(n["snd"].q, f)]
<1>3. /\ x \in [q : Seq(Frames), fin : BOOLEAN] /\ x.q = Append(n["rcv"].q, f) /\ x.fin = n["rcv"].fin
      /\ y \in [q : Seq(Frames), fin : BOOLEAN] /\ y.q = Append(n["snd"].q, f) /\ y.fin = n["snd"].fin
  BY <1>1, QueueUpdate
<1> HIDE DEF x, y
<1> QED BY <1>1, <1>2, <1>3 DEF Net, Sides, x, y

\* Closing the writing half.
LEMMA ShutEffect ==
  ASSUME NEW n \in Net
  PROVE  /\ Shut(n, "snd") \in Net /\ Shut(n, "rcv") \in Net
         /\ Shut(n, "snd")["snd"] = n["snd"] /\ Shut(n, "rcv")["rcv"] = n["rcv"]
         /\ Shut(n, "snd")["rcv"].q = n["rcv"].q /\ Shut(n, "rcv")["snd"].q = n["snd"].q
         /\ Shut(n, "snd")["rcv"].fin = TRUE /\ Shut(n, "rcv")["snd"].fin = TRUE
  BY DEF Shut, Other, Net, Sides

\* Taking the frame at the head.
LEMMA TookEffect ==
  ASSUME SessionTypeOK, NEW me \in Sides, HasFrame(me)
  PROVE  /\ Took(me) \in Net
         /\ Took(me)[me].q = Tail(net[me].q) /\ Took(me)[me].fin = net[me].fin
         /\ Took(me)[Other(me)] = net[Other(me)]
         /\ net[me].q \in Seq(Frames) /\ net[me].q # <<>> /\ Head(net[me].q) \in Frames
<1>1. net \in Net /\ net[me] \in [q : Seq(Frames), fin : BOOLEAN] /\ net[me].q # <<>>
  BY DEF SessionTypeOK, Net, HasFrame
<1>2. Tail(net[me].q) \in Seq(Frames) /\ Head(net[me].q) \in Frames
  BY <1>1
<1>3. Took(me) = [net EXCEPT ![me] = [net[me] EXCEPT !.q = Tail(net[me].q)]]
  BY DEF Took
<1> DEFINE x == [net[me] EXCEPT !.q = Tail(net[me].q)]
<1>4. x \in [q : Seq(Frames), fin : BOOLEAN] /\ x.q = Tail(net[me].q) /\ x.fin = net[me].fin
  BY <1>1, <1>2, QueueUpdate
<1> HIDE DEF x
<1>5. Took(me) = [net EXCEPT ![me] = x]
  BY <1>3 DEF x
<1> QED BY <1>1, <1>2, <1>4, <1>5 DEF Net, Sides, Other

-----------------------------------------------------------------------------
\* The sender's record after a step that leaves its counters and its context.
SameCounts == s'.tries = s.tries /\ s'.rounds = s.rounds /\ s'.next = s.next /\ s'.ctx = s.ctx

\* What the end of Send leaves behind.
LEMMA SendEndsEffect ==
  ASSUME SessionTypeOK, NEW cause \in Causes, NEW n \in Net, SendEnds(cause, n)
  PROVE  /\ s' \in Sender /\ SameCounts /\ s'.late = s.late /\ s'.cause = cause
         /\ s'.pc = IF cause \in {"cancelled", "readFailed"} THEN "notify" ELSE "over"
         /\ net' \in Net /\ net'["snd"] = n["snd"] /\ net'["rcv"].fin = TRUE
         /\ net'["rcv"].q = IF cause \in {"cancelled", "readFailed"} THEN Append(n["rcv"].q, cause) ELSE n["rcv"].q
         /\ data' \in Data /\ data'.q = data.q /\ data'.fin = TRUE /\ data'.stop = data.stop
<1>0. s \in Sender /\ data \in Data
  BY DEF SessionTypeOK, Data
<1>1. s' = [s EXCEPT !.cause = cause, !.pc = IF cause \in {"cancelled", "readFailed"} THEN "notify" ELSE "over"]
  BY DEF SendEnds
<1>2. /\ s' \in Sender /\ SameCounts /\ s'.late = s.late /\ s'.cause = cause
      /\ s'.pc = IF cause \in {"cancelled", "readFailed"} THEN "notify" ELSE "over"
  BY <1>0, <1>1 DEF Sender, SameCounts
<1>3. data' \in Data /\ data'.q = data.q /\ data'.fin = TRUE /\ data'.stop = data.stop
  BY <1>0 DEF SendEnds, Data
<1>4. CASE cause \in {"cancelled", "readFailed"}
  <2>1. cause \in Frames
    BY <1>4 DEF Frames, Codes
  <2>2. net' = Shut(Post(n, "snd", cause), "snd")
    BY <1>4 DEF SendEnds
  <2>3. /\ Post(n, "snd", cause) \in Net /\ Post(n, "snd", cause)["snd"] = n["snd"]
        /\ Post(n, "snd", cause)["rcv"].q = Append(n["rcv"].q, cause)
    BY <2>1, PostEffect
  <2> QED BY <1>2, <1>3, <1>4, <2>2, <2>3, ShutEffect
<1>5. CASE cause \notin {"cancelled", "readFailed"}
  <2>1. net' = Shut(n, "snd")
    BY <1>5 DEF SendEnds
  <2> QED BY <1>2, <1>3, <1>5, <2>1, ShutEffect
<1> QED BY <1>4, <1>5

\* What the start of the listing or of the stream leaves behind.
LEMMA StartSendingEffect ==
  ASSUME SessionTypeOK, NEW n \in Net, StartSending(n)
  PROVE  /\ s' \in Sender /\ SameCounts /\ s'.late = s.late /\ s'.cause = s.cause
         /\ s'.pc = IF opt.mode = "stream" THEN "data" ELSE "negotiate"
         /\ net' \in Net /\ net'["snd"] = n["snd"] /\ net'["rcv"].fin = n["rcv"].fin
         /\ net'["rcv"].q = IF opt.mode = "stream" THEN n["rcv"].q ELSE Append(n["rcv"].q, "listing")
<1>0. s \in Sender
  BY DEF SessionTypeOK
<1>1. "listing" \in Frames
  BY DEF Frames
<1>2. CASE opt.mode = "stream"
  BY <1>0, <1>2 DEF StartSending, Sender, SameCounts
<1>3. CASE opt.mode # "stream"
  <2>1. s' = [s EXCEPT !.pc = "negotiate"] /\ net' = Post(n, "snd", "listing")
    BY <1>3 DEF StartSending
  <2>2. s' \in Sender /\ SameCounts /\ s'.late = s.late /\ s'.cause = s.cause /\ s'.pc = "negotiate"
    BY <1>0, <2>1 DEF Sender, SameCounts
  <2> QED BY <1>1, <1>3, <2>1, <2>2, PostEffect
<1> QED BY <1>2, <1>3

\* The receiver's record after a step that leaves everything but its place and cause.
SameRecv ==
    /\ r'.tries = r.tries /\ r'.rounds = r.rounds /\ r'.typed = r.typed /\ r'.asked = r.asked /\ r'.got = r.got
    /\ r'.skipped = r.skipped /\ r'.committed = r.committed /\ r'.ctx = r.ctx

\* What the return of Recv leaves behind: an end, or a doubt about what it saw.
LEMMA ReturnsEffect ==
  ASSUME SessionTypeOK, NEW cause \in Causes, NEW n \in Net, Returns(cause, n)
  PROVE  /\ r' \in Receiver /\ SameRecv /\ r'.aborted = r.aborted
         /\ r'.pc \in {"grace", "over"}
         /\ r'.pc = "grace" => r'.cause = cause /\ ~r.ctx /\ (r.aborted \/ conn["rcv"] # "open" \/ cause \in Transient)
         /\ r'.pc = "over" => /\ r'.cause = cause \/ (cause = "cancelClose" /\ r'.cause = "peerCancelled")
                              /\ cause \in Transient => r.ctx
         /\ net' \in Net /\ net'["rcv"] = n["rcv"] /\ net'["snd"].q = n["snd"].q
         /\ data' \in Data /\ data'.q = data.q /\ data'.fin = data.fin
<1>0. r \in Receiver /\ data \in Data
  BY DEF SessionTypeOK, Data
<1> DEFINE x == [r EXCEPT !.cause = cause]
<1>1. /\ x \in Receiver /\ x.cause = cause /\ x.aborted = r.aborted /\ x.ctx = r.ctx
      /\ x.tries = r.tries /\ x.rounds = r.rounds /\ x.typed = r.typed /\ x.asked = r.asked /\ x.got = r.got
      /\ x.skipped = r.skipped /\ x.committed = r.committed
  BY <1>0 DEF Receiver
<1>2. RecvEnds(x, n)
  BY DEF Returns
<1> HIDE DEF x
<1>3. CASE Doubtful(x)
  <2>1. r' = [x EXCEPT !.pc = "grace"] /\ net' = n /\ data' = data
    BY <1>2, <1>3 DEF RecvEnds
  <2>2. r' \in Receiver /\ SameRecv /\ r'.aborted = r.aborted /\ r'.pc = "grace" /\ r'.cause = cause
    BY <1>1, <2>1 DEF Receiver, SameRecv
  <2>3. ~r.ctx /\ (r.aborted \/ conn["rcv"] # "open" \/ cause \in Transient)
    BY <1>1, <1>3 DEF Doubtful, ConnLost
  <2> QED BY <1>0, <2>1, <2>2, <2>3
<1>4. CASE ~Doubtful(x)
  <2> DEFINE c == IF cause = "cancelClose" /\ ~r.ctx THEN "peerCancelled" ELSE cause
  <2>1. r' = [x EXCEPT !.cause = c, !.pc = "over"] /\ net' = Shut(n, "rcv") /\ data' = [data EXCEPT !.stop = TRUE]
    BY <1>1, <1>2, <1>4 DEF RecvEnds, RecvOver
  <2>2. c \in Causes
    BY DEF Causes
  <2>3. r' \in Receiver /\ SameRecv /\ r'.aborted = r.aborted /\ r'.pc = "over" /\ r'.cause = c
    BY <1>1, <2>1, <2>2 DEF Receiver, SameRecv
  <2>4. cause \in Transient => r.ctx
    BY <1>1, <1>4 DEF Doubtful
  <2>5. data' \in Data /\ data'.q = data.q /\ data'.fin = data.fin
    BY <1>0, <2>1 DEF Data
  <2> QED BY <2>1, <2>3, <2>4, <2>5, ShutEffect
<1> QED BY <1>3, <1>4

-----------------------------------------------------------------------------
\* The queue of a side only lost frames, or got one more.
Fewer(me) ==
    /\ \A f : Has(net'[me].q, f) => Has(net[me].q, f)
    /\ \A F : AtMostOne(net[me].q, F) => AtMostOne(net'[me].q, F)
OneMore(me, g) ==
    /\ \A f : Has(net'[me].q, f) <=> Has(net[me].q, f) \/ f = g
    /\ \A F : AtMostOne(net[me].q, F) /\ (g \notin F \/ \A f \in F : ~Has(net[me].q, f)) => AtMostOne(net'[me].q, F)

\* Reading takes the head off the queue.
LEMMA QueueSteps ==
  ASSUME SessionTypeOK, NEW me \in Sides
  PROVE  /\ net'[me].q = net[me].q => Fewer(me)
         /\ HasFrame(me) /\ net'[me].q = Tail(net[me].q) => Fewer(me)
         /\ \A g \in Frames : net'[me].q = Append(net[me].q, g) => OneMore(me, g)
<1>1. net[me].q \in Seq(Frames)
  BY DEF SessionTypeOK
<1>2. ASSUME net'[me].q = net[me].q PROVE Fewer(me)
  BY <1>2 DEF Fewer
<1>3. ASSUME net[me].q # <<>>, net'[me].q = Tail(net[me].q) PROVE Fewer(me)
  BY <1>1, <1>3, HasTail DEF Fewer
<1>4. ASSUME NEW g \in Frames, net'[me].q = Append(net[me].q, g) PROVE OneMore(me, g)
  <2> DEFINE q == net[me].q
  <2>1. /\ \A f : Has(Append(q, g), f) <=> Has(q, f) \/ g = f
        /\ \A F : AtMostOne(q, F) /\ (g \notin F \/ \A f \in F : ~Has(q, f)) => AtMostOne(Append(q, g), F)
    BY <1>1, HasAppend
  <2> QED BY <1>4, <2>1 DEF OneMore
<1> QED BY <1>2, <1>3, <1>4 DEF HasFrame

\* A step that moves no chunk keeps them in order.
LEMMA SameOrder ==
  ASSUME InOrder, data'.q = data.q, out' = out, s'.next = s.next,
         r'.got = r.got, r'.skipped = r.skipped, r'.asked = r.asked, r'.committed = r.committed,
         r'.pc = "commit" => r.pc = "commit"
  PROVE  InOrder'
  BY DEF InOrder

\* Send returns, before it was on its way out.
LEMMA SendEndsStep ==
  ASSUME SInv, NEW cause \in Causes, NEW n, n = net \/ (HasFrame("snd") /\ n = Took("snd")),
         SendEnds(cause, n), UNCHANGED <<opt, out, r, conn>>,
         s.pc \notin {"notify", "over", "drain"},
         cause = "ok" => r.committed,
         cause = "readFailed" => s.pc = "closing" /\ opt.mode = "stream",
         cause = "cancelled" => s.ctx
  PROVE  SInv'
<1>0. SessionTypeOK
  BY DEF SInv
<1>1. n \in Net /\ n["rcv"] = net["rcv"] /\ (n["snd"].q = net["snd"].q \/ (HasFrame("snd") /\ n["snd"].q = Tail(net["snd"].q)))
  BY <1>0, TookEffect DEF SessionTypeOK, Net, Sides, Other
<1>2. /\ s' \in Sender /\ SameCounts /\ s'.cause = cause
      /\ s'.pc = IF cause \in {"cancelled", "readFailed"} THEN "notify" ELSE "over"
      /\ net' \in Net /\ net'["snd"].q = n["snd"].q /\ net'["rcv"].fin = TRUE
      /\ net'["rcv"].q = IF cause \in {"cancelled", "readFailed"} THEN Append(net["rcv"].q, cause) ELSE net["rcv"].q
      /\ data' \in Data /\ data'.q = data.q /\ data'.fin = TRUE /\ data'.stop = data.stop
  BY <1>0, <1>1, SendEndsEffect
<1>3. Fewer("snd")
  BY <1>0, <1>1, <1>2, QueueSteps DEF Sides
<1>4. IF cause \in {"cancelled", "readFailed"} THEN OneMore("rcv", cause) ELSE Fewer("rcv")
  BY <1>0, <1>2, QueueSteps DEF Sides, Frames, Codes
<1>t. SessionTypeOK'
  BY <1>0, <1>2 DEF SessionTypeOK, Net, Data
<1>a. AckCommitted'
  BY <1>2, <1>3 DEF SInv, AckCommitted, Fewer
<1>c. CompleteSent'
  BY <1>2, <1>4 DEF SInv, CompleteSent, Fewer, OneMore
<1>i. InOrder'
  BY <1>2, SameOrder DEF SInv, SameCounts
<1>g. Gated'
  BY <1>2, <1>3, <1>4 DEF SInv, Gated, Opened, Fewer, OneMore, SameCounts, Tags, Verdicts, Sending
<1>d. Departure'
  BY <1>2 DEF SInv, Departure, Leaving, SameCounts
<1>p. Pending'
  BY <1>2, <1>4 DEF SInv, Pending, Fewer, OneMore, Verdicts, FromReceiver
<1>o. Doubted'
  BY <1>2 DEF SInv, Doubted, CloseComes, SameCounts
<1> QED BY <1>t, <1>a, <1>c, <1>i, <1>g, <1>d, <1>p, <1>o DEF SInv

\* Recv returns.
LEMMA ReturnsStep ==
  ASSUME SInv, NEW cause \in Causes, NEW n, n = net \/ (HasFrame("rcv") /\ n = Took("rcv")),
         Returns(cause, n), UNCHANGED <<opt, s, out, conn>>,
         r.pc \notin {"grace", "over"}, cause = "ok" => r.cause = "ok",
         cause \in Transient /\ ~r.ctx /\ conn["rcv"] = "open" => CloseComes
  PROVE  SInv'
<1>0. SessionTypeOK
  BY DEF SInv
<1>1. n \in Net /\ n["snd"] = net["snd"] /\ (n["rcv"].q = net["rcv"].q \/ (HasFrame("rcv") /\ n["rcv"].q = Tail(net["rcv"].q)))
      /\ n["rcv"].fin = net["rcv"].fin
  BY <1>0, TookEffect DEF SessionTypeOK, Net, Sides, Other
<1>2. /\ r' \in Receiver /\ SameRecv /\ r'.aborted = r.aborted
      /\ r'.pc \in {"grace", "over"}
      /\ r'.pc = "grace" => r'.cause = cause /\ ~r.ctx /\ (r.aborted \/ conn["rcv"] # "open" \/ cause \in Transient)
      /\ r'.pc = "over" => /\ r'.cause = cause \/ (cause = "cancelClose" /\ r'.cause = "peerCancelled")
                           /\ cause \in Transient => r.ctx
      /\ net' \in Net /\ net'["rcv"] = n["rcv"] /\ net'["snd"].q = net["snd"].q
      /\ data' \in Data /\ data'.q = data.q /\ data'.fin = data.fin
  BY <1>0, <1>1, ReturnsEffect
<1>3. Fewer("snd") /\ Fewer("rcv")
  BY <1>0, <1>1, <1>2, QueueSteps DEF Sides
<1>t. SessionTypeOK'
  BY <1>0, <1>2 DEF SessionTypeOK, Net, Data
<1>a. AckCommitted'
  BY <1>2, <1>3 DEF SInv, AckCommitted, Fewer, SameRecv, Left
<1>c. CompleteSent'
  BY <1>2, <1>3 DEF SInv, CompleteSent, Fewer
<1>i. InOrder'
  BY <1>2, SameOrder DEF SInv, SameRecv
<1>g. Gated'
  BY <1>2, <1>3 DEF SInv, Gated, Opened, Fewer, SameRecv, Tags, Verdicts, Sending, Asked, Left
<1>d. Departure'
  BY <1>1, <1>2 DEF SInv, Departure, Leaving
<1>p. Pending'
  BY <1>2, <1>3 DEF SInv, Pending, Fewer, Left
<1>o. Doubted'
  BY <1>2 DEF SInv, Doubted, Departure, CloseComes, SameRecv, Transient
<1> QED BY <1>t, <1>a, <1>c, <1>i, <1>g, <1>d, <1>p, <1>o DEF SInv

\* The receiver posts its last frame and waits for the sender's end.
LEMMA LastWordStep ==
  ASSUME SInv, NEW cause \in Causes, NEW n, n = net \/ (HasFrame("rcv") /\ n = Took("rcv")),
         NEW f \in Frames \ (Tags \cup {"readFailed"}),
         r' \in Receiver, SameRecv, r'.aborted => conn["rcv"] # "open", r'.cause = cause, r'.pc = "drain",
         net' = Shut(Post(n, "rcv", f), "rcv"),
         data' = data \/ data' = [data EXCEPT !.stop = TRUE],
         UNCHANGED <<opt, s, out, conn>>,
         r.pc \notin Left, cause \notin Transient,
         cause = "ok" => Has(net["rcv"].q, "complete"),
         f = "transferAck" => r.committed
  PROVE  SInv'
<1>0. SessionTypeOK
  BY DEF SInv
<1>1. n \in Net /\ n["snd"] = net["snd"] /\ (n["rcv"].q = net["rcv"].q \/ (HasFrame("rcv") /\ n["rcv"].q = Tail(net["rcv"].q)))
      /\ n["rcv"].fin = net["rcv"].fin
  BY <1>0, TookEffect DEF SessionTypeOK, Net, Sides, Other
<1>2. /\ Post(n, "rcv", f) \in Net /\ Post(n, "rcv", f)["rcv"] = n["rcv"]
      /\ Post(n, "rcv", f)["snd"].q = Append(net["snd"].q, f)
  BY <1>1, PostEffect
<1>3. net' \in Net /\ net'["rcv"] = n["rcv"] /\ net'["snd"].q = Append(net["snd"].q, f)
  BY <1>2, ShutEffect
<1>4. r' \in Receiver /\ SameRecv /\ (r'.aborted => conn["rcv"] # "open") /\ r'.cause = cause /\ r'.pc = "drain"
  OBVIOUS
<1>5. data' \in Data /\ data'.q = data.q /\ data'.fin = data.fin
  BY <1>0 DEF SessionTypeOK, Data
<1>6. Fewer("rcv") /\ OneMore("snd", f)
  BY <1>0, <1>1, <1>3, QueueSteps DEF Sides
<1>t. SessionTypeOK'
  BY <1>0, <1>3, <1>4, <1>5 DEF SessionTypeOK, Net, Data
<1>a. AckCommitted'
  BY <1>4, <1>6 DEF SInv, AckCommitted, OneMore, SameRecv, Left
<1>c. CompleteSent'
  BY <1>4, <1>6 DEF SInv, CompleteSent, Fewer
<1>i. InOrder'
  BY <1>4, <1>5, SameOrder DEF SInv, SameRecv
<1>g. Gated'
  BY <1>4, <1>5, <1>6 DEF SInv, Gated, Opened, Fewer, OneMore, SameRecv, Tags, Verdicts, Sending, Asked, Left
<1>d. Departure'
  BY <1>1, <1>3, <1>4, <1>5 DEF SInv, Departure, Leaving
<1>p. Pending'
  BY <1>4, <1>6 DEF SInv, Pending, Fewer, Left
<1>o. Doubted'
  BY <1>4 DEF SInv, Doubted
<1> QED BY <1>t, <1>a, <1>c, <1>i, <1>g, <1>d, <1>p, <1>o DEF SInv

-----------------------------------------------------------------------------
\* The queue of a side lost its head, or got two frames more.
Taken(me) ==
    /\ Fewer(me)
    /\ Has(net[me].q, Head(net[me].q))
    /\ \A f : Has(net[me].q, f) => f = Head(net[me].q) \/ Has(net'[me].q, f)
    /\ \A F : AtMostOne(net[me].q, F) /\ Head(net[me].q) \in F => \A f \in F : ~Has(net'[me].q, f)
TwoMore(me, g, h) ==
    /\ \A f : Has(net'[me].q, f) <=> Has(net[me].q, f) \/ f \in {g, h}
    /\ \A F : AtMostOne(net[me].q, F) /\ g \notin F /\ h \notin F => AtMostOne(net'[me].q, F)
    /\ \A F : AtMostOne(net[me].q, F) /\ ~({g, h} \subseteq F) /\ (\A f \in F : ~Has(net[me].q, f))
               => AtMostOne(net'[me].q, F)

\* What posting does to the queues.
LEMMA NetPost ==
  ASSUME SessionTypeOK, NEW f \in Frames
  PROVE  /\ net' = Post(net, "snd", f) => /\ net' \in Net /\ net'["snd"] = net["snd"] /\ net'["rcv"].fin = net["rcv"].fin
                                          /\ OneMore("rcv", f)
         /\ net' = Post(net, "rcv", f) => /\ net' \in Net /\ net'["rcv"] = net["rcv"]
                                          /\ OneMore("snd", f)
<1>1. net \in Net
  BY DEF SessionTypeOK, Net
<1>2. ASSUME net' = Post(net, "snd", f)
      PROVE  net' \in Net /\ net'["snd"] = net["snd"] /\ net'["rcv"].fin = net["rcv"].fin /\ OneMore("rcv", f)
  <2>1. /\ net' \in Net /\ net'["snd"] = net["snd"] /\ net'["rcv"].fin = net["rcv"].fin
        /\ net'["rcv"].q = Append(net["rcv"].q, f)
    BY <1>1, <1>2, PostEffect
  <2> QED BY <2>1, QueueSteps DEF Sides
<1>3. ASSUME net' = Post(net, "rcv", f)
      PROVE  net' \in Net /\ net'["rcv"] = net["rcv"] /\ OneMore("snd", f)
  <2>1. net' \in Net /\ net'["rcv"] = net["rcv"] /\ net'["snd"].q = Append(net["snd"].q, f)
    BY <1>1, <1>3, PostEffect
  <2> QED BY <2>1, QueueSteps DEF Sides
<1> QED BY <1>2, <1>3

\* What reading does to the queues.
LEMMA NetTook ==
  ASSUME SessionTypeOK
  PROVE  /\ HasFrame("snd") /\ net' = Took("snd") =>
              net' \in Net /\ net'["rcv"] = net["rcv"] /\ Taken("snd")
         /\ HasFrame("rcv") /\ net' = Took("rcv") =>
              net' \in Net /\ net'["snd"] = net["snd"] /\ net'["rcv"].fin = net["rcv"].fin /\ Taken("rcv")
<1>1. ASSUME NEW me \in Sides, HasFrame(me), net'[me].q = Tail(net[me].q) PROVE Taken(me)
  <2>1. net[me].q \in Seq(Frames) /\ net[me].q # <<>>
    BY <1>1 DEF SessionTypeOK, HasFrame
  <2> QED BY <1>1, <2>1, HasTail, QueueSteps DEF Taken
<1> QED BY <1>1, TookEffect DEF Sides, Other

\* What reading and answering does to the queues.
LEMMA NetAnswer ==
  ASSUME SessionTypeOK, NEW f \in Frames
  PROVE  /\ HasFrame("snd") /\ net' = Post(Took("snd"), "snd", f) =>
              net' \in Net /\ net'["rcv"].fin = net["rcv"].fin /\ Taken("snd") /\ OneMore("rcv", f)
         /\ HasFrame("rcv") /\ net' = Post(Took("rcv"), "rcv", f) =>
              net' \in Net /\ net'["rcv"].fin = net["rcv"].fin /\ Taken("rcv") /\ OneMore("snd", f)
<1>1. ASSUME NEW me \in Sides, HasFrame(me), net'[me].q = Tail(net[me].q) PROVE Taken(me)
  <2>1. net[me].q \in Seq(Frames) /\ net[me].q # <<>>
    BY <1>1 DEF SessionTypeOK, HasFrame
  <2> QED BY <1>1, <2>1, HasTail, QueueSteps DEF Taken
<1>2. ASSUME HasFrame("snd"), net' = Post(Took("snd"), "snd", f)
      PROVE  net' \in Net /\ net'["rcv"].fin = net["rcv"].fin /\ Taken("snd") /\ OneMore("rcv", f)
  <2>1. Took("snd") \in Net /\ Took("snd")["snd"].q = Tail(net["snd"].q) /\ Took("snd")["rcv"] = net["rcv"]
    BY <1>2, TookEffect DEF Sides, Other
  <2>2. net' \in Net /\ net'["snd"].q = Tail(net["snd"].q) /\ net'["rcv"].q = Append(net["rcv"].q, f)
        /\ net'["rcv"].fin = net["rcv"].fin
    <3> DEFINE n == Took("snd")
    <3>1. n \in Net /\ n["snd"].q = Tail(net["snd"].q) /\ n["rcv"] = net["rcv"] /\ net' = Post(n, "snd", f)
      BY <1>2, <2>1
    <3> HIDE DEF n
    <3>2. /\ Post(n, "snd", f) \in Net /\ Post(n, "snd", f)["snd"] = n["snd"]
          /\ Post(n, "snd", f)["rcv"].q = Append(n["rcv"].q, f) /\ Post(n, "snd", f)["rcv"].fin = n["rcv"].fin
      BY <3>1, PostEffect
    <3> QED BY <3>1, <3>2
  <2>3. OneMore("rcv", f)
    BY <2>2, QueueSteps DEF Sides
  <2> QED BY <1>1, <1>2, <2>2, <2>3 DEF Sides
<1>3. ASSUME HasFrame("rcv"), net' = Post(Took("rcv"), "rcv", f)
      PROVE  net' \in Net /\ net'["rcv"].fin = net["rcv"].fin /\ Taken("rcv") /\ OneMore("snd", f)
  <2>1. /\ Took("rcv") \in Net /\ Took("rcv")["rcv"].q = Tail(net["rcv"].q) /\ Took("rcv")["snd"] = net["snd"]
        /\ Took("rcv")["rcv"].fin = net["rcv"].fin
    BY <1>3, TookEffect DEF Sides, Other
  <2>2. net' \in Net /\ net'["rcv"].q = Tail(net["rcv"].q) /\ net'["snd"].q = Append(net["snd"].q, f)
        /\ net'["rcv"].fin = net["rcv"].fin
    BY <1>3, <2>1, PostEffect, ZenonT(60)
  <2>3. OneMore("snd", f)
    BY <2>2, QueueSteps DEF Sides
  <2> QED BY <1>1, <1>3, <2>2, <2>3 DEF Sides
<1> QED BY <1>2, <1>3

\* Two frames, one after the other.
LEMMA TwoAppends ==
  ASSUME SessionTypeOK, NEW me \in Sides, NEW g \in Frames, NEW h \in Frames,
         net'[me].q = Append(Append(net[me].q, g), h)
  PROVE  TwoMore(me, g, h)
<1> DEFINE q == net[me].q
           p == Append(q, g)
<1>1. q \in Seq(Frames) /\ p \in Seq(Frames)
  BY DEF SessionTypeOK
<1>2. /\ \A f : Has(p, f) <=> Has(q, f) \/ g = f
      /\ \A F : AtMostOne(q, F) /\ (g \notin F \/ \A f \in F : ~Has(q, f)) => AtMostOne(p, F)
  BY <1>1, HasAppend
<1> HIDE DEF p
<1>3. /\ \A f : Has(Append(p, h), f) <=> Has(p, f) \/ h = f
      /\ \A F : AtMostOne(p, F) /\ (h \notin F \/ \A f \in F : ~Has(p, f)) => AtMostOne(Append(p, h), F)
  BY <1>1, HasAppend
<1>4. net'[me].q = Append(p, h)
  BY DEF p
<1>5. \A f : Has(net'[me].q, f) <=> Has(q, f) \/ f \in {g, h}
  BY <1>2, <1>3, <1>4
<1>6. ASSUME NEW F, AtMostOne(q, F), g \notin F, h \notin F PROVE AtMostOne(net'[me].q, F)
  BY <1>2, <1>3, <1>4, <1>6
<1>7. ASSUME NEW F, AtMostOne(q, F), ~({g, h} \subseteq F), \A f \in F : ~Has(q, f) PROVE AtMostOne(net'[me].q, F)
  <2>1. AtMostOne(p, F)
    BY <1>2, <1>7
  <2>2. h \notin F \/ \A f \in F : ~Has(p, f)
    BY <1>2, <1>7
  <2> QED BY <1>3, <1>4, <2>1, <2>2
<1> QED BY <1>5, <1>6, <1>7 DEF TwoMore

-----------------------------------------------------------------------------
\* Send opens with its hello.
LEMMA HelloStep ==
  ASSUME SInv, hello
  PROVE  SInv'
<1>0. SessionTypeOK
  BY DEF SInv
<1>1. /\ s.pc = "hello" /\ s' \in Sender /\ SameCounts /\ s'.cause = s.cause /\ s'.pc = "ack"
      /\ UNCHANGED <<opt, out, r, data, conn>>
  BY <1>0 DEF hello, SessionTypeOK, Sender, SameCounts
<1>2. PICK f \in {"hello", "foreign"} :
        OneMore("rcv", f) /\ net' \in Net /\ net'["snd"] = net["snd"] /\ net'["rcv"].fin = net["rcv"].fin
  BY <1>0, NetPost DEF hello, Frames
<1>t. SessionTypeOK'
  BY <1>0, <1>1, <1>2 DEF SessionTypeOK, Net, Data
<1>a. AckCommitted'
  BY <1>0, <1>1, <1>2 DEF SInv, AckCommitted, Left, OneMore, SameCounts
<1>c. CompleteSent'
  BY <1>0, <1>1, <1>2 DEF SInv, CompleteSent, OneMore, SameCounts
<1>i. InOrder'
  BY <1>0, <1>1, <1>2 DEF SInv, InOrder, SameCounts
<1>g. Gated'
  BY <1>0, <1>1, <1>2 DEF SInv, Gated, Opened, Tags, Verdicts, Sending, Asked, Left, OneMore, SameCounts
<1>d. Departure'
  BY <1>0, <1>1, <1>2 DEF SInv, Departure, Leaving, OneMore, SameCounts
<1>p. Pending'
  BY <1>0, <1>1, <1>2 DEF SInv, Pending, Left, Asked, Verdicts, FromReceiver, OneMore, SameCounts
<1>o. Doubted'
  BY <1>0, <1>1, <1>2 DEF SInv, Doubted, CloseComes, Transient, SameCounts
<1> QED BY <1>t, <1>a, <1>c, <1>i, <1>g, <1>d, <1>p, <1>o DEF SInv

\* Handing the packer a chunk.
LEMMA PacksEffect ==
  ASSUME SessionTypeOK, NEW c \in Skip..Chunks, Packs(c)
  PROVE  /\ s.pc = "data" /\ s.next <= Chunks /\ s.next \in 1..Chunks
         /\ out'.err = out.err /\ out' \in [q : Seq(Skip..Chunks), err : Causes]
         /\ Len(out.q) \in Nat /\ Len(out'.q) = Len(out.q) + 1 /\ Len(out'.q) <= PackerQueue
         /\ out'.q[Len(out.q) + 1] = c /\ \A i \in 1..Len(out.q) : out'.q[i] = out.q[i]
<1>1. s \in Sender /\ out \in [q : Seq(Skip..Chunks), err : Causes] /\ out.q \in Seq(Skip..Chunks)
  BY DEF SessionTypeOK
<1>2. s.pc = "data" /\ s.next <= Chunks /\ Len(out.q) < PackerQueue /\ out' = [out EXCEPT !.q = Append(out.q, c)]
  BY DEF Packs
<1>3. s.next \in 1..Chunks
  BY <1>1, <1>2, SessionAssumption DEF Sender
<1> DEFINE p == Append(out.q, c)
<1>4. /\ p \in Seq(Skip..Chunks) /\ Len(p) = Len(out.q) + 1 /\ Len(out.q) \in Nat
      /\ p[Len(out.q) + 1] = c /\ \A i \in 1..Len(out.q) : p[i] = out.q[i]
  BY <1>1
<1> HIDE DEF p
<1>5. out' \in [q : Seq(Skip..Chunks), err : Causes] /\ out'.q = p /\ out'.err = out.err
  BY <1>1, <1>2, <1>4 DEF p
<1>6. Len(p) <= PackerQueue
  BY <1>2, <1>4, SessionAssumption
<1> QED BY <1>2, <1>3, <1>4, <1>5, <1>6

\* What the lengths of the queues are.
LEMMA Lengths ==
  ASSUME SessionTypeOK
  PROVE  /\ Len(r.got) \in Nat /\ Len(data.q) \in Nat /\ Len(out.q) \in Nat
         /\ s.next \in Nat /\ Chunks \in Nat
<1>1. s \in Sender /\ out.q \in Seq(Skip..Chunks) /\ data.q \in Seq(Chunk) /\ r.got \in Seq(1..Chunks)
  BY DEF SessionTypeOK, Receiver
<1> QED BY <1>1, SessionAssumption DEF Sender

\* A chunk, or a skip marker, behind the others keeps them in order.
LEMMA PackOrder ==
  ASSUME SessionTypeOK, InOrder, UNCHANGED <<r, data>>, s.next <= Chunks,
         out'.err = out.err, Len(out'.q) = Len(out.q) + 1, \A i \in 1..Len(out.q) : out'.q[i] = out.q[i],
         NEW c, out'.q[Len(out.q) + 1] = c, s'.next \in Nat,
         (c = s.next /\ s'.next = s.next + 1) \/ (c = Skip /\ s'.next = Chunks + 1)
  PROVE  InOrder'
<1> DEFINE n == Len(r.got)
           m == Len(data.q)
           k == Len(out.q)
<1>0. n \in Nat /\ m \in Nat /\ k \in Nat /\ s.next \in Nat /\ Chunks \in Nat
  BY Lengths
<1>1. ~(s.next > Chunks)
  BY <1>0
<1>2. \A i \in 1..n : r.got[i] = i
  BY DEF InOrder
<1>3. \A i \in 1..m : data.q[i] = n + i \/ (i = m /\ data.q[i] = Torn /\ out.err # "none")
  BY <1>1 DEF InOrder
<1>4. out.err = "none" => n + m + k + 1 = s.next /\ \A i \in 1..k : out.q[i] = n + m + i
  BY <1>1 DEF InOrder
<1>5. r.skipped => m = 0 /\ out.err # "none"
  BY <1>1 DEF InOrder
<1>6. r.pc = "commit" \/ r.committed => n = Chunks \/ r.skipped \/ ~r.asked
  BY DEF InOrder
<1> DEFINE j == Len(out'.q)
<1>7. /\ j = k + 1 /\ out'.q[k + 1] = c /\ \A i \in 1..k : out'.q[i] = out.q[i]
      /\ n \in Nat /\ m \in Nat /\ k \in Nat /\ s.next \in Nat /\ s'.next \in Nat /\ Chunks \in Nat
  BY <1>0
<1> HIDE DEF n, m, k, j
<1>8. ASSUME out'.err = "none", s'.next <= Chunks PROVE n + m + j + 1 = s'.next
  BY <1>4, <1>7, <1>8
<1>9. ASSUME out'.err = "none", NEW i \in 1..j
      PROVE  out'.q[i] = n + m + i \/ (i = j /\ out'.q[i] = Skip /\ s'.next > Chunks)
  <2>1. i \in 1..k \/ i = k + 1
    BY <1>7
  <2>2. CASE i \in 1..k
    BY <1>4, <1>7, <1>9, <2>2
  <2>3. CASE i = k + 1 /\ c = s.next
    BY <1>4, <1>7, <1>9, <2>3
  <2>4. CASE i = k + 1 /\ c = Skip /\ s'.next = Chunks + 1
    BY <1>7, <2>4
  <2> QED BY <2>1, <2>2, <2>3, <2>4
<1> QED BY <1>2, <1>3, <1>5, <1>6, <1>8, <1>9 DEF InOrder, n, m, k, j

\* The next chunk goes to the packer.
LEMMA AppendStep ==
  ASSUME SInv, appendBytes
  PROVE  SInv'
<1>0. SessionTypeOK
  BY DEF SInv
<1>1. Packs(s.next) /\ s.next \in Skip..Chunks
  BY <1>0, SessionAssumption DEF appendBytes, Packs, SessionTypeOK, Sender, Skip
<1>2. /\ s.pc = "data" /\ s.next \in 1..Chunks
      /\ out'.err = out.err /\ out' \in [q : Seq(Skip..Chunks), err : Causes]
      /\ Len(out'.q) = Len(out.q) + 1 /\ Len(out'.q) <= PackerQueue
      /\ out'.q[Len(out.q) + 1] = s.next /\ \A i \in 1..Len(out.q) : out'.q[i] = out.q[i]
  BY <1>0, <1>1, PacksEffect
<1>3. s \in Sender /\ s' = [s EXCEPT !.next = s.next + 1] /\ s.next + 1 \in 1..(Chunks + 1) /\ UNCHANGED <<opt, r, net, data, conn>>
  BY <1>0, <1>2, SessionAssumption DEF appendBytes, SessionTypeOK
<1>4. /\ s' \in Sender /\ s'.tries = s.tries /\ s'.next = s.next + 1
      /\ s'.ctx = s.ctx /\ s'.cause = s.cause /\ s'.pc = s.pc
  BY <1>3 DEF Sender
<1>t. SessionTypeOK'
  BY <1>0, <1>2, <1>3, <1>4 DEF SessionTypeOK, Net, Data
<1>a. AckCommitted'
  BY <1>0, <1>2, <1>3, <1>4 DEF SInv, AckCommitted, Left
<1>c. CompleteSent'
  BY <1>0, <1>2, <1>3, <1>4 DEF SInv, CompleteSent
<1>i. InOrder'
  BY <1>0, <1>2, <1>3, <1>4, SessionAssumption, PackOrder DEF SInv
<1>g. Gated'
  BY <1>0, <1>2, <1>3, <1>4 DEF SInv, Gated, Opened, Tags, Verdicts, Sending, Asked, Left
<1>d. Departure'
  BY <1>0, <1>2, <1>3, <1>4 DEF SInv, Departure, Leaving
<1>p. Pending'
  BY <1>0, <1>2, <1>3, <1>4 DEF SInv, Pending, Left, Asked, Verdicts, FromReceiver
<1>o. Doubted'
  BY <1>0, <1>2, <1>3, <1>4 DEF SInv, Doubted, CloseComes, Transient
<1> QED BY <1>t, <1>a, <1>c, <1>i, <1>g, <1>d, <1>p, <1>o DEF SInv

\* A file that cannot be read ends in a skip marker.
LEMMA SkipStep ==
  ASSUME SInv, skipFile
  PROVE  SInv'
<1>0. SessionTypeOK
  BY DEF SInv
<1>1. Packs(Skip) /\ Skip \in Skip..Chunks
  BY <1>0, SessionAssumption DEF skipFile, Packs, SessionTypeOK, Sender, Skip
<1>2. /\ s.pc = "data" /\ s.next \in 1..Chunks
      /\ out'.err = out.err /\ out' \in [q : Seq(Skip..Chunks), err : Causes]
      /\ Len(out'.q) = Len(out.q) + 1 /\ Len(out'.q) <= PackerQueue
      /\ out'.q[Len(out.q) + 1] = Skip /\ \A i \in 1..Len(out.q) : out'.q[i] = out.q[i]
  BY <1>0, <1>1, PacksEffect
<1>3. s \in Sender /\ s' = [s EXCEPT !.next = Chunks + 1] /\ Chunks + 1 \in 1..(Chunks + 1) /\ UNCHANGED <<opt, r, net, data, conn>>
  BY <1>0, <1>2, SessionAssumption DEF skipFile, SessionTypeOK
<1>4. /\ s' \in Sender /\ s'.tries = s.tries /\ s'.next = Chunks + 1
      /\ s'.ctx = s.ctx /\ s'.cause = s.cause /\ s'.pc = s.pc
  BY <1>3 DEF Sender
<1>t. SessionTypeOK'
  BY <1>0, <1>2, <1>3, <1>4 DEF SessionTypeOK, Net, Data
<1>a. AckCommitted'
  BY <1>0, <1>2, <1>3, <1>4 DEF SInv, AckCommitted, Left
<1>c. CompleteSent'
  BY <1>0, <1>2, <1>3, <1>4 DEF SInv, CompleteSent
<1>i. InOrder'
  BY <1>0, <1>2, <1>3, <1>4, SessionAssumption, PackOrder DEF SInv
<1>g. Gated'
  BY <1>0, <1>2, <1>3, <1>4 DEF SInv, Gated, Opened, Tags, Verdicts, Sending, Asked, Left
<1>d. Departure'
  BY <1>0, <1>2, <1>3, <1>4 DEF SInv, Departure, Leaving
<1>p. Pending'
  BY <1>0, <1>2, <1>3, <1>4 DEF SInv, Pending, Left, Asked, Verdicts, FromReceiver
<1>o. Doubted'
  BY <1>0, <1>2, <1>3, <1>4 DEF SInv, Doubted, CloseComes, Transient
<1> QED BY <1>t, <1>a, <1>c, <1>i, <1>g, <1>d, <1>p, <1>o DEF SInv

\* The loop over the source ends.
LEMMA ClosePackerStep ==
  ASSUME SInv, NEW cause \in {"none", "readFailed", "cancelled"}, closePacker(cause)
  PROVE  SInv'
<1>0. SessionTypeOK
  BY DEF SInv
<1>1. /\ s.pc = "data" /\ Leaves(cause) /\ s' \in Sender /\ SameCounts /\ s'.cause = cause /\ s'.pc = "closing"
      /\ UNCHANGED <<opt, out, r, net, data, conn>>
  BY <1>0 DEF closePacker, SessionTypeOK, Sender, SameCounts, Causes, Codes
<1>t. SessionTypeOK'
  BY <1>0, <1>1 DEF SessionTypeOK, Net, Data
<1>a. AckCommitted'
  BY <1>0, <1>1 DEF SInv, AckCommitted, Left, SameCounts
<1>c. CompleteSent'
  BY <1>0, <1>1 DEF SInv, CompleteSent, SameCounts
<1>i. InOrder'
  BY <1>0, <1>1 DEF SInv, InOrder, SameCounts
<1>g. Gated'
  BY <1>0, <1>1 DEF SInv, Gated, Opened, Tags, Verdicts, Sending, Asked, Left, SameCounts
<1>d. Departure'
  BY <1>0, <1>1 DEF SInv, Departure, Leaving, SameCounts, Leaves
<1>p. Pending'
  BY <1>0, <1>1 DEF SInv, Pending, Left, Asked, Verdicts, FromReceiver, SameCounts
<1>o. Doubted'
  BY <1>0, <1>1 DEF SInv, Doubted, CloseComes, Transient, SameCounts
<1> QED BY <1>t, <1>a, <1>c, <1>i, <1>g, <1>d, <1>p, <1>o DEF SInv

\* The packer returns its writer's error.
LEMMA ChunkErrorStep ==
  ASSUME SInv, chunkError
  PROVE  SInv'
<1>0. SessionTypeOK
  BY DEF SInv
<1>1. /\ s.pc = "data" /\ s' \in Sender /\ SameCounts /\ s'.cause = s.cause /\ s'.pc = "reason"
      /\ UNCHANGED <<opt, out, r, net, data, conn>>
  BY <1>0 DEF chunkError, SessionTypeOK, Sender, SameCounts
<1>t. SessionTypeOK'
  BY <1>0, <1>1 DEF SessionTypeOK, Net, Data
<1>a. AckCommitted'
  BY <1>0, <1>1 DEF SInv, AckCommitted, Left, SameCounts
<1>c. CompleteSent'
  BY <1>0, <1>1 DEF SInv, CompleteSent, SameCounts
<1>i. InOrder'
  BY <1>0, <1>1 DEF SInv, InOrder, SameCounts
<1>g. Gated'
  BY <1>0, <1>1 DEF SInv, Gated, Opened, Tags, Verdicts, Sending, Asked, Left, SameCounts
<1>d. Departure'
  BY <1>0, <1>1 DEF SInv, Departure, Leaving, SameCounts
<1>p. Pending'
  BY <1>0, <1>1 DEF SInv, Pending, Left, Asked, Verdicts, FromReceiver, SameCounts
<1>o. Doubted'
  BY <1>0, <1>1 DEF SInv, Doubted, CloseComes, Transient, SameCounts
<1> QED BY <1>t, <1>a, <1>c, <1>i, <1>g, <1>d, <1>p, <1>o DEF SInv

\* What appending does to a queue of chunks.
LEMMA ChunkAppend ==
  ASSUME NEW S, NEW q \in Seq(S), NEW c \in S
  PROVE  /\ Append(q, c) \in Seq(S) /\ Len(q) \in Nat /\ Len(Append(q, c)) = Len(q) + 1
         /\ Append(q, c)[Len(q) + 1] = c /\ \A i \in 1..Len(q) : Append(q, c)[i] = q[i]
         /\ Append(q, c) # <<>>
  OBVIOUS

\* What taking its head does to a queue of chunks.
LEMMA ChunkTail ==
  ASSUME NEW S, NEW q \in Seq(S), q # <<>>
  PROVE  /\ Tail(q) \in Seq(S) /\ Len(q) \in Nat /\ Len(Tail(q)) \in Nat /\ Len(q) = Len(Tail(q)) + 1
         /\ Head(q) = q[1] /\ Head(q) \in S /\ \A i \in 1..Len(Tail(q)) : Tail(q)[i] = q[i + 1]
  OBVIOUS

\* The writer hands the first chunk of the packer to the stream.
LEMMA WriteOrder ==
  ASSUME SessionTypeOK, InOrder, UNCHANGED <<r, s>>, out.err = "none", out'.err = out.err, out.q # <<>>,
         out'.q = Tail(out.q), data'.q = Append(data.q, Head(out.q))
  PROVE  InOrder'
<1> DEFINE n == Len(r.got)
           m == Len(data.q)
           k == Len(out.q)
           k2 == Len(out'.q)
           m2 == Len(data'.q)
           c == Head(out.q)
<1>1. out.q \in Seq(Skip..Chunks) /\ data.q \in Seq(Chunk) /\ c \in Chunk /\ c = out.q[1]
  BY SessionAssumption DEF SessionTypeOK, Chunk, Skip, Torn
<1>2. /\ k2 \in Nat /\ k = k2 + 1 /\ m2 = m + 1
      /\ n \in Nat /\ m \in Nat /\ k \in Nat /\ s.next \in Nat /\ Chunks \in Nat
  BY <1>1, Lengths, ChunkAppend, ChunkTail
<1>20. \A i \in 1..k2 : out'.q[i] = out.q[i + 1]
  BY <1>1, ChunkTail
<1>21. data'.q[m + 1] = c /\ \A i \in 1..m : data'.q[i] = data.q[i]
  BY <1>1, ChunkAppend
<1>3. /\ \A i \in 1..n : r.got[i] = i
      /\ r.pc = "commit" \/ r.committed => n = Chunks \/ r.skipped \/ ~r.asked
  BY DEF InOrder
<1>4. ~r.skipped /\ k # 0
  BY <1>2 DEF InOrder
<1>5. \A i \in 1..m : data.q[i] = n + i
  BY <1>4 DEF InOrder
<1>6. \A i \in 1..k : out.q[i] = n + m + i \/ (i = k /\ out.q[i] = Skip /\ s.next > Chunks)
  BY DEF InOrder
<1>7. s.next <= Chunks => n + m + k + 1 = s.next
  BY DEF InOrder
<1> HIDE DEF n, m, k, k2, m2, c
<1>8. c = n + m + 1 \/ (k2 = 0 /\ c = Skip /\ s.next > Chunks)
  <2>1. 1 \in 1..k /\ (1 = k <=> k2 = 0)
    BY <1>2
  <2>2. out.q[1] = n + m + 1 \/ (1 = k /\ out.q[1] = Skip /\ s.next > Chunks)
    BY <1>6, <2>1
  <2> QED BY <1>1, <2>1, <2>2
<1>9. ASSUME NEW i \in 1..m2
      PROVE  data'.q[i] = n + i \/ (i = m2 /\ data'.q[i] = Skip /\ s.next > Chunks /\ k2 = 0)
  <2>1. i \in 1..m \/ i = m + 1
    BY <1>2
  <2>2. CASE i \in 1..m
    BY <1>5, <1>21, <2>2
  <2>3. CASE i = m + 1
    <3>1. n + i = n + m + 1 /\ i = m2
      BY <1>2, <2>3
    <3> QED BY <1>8, <1>21, <2>3, <3>1
  <2> QED BY <2>1, <2>2, <2>3
<1>10. ASSUME NEW i \in 1..k2
       PROVE  out'.q[i] = n + m2 + i \/ (i = k2 /\ out'.q[i] = Skip /\ s.next > Chunks)
  <2>0. i + 1 \in 1..k
    BY <1>2
  <2>1. out'.q[i] = out.q[i + 1]
    BY <1>20
  <2>2. out.q[i + 1] = n + m + (i + 1) \/ (i + 1 = k /\ out.q[i + 1] = Skip /\ s.next > Chunks)
    BY <1>6, <2>0
  <2>3. n + m + (i + 1) = n + m2 + i /\ (i + 1 = k => i = k2)
    BY <1>2
  <2> QED BY <2>1, <2>2, <2>3
<1>11. s.next <= Chunks => n + m2 + k2 + 1 = s.next
  BY <1>2, <1>7
<1> QED BY <1>3, <1>4, <1>9, <1>10, <1>11 DEF InOrder, n, m2, k2

\* The writer writes a chunk.
LEMMA WriteChunkStep ==
  ASSUME SInv, writeChunk
  PROVE  SInv'
<1>0. SessionTypeOK
  BY DEF SInv
<1>1. /\ out.q # <<>> /\ out.err = "none" /\ Len(data.q) < Window /\ UNCHANGED <<opt, s, r, net, conn>>
      /\ data' = [data EXCEPT !.q = Append(data.q, Head(out.q))] /\ out' = [out EXCEPT !.q = Tail(out.q)]
      /\ out \in [q : Seq(Skip..Chunks), err : Causes] /\ data \in Data
  BY <1>0 DEF writeChunk, SessionTypeOK, Data
<1>2. out.q \in Seq(Skip..Chunks) /\ data.q \in Seq(Chunk)
  BY <1>1 DEF Data
<1>3. /\ Tail(out.q) \in Seq(Skip..Chunks) /\ Len(Tail(out.q)) \in Nat /\ Len(out.q) = Len(Tail(out.q)) + 1
      /\ Head(out.q) \in Skip..Chunks
  BY <1>1, <1>2, ChunkTail
<1>4. Head(out.q) \in Chunk /\ Head(out.q) # Torn
  BY <1>3, SessionAssumption DEF Chunk, Torn, Skip
<1>5. /\ Append(data.q, Head(out.q)) \in Seq(Chunk) /\ Len(Append(data.q, Head(out.q))) = Len(data.q) + 1
      /\ Len(data.q) \in Nat
      /\ Has(Append(data.q, Head(out.q)), Torn) => Has(data.q, Torn)
  BY <1>2, <1>4, ChunkAppend, HasAppend
<1>6. /\ data' \in Data /\ data'.q = Append(data.q, Head(out.q)) /\ data'.fin = data.fin /\ data'.stop = data.stop
  BY <1>1, <1>5 DEF Data
<1>7. out' \in [q : Seq(Skip..Chunks), err : Causes] /\ out'.q = Tail(out.q) /\ out'.err = out.err
  BY <1>1, <1>3
<1>8. Len(data'.q) <= Window + 1 /\ Len(out'.q) <= PackerQueue
  <2>1. Len(out.q) <= PackerQueue
    BY <1>0 DEF SessionTypeOK
  <2> QED BY <1>1, <1>3, <1>5, <1>6, <1>7, <2>1, SessionAssumption
<1>9. Has(data'.q, Torn) => Has(data.q, Torn)
  BY <1>5, <1>6
<1>t. SessionTypeOK'
  BY <1>0, <1>1, <1>6, <1>7, <1>8 DEF SessionTypeOK, Data
<1>a. AckCommitted'
  BY <1>0, <1>1, <1>6, <1>7, <1>9 DEF SInv, AckCommitted, Left
<1>c. CompleteSent'
  BY <1>0, <1>1, <1>6, <1>7, <1>9 DEF SInv, CompleteSent
<1>i. InOrder'
  BY <1>0, <1>1, <1>6, <1>7, WriteOrder DEF SInv
<1>g. Gated'
  BY <1>0, <1>1, <1>6, <1>7, <1>9 DEF SInv, Gated, Opened, Tags, Verdicts, Sending, Asked, Left
<1>d. Departure'
  BY <1>0, <1>1, <1>6, <1>7, <1>9 DEF SInv, Departure, Leaving
<1>p. Pending'
  BY <1>0, <1>1, <1>6, <1>7, <1>9 DEF SInv, Pending, Left, Asked, Verdicts, FromReceiver
<1>o. Doubted'
  BY <1>0, <1>1, <1>6, <1>7, <1>9 DEF SInv, Doubted, CloseComes, Transient
<1> QED BY <1>t, <1>a, <1>c, <1>i, <1>g, <1>d, <1>p, <1>o DEF SInv

\* A writer that fails, or has failed, takes what is queued; it may leave a cut chunk.
LEMMA TakeOrder ==
  ASSUME SessionTypeOK, InOrder, UNCHANGED <<r, s>>, out'.err # "none",
         data'.q = data.q \/ (out.err = "none" /\ out.q # <<>> /\ data'.q = Append(data.q, Torn))
  PROVE  InOrder'
<1> DEFINE n == Len(r.got)
           m == Len(data.q)
           m2 == Len(data'.q)
<1>1. data.q \in Seq(Chunk) /\ Torn \in Chunk /\ out.q \in Seq(Skip..Chunks)
  BY SessionAssumption DEF SessionTypeOK, Chunk, Skip, Torn
<1>2. /\ \A i \in 1..n : r.got[i] = i
      /\ r.pc = "commit" \/ r.committed => n = Chunks \/ r.skipped \/ ~r.asked
      /\ r.skipped => m = 0 /\ (out.err = "none" => Len(out.q) = 0)
      /\ \A i \in 1..m : \/ data.q[i] = n + i
                         \/ i = m /\ data.q[i] = Torn /\ out.err # "none"
                         \/ i = m /\ data.q[i] = Skip /\ s.next > Chunks /\ (out.err = "none" => Len(out.q) = 0)
  BY DEF InOrder
<1>3. CASE data'.q = data.q
  BY <1>2, <1>3 DEF InOrder
<1>4. CASE out.err = "none" /\ out.q # <<>> /\ data'.q = Append(data.q, Torn)
  <2>1. Len(out.q) # 0
    BY <1>1, <1>4
  <2>2. ~r.skipped /\ \A i \in 1..m : data.q[i] = n + i
    BY <1>2, <1>4, <2>1
  <2>3. /\ n \in Nat /\ m \in Nat /\ m2 = m + 1 /\ data'.q[m + 1] = Torn
        /\ \A i \in 1..m : data'.q[i] = data.q[i]
    BY <1>1, <1>4, Lengths, ChunkAppend
  <2> HIDE DEF n, m, m2
  <2>4. ASSUME NEW i \in 1..m2 PROVE data'.q[i] = n + i \/ (i = m2 /\ data'.q[i] = Torn)
    <3>1. i \in 1..m \/ i = m + 1
      BY <2>3
    <3> QED BY <2>2, <2>3, <3>1
  <2> QED BY <1>2, <2>2, <2>4 DEF InOrder, n, m2
<1> QED BY <1>3, <1>4

\* The writer meets the end of the stream or of the context.
LEMMA WriteFailsStep ==
  ASSUME SInv, NEW err \in {"closed", "cancelClose", "drop", "cancelled"}, NEW torn \in BOOLEAN, writeFails(err, torn)
  PROVE  SInv'
<1>0. SessionTypeOK
  BY DEF SInv
<1> DEFINE e == IF s.ctx THEN "cancelled" ELSE err
<1>1. /\ out.q # <<>> /\ out.err = "none" /\ Fails(err) /\ (torn => err = "cancelled" /\ Len(data.q) <= Window)
      /\ data' = [data EXCEPT !.q = IF torn THEN Append(data.q, Torn) ELSE data.q]
      /\ out' = [q |-> Tail(out.q), err |-> e] /\ UNCHANGED <<opt, s, r, net, conn>>
      /\ out \in [q : Seq(Skip..Chunks), err : Causes] /\ data \in Data
  BY <1>0 DEF writeFails, SessionTypeOK, Data
<1>2. out.q \in Seq(Skip..Chunks) /\ data.q \in Seq(Chunk) /\ Torn \in Chunk
  BY <1>1, SessionAssumption DEF Data, Torn, Chunk, Skip
<1>3. Tail(out.q) \in Seq(Skip..Chunks) /\ Len(Tail(out.q)) \in Nat /\ Len(out.q) = Len(Tail(out.q)) + 1
  BY <1>1, <1>2, ChunkTail
<1>4. e \in {"closed", "cancelClose", "drop", "cancelled"} /\ e \in Causes /\ (e = "cancelled" => s.ctx)
  <2>1. conn["snd"] # "cancelled" /\ s.ctx \in BOOLEAN
    BY <1>0 DEF SessionTypeOK, Sides, Sender
  <2> QED BY <1>1, <2>1 DEF Causes, Codes, Fails
<1> HIDE DEF e
<1>5. out' \in [q : Seq(Skip..Chunks), err : Causes] /\ out'.q = Tail(out.q) /\ out'.err = e
  BY <1>1, <1>3, <1>4
<1>6. /\ Append(data.q, Torn) \in Seq(Chunk) /\ Len(Append(data.q, Torn)) = Len(data.q) + 1 /\ Len(data.q) \in Nat
  BY <1>2, ChunkAppend
<1>7. /\ data' \in Data /\ data'.q = (IF torn THEN Append(data.q, Torn) ELSE data.q) /\ data'.fin = data.fin
  BY <1>1, <1>6 DEF Data
<1>8. Len(data'.q) <= Window + 1 /\ Len(out'.q) <= PackerQueue
  <2>1. Len(out.q) <= PackerQueue /\ Len(data.q) <= Window + 1
    BY <1>0 DEF SessionTypeOK
  <2> QED BY <1>1, <1>3, <1>5, <1>6, <1>7, <2>1, SessionAssumption
<1>9. torn => s.ctx
  BY <1>1, <1>4 DEF Fails, e
<1>t. SessionTypeOK'
  BY <1>0, <1>1, <1>5, <1>7, <1>8 DEF SessionTypeOK, Data
<1>a. AckCommitted'
  BY <1>0, <1>1, <1>4, <1>5, <1>7, <1>9 DEF SInv, AckCommitted, Left
<1>c. CompleteSent'
  BY <1>0, <1>1, <1>4, <1>5, <1>7, <1>9 DEF SInv, CompleteSent
<1>i. InOrder'
  BY <1>0, <1>1, <1>4, <1>5, <1>7, TakeOrder DEF SInv
<1>g. Gated'
  BY <1>0, <1>1, <1>4, <1>5, <1>7, <1>9 DEF SInv, Gated, Opened, Tags, Verdicts, Sending, Asked, Left
<1>d. Departure'
  BY <1>0, <1>1, <1>4, <1>5, <1>7, <1>9 DEF SInv, Departure, Leaving
<1>p. Pending'
  BY <1>0, <1>1, <1>4, <1>5, <1>7, <1>9 DEF SInv, Pending, Left, Asked, Verdicts, FromReceiver
<1>o. Doubted'
  BY <1>0, <1>1, <1>4, <1>5, <1>7, <1>9 DEF SInv, Doubted, CloseComes, Transient
<1> QED BY <1>t, <1>a, <1>c, <1>i, <1>g, <1>d, <1>p, <1>o DEF SInv

\* After its first error the writer only takes the chunks.
LEMMA TakeChunkStep ==
  ASSUME SInv, takeChunk
  PROVE  SInv'
<1>0. SessionTypeOK
  BY DEF SInv
<1>1. /\ out.q # <<>> /\ out.err # "none" /\ UNCHANGED <<opt, s, r, net, data, conn>>
      /\ out' = [out EXCEPT !.q = Tail(out.q)]
      /\ out \in [q : Seq(Skip..Chunks), err : Causes]
  BY <1>0 DEF takeChunk, SessionTypeOK
<1>2. Tail(out.q) \in Seq(Skip..Chunks) /\ Len(Tail(out.q)) \in Nat /\ Len(out.q) = Len(Tail(out.q)) + 1
  BY <1>1, ChunkTail
<1>3. out' \in [q : Seq(Skip..Chunks), err : Causes] /\ out'.q = Tail(out.q) /\ out'.err = out.err
  BY <1>1, <1>2
<1>4. Len(out'.q) <= PackerQueue
  <2>1. Len(out.q) <= PackerQueue
    BY <1>0 DEF SessionTypeOK
  <2> QED BY <1>2, <1>3, <2>1, SessionAssumption
<1>t. SessionTypeOK'
  BY <1>0, <1>1, <1>3, <1>4 DEF SessionTypeOK
<1>a. AckCommitted'
  BY <1>0, <1>1, <1>3 DEF SInv, AckCommitted, Left
<1>c. CompleteSent'
  BY <1>0, <1>1, <1>3 DEF SInv, CompleteSent
<1>i. InOrder'
  BY <1>0, <1>1, <1>3, TakeOrder DEF SInv
<1>g. Gated'
  BY <1>0, <1>1, <1>3 DEF SInv, Gated, Opened, Tags, Verdicts, Sending, Asked, Left
<1>d. Departure'
  BY <1>0, <1>1, <1>3 DEF SInv, Departure, Leaving
<1>p. Pending'
  BY <1>0, <1>1, <1>3 DEF SInv, Pending, Left, Asked, Verdicts, FromReceiver
<1>o. Doubted'
  BY <1>0, <1>1, <1>3 DEF SInv, Doubted, CloseComes, Transient
<1> QED BY <1>t, <1>a, <1>c, <1>i, <1>g, <1>d, <1>p, <1>o DEF SInv

\* The first chunk on the data stream is the next one, the end of a file that
\* was skipped, or cut.
LEMMA HeadOfData ==
  ASSUME SessionTypeOK, InOrder, data.q # <<>>
  PROVE  /\ Head(data.q) \in 1..Chunks => Head(data.q) = Len(r.got) + 1
         /\ Head(data.q) = Skip => Len(data.q) = 1 /\ s.next > Chunks /\ (out.err = "none" => Len(out.q) = 0)
         /\ Head(data.q) = Torn => Has(data.q, Torn)
         /\ ~r.skipped
<1> DEFINE n == Len(r.got)
           m == Len(data.q)
<1>1. data.q \in Seq(Chunk) /\ Head(data.q) = data.q[1] /\ m # 0 /\ 1 \in 1..m
  BY DEF SessionTypeOK
<1>2. n \in Nat /\ Chunks \in Nat /\ Skip = 0 /\ Torn = Chunks + 1
  BY Lengths DEF Skip, Torn
<1>3. \/ data.q[1] = n + 1
      \/ 1 = m /\ data.q[1] = Torn
      \/ 1 = m /\ data.q[1] = Skip /\ s.next > Chunks /\ (out.err = "none" => Len(out.q) = 0)
  BY <1>1 DEF InOrder
<1>4. ~r.skipped
  BY <1>1 DEF InOrder
<1> HIDE DEF n, m
<1>5. data.q[1] \in 1..Chunks => data.q[1] = n + 1
  BY <1>2, <1>3
<1>6. data.q[1] = Skip => 1 = m /\ s.next > Chunks /\ (out.err = "none" => Len(out.q) = 0)
  BY <1>2, <1>3
<1>7. data.q[1] = Torn => Has(data.q, Torn)
  BY <1>1 DEF Has, m
<1> QED BY <1>1, <1>4, <1>5, <1>6, <1>7 DEF n, m

\* A chunk goes from the data stream to the disk.
LEMMA TakeDataOrder ==
  ASSUME SessionTypeOK, InOrder, UNCHANGED <<s, out>>, data.q # <<>>, Head(data.q) \in 1..Chunks,
         r'.got = Append(r.got, Head(data.q)), data'.q = Tail(data.q),
         r'.skipped = r.skipped, r'.asked = r.asked, ~r'.committed,
         r'.pc = "commit" => Head(data.q) = Chunks
  PROVE  InOrder'
<1> DEFINE n == Len(r.got)
           m == Len(data.q)
           k == Len(out.q)
           n2 == Len(r'.got)
           m2 == Len(data'.q)
           c == Head(data.q)
<1>1. data.q \in Seq(Chunk) /\ r.got \in Seq(1..Chunks)
  BY DEF SessionTypeOK, Receiver
<1>2. c = n + 1 /\ ~r.skipped
  BY HeadOfData
<1>3. /\ n \in Nat /\ m \in Nat /\ k \in Nat /\ s.next \in Nat /\ Chunks \in Nat /\ m2 \in Nat
      /\ n2 = n + 1 /\ m = m2 + 1
  BY <1>1, Lengths, ChunkAppend, ChunkTail
<1>4. r'.got[n + 1] = c /\ \A i \in 1..n : r'.got[i] = r.got[i]
  BY <1>1, ChunkAppend
<1>5. \A i \in 1..m2 : data'.q[i] = data.q[i + 1]
  BY <1>1, ChunkTail
<1>6. \A i \in 1..n : r.got[i] = i
  BY DEF InOrder
<1>7. \A i \in 1..m : \/ data.q[i] = n + i
                      \/ i = m /\ data.q[i] = Torn /\ out.err # "none"
                      \/ i = m /\ data.q[i] = Skip /\ s.next > Chunks /\ (out.err = "none" => k = 0)
  BY DEF InOrder
<1>8. out.err = "none" =>
             /\ s.next <= Chunks => n + m + k + 1 = s.next
             /\ \A i \in 1..k : \/ out.q[i] = n + m + i
                                \/ i = k /\ out.q[i] = Skip /\ s.next > Chunks
  BY DEF InOrder
<1> HIDE DEF n, m, k, n2, m2, c
<1>9. n + m = n2 + m2
  BY <1>3
<1>10. ASSUME NEW i \in 1..n2 PROVE r'.got[i] = i
  <2>1. i \in 1..n \/ i = n + 1
    BY <1>3
  <2> QED BY <1>2, <1>4, <1>6, <2>1
<1>11. ASSUME NEW i \in 1..m2
       PROVE  \/ data'.q[i] = n2 + i
              \/ i = m2 /\ data'.q[i] = Torn /\ out.err # "none"
              \/ i = m2 /\ data'.q[i] = Skip /\ s.next > Chunks /\ (out.err = "none" => k = 0)
  <2>1. i + 1 \in 1..m /\ n + (i + 1) = n2 + i /\ (i + 1 = m => i = m2)
    BY <1>3
  <2>2. \/ data.q[i + 1] = n + (i + 1)
        \/ i + 1 = m /\ data.q[i + 1] = Torn /\ out.err # "none"
        \/ i + 1 = m /\ data.q[i + 1] = Skip /\ s.next > Chunks /\ (out.err = "none" => k = 0)
    BY <1>7, <2>1
  <2> QED BY <1>5, <2>1, <2>2
<1>12. out.err = "none" =>
             /\ s.next <= Chunks => n2 + m2 + k + 1 = s.next
             /\ \A i \in 1..k : \/ out.q[i] = n2 + m2 + i
                                \/ i = k /\ out.q[i] = Skip /\ s.next > Chunks
  BY <1>8, <1>9
<1>13. r'.pc = "commit" => n2 = Chunks
  BY <1>2, <1>3 DEF c
<1> QED BY <1>2, <1>10, <1>11, <1>12, <1>13 DEF InOrder, n2, m2, k

\* The receiver writes a chunk.
LEMMA WriteDataStep ==
  ASSUME SInv, writeData
  PROVE  SInv'
<1>0. SessionTypeOK
  BY DEF SInv
<1> DEFINE c == Head(data.q)
           p == IF c = Chunks THEN "commit" ELSE "data"
<1>1. /\ r.pc = "data" /\ data.q # <<>> /\ c \in 1..Chunks /\ UNCHANGED <<opt, s, out, net, conn>>
      /\ r' = [r EXCEPT !.got = Append(r.got, c), !.pc = p] /\ data' = [data EXCEPT !.q = Tail(data.q)]
      /\ r \in Receiver /\ data \in Data
  BY <1>0 DEF writeData, DataRead, SessionTypeOK, Data
<1>2. data.q \in Seq(Chunk) /\ r.got \in Seq(1..Chunks)
  BY <1>1 DEF Data, Receiver
<1>3. /\ Tail(data.q) \in Seq(Chunk) /\ Len(Tail(data.q)) \in Nat /\ Len(data.q) = Len(Tail(data.q)) + 1
      /\ Append(r.got, c) \in Seq(1..Chunks)
  BY <1>1, <1>2, ChunkTail, ChunkAppend
<1>4. data' \in Data /\ data'.q = Tail(data.q) /\ data'.fin = data.fin
  BY <1>1, <1>3 DEF Data
<1>5. p \in {"commit", "data"} /\ (p = "commit" => c = Chunks)
  OBVIOUS
<1> HIDE DEF c, p
<1>6. /\ r' \in Receiver /\ r'.got = Append(r.got, c) /\ r'.pc = p
      /\ r'.tries = r.tries /\ r'.rounds = r.rounds /\ r'.typed = r.typed /\ r'.asked = r.asked
      /\ r'.skipped = r.skipped /\ r'.committed = r.committed /\ r'.cause = r.cause /\ r'.ctx = r.ctx
      /\ r'.aborted = r.aborted
  BY <1>1, <1>3, <1>5 DEF Receiver
<1>7. Len(data'.q) <= Window + 1
  <2>1. Len(data.q) <= Window + 1
    BY <1>0 DEF SessionTypeOK
  <2> QED BY <1>3, <1>4, <2>1, SessionAssumption
<1>8. Has(data'.q, Torn) => Has(data.q, Torn)
  BY <1>1, <1>2, <1>4, HasTail
<1>9. ~r'.committed
  BY <1>1, <1>6 DEF SInv, AckCommitted, Left
<1>t. SessionTypeOK'
  BY <1>0, <1>1, <1>4, <1>6, <1>7 DEF SessionTypeOK, Data
<1>a. AckCommitted'
  BY <1>1, <1>4, <1>5, <1>6, <1>8 DEF SInv, AckCommitted, Left
<1>c. CompleteSent'
  BY <1>1, <1>4, <1>5, <1>6, <1>8 DEF SInv, CompleteSent
<1>i. InOrder'
  BY <1>0, <1>1, <1>4, <1>5, <1>6, <1>9, TakeDataOrder DEF SInv, c
<1>g. Gated'
  BY <1>1, <1>4, <1>5, <1>6, <1>8 DEF SInv, Gated, Opened, Tags, Verdicts, Sending, Asked, Left
<1>d. Departure'
  BY <1>1, <1>4, <1>5, <1>6, <1>8 DEF SInv, Departure, Leaving
<1>p. Pending'
  BY <1>1, <1>4, <1>5, <1>6, <1>8 DEF SInv, Pending, Left, Asked, Verdicts, FromReceiver
<1>o. Doubted'
  BY <1>1, <1>4, <1>5, <1>6, <1>8 DEF SInv, Doubted, CloseComes, Transient
<1> QED BY <1>t, <1>a, <1>c, <1>i, <1>g, <1>d, <1>p, <1>o DEF SInv

\* The receiver drops a file that the sender cannot read any more.
LEMMA SkippedStep ==
  ASSUME SInv, readSkip, Drops
  PROVE  SInv'
<1>0. SessionTypeOK
  BY DEF SInv
<1>1. /\ r.pc = "data" /\ data.q # <<>> /\ Head(data.q) = Skip /\ UNCHANGED <<opt, s, out, net, conn>>
      /\ r' = [r EXCEPT !.pc = "commit", !.skipped = TRUE] /\ data' = [data EXCEPT !.q = Tail(data.q)]
      /\ r \in Receiver /\ data \in Data
  BY <1>0 DEF readSkip, DataRead, SessionTypeOK, Data
<1>2. data.q \in Seq(Chunk)
  BY <1>1 DEF Data
<1>3. Tail(data.q) \in Seq(Chunk) /\ Len(Tail(data.q)) \in Nat /\ Len(data.q) = Len(Tail(data.q)) + 1
  BY <1>1, <1>2, ChunkTail
<1>4. data' \in Data /\ data'.q = Tail(data.q) /\ data'.fin = data.fin
  BY <1>1, <1>3 DEF Data
<1>5. /\ r' \in Receiver /\ r'.got = r.got /\ r'.pc = "commit" /\ r'.skipped = TRUE
      /\ r'.tries = r.tries /\ r'.rounds = r.rounds /\ r'.typed = r.typed /\ r'.asked = r.asked
      /\ r'.committed = r.committed /\ r'.cause = r.cause /\ r'.ctx = r.ctx /\ r'.aborted = r.aborted
  BY <1>1 DEF Receiver
<1>6. Len(data.q) = 1 /\ s.next > Chunks /\ (out.err = "none" => Len(out.q) = 0)
  BY <1>0, <1>1, HeadOfData DEF SInv
<1>7. Len(data'.q) = 0 /\ Len(data'.q) <= Window + 1
  <2>1. Len(Tail(data.q)) = 0
    BY <1>3, <1>6
  <2>2. Len(data'.q) = 0
    BY <1>4, <2>1
  <2>3. 0 <= Window + 1
    BY SessionAssumption
  <2> QED BY <2>2, <2>3
<1>8. Has(data'.q, Torn) => Has(data.q, Torn)
  BY <1>1, <1>2, <1>4, HasTail
<1>9. InOrder'
  <2>1. /\ \A i \in 1..Len(r.got) : r.got[i] = i
        /\ out.err = "none" => \A i \in 1..Len(out.q) : FALSE
    BY <1>6 DEF SInv, InOrder
  <2>2. out.err = "none" => Len(out.q) = 0
    BY <1>6
  <2>3. s'.next > Chunks /\ Len(data'.q) = 0
    BY <1>1, <1>6, <1>7
  <2>4. ~(s'.next <= Chunks)
    BY <1>0, <2>3, <1>1, Lengths
  <2>5. \A i \in 1..Len(data'.q) : FALSE
    BY <2>3
  <2> QED BY <1>1, <1>5, <2>1, <2>2, <2>3, <2>4, <2>5 DEF InOrder
<1>t. SessionTypeOK'
  BY <1>0, <1>1, <1>4, <1>5, <1>7 DEF SessionTypeOK, Data
<1>a. AckCommitted'
  BY <1>1, <1>4, <1>5, <1>8 DEF SInv, AckCommitted, Left
<1>c. CompleteSent'
  BY <1>1, <1>4, <1>5, <1>8 DEF SInv, CompleteSent
<1>i. InOrder'
  BY <1>9
<1>g. Gated'
  BY <1>1, <1>4, <1>5, <1>8 DEF SInv, Gated, Opened, Tags, Verdicts, Sending, Asked, Left
<1>d. Departure'
  BY <1>1, <1>4, <1>5, <1>8 DEF SInv, Departure, Leaving
<1>p. Pending'
  BY <1>1, <1>4, <1>5, <1>8 DEF SInv, Pending, Left, Asked, Verdicts, FromReceiver
<1>o. Doubted'
  BY <1>1, <1>4, <1>5, <1>8 DEF SInv, Doubted, CloseComes, Transient
<1> QED BY <1>t, <1>a, <1>c, <1>i, <1>g, <1>d, <1>p, <1>o DEF SInv

\* The data stream ends between two chunks.
LEMMA ReadEOFStep ==
  ASSUME SInv, readEOF
  PROVE  SInv'
<1>0. SessionTypeOK
  BY DEF SInv
<1>1. /\ r.pc = "data" /\ r' \in Receiver /\ r'.pc = "why" /\ data.fin
      /\ r'.tries = r.tries /\ r'.rounds = r.rounds /\ r'.typed = r.typed /\ r'.asked = r.asked /\ r'.got = r.got
      /\ r'.skipped = r.skipped /\ r'.committed = r.committed /\ r'.cause = r.cause /\ r'.ctx = r.ctx /\ r'.aborted = r.aborted
      /\ UNCHANGED <<opt, s, out, net, data, conn>>
  <2>1. r \in Receiver /\ r.pc = "data" /\ UNCHANGED <<opt, s, out, net, data, conn>>
        /\ r' = [r EXCEPT !.pc = "why"]
    BY <1>0 DEF readEOF, SessionTypeOK
  <2> QED BY <2>1 DEF readEOF, Receiver
<1>t. SessionTypeOK'
  BY <1>0, <1>1 DEF SessionTypeOK, Net, Data
<1>a. AckCommitted'
  BY <1>0, <1>1 DEF SInv, AckCommitted, Left
<1>c. CompleteSent'
  BY <1>0, <1>1 DEF SInv, CompleteSent
<1>i. InOrder'
  BY <1>0, <1>1 DEF SInv, InOrder, AckCommitted, Left
<1>g. Gated'
  BY <1>0, <1>1 DEF SInv, Gated, Opened, Tags, Verdicts, Sending, Asked, Left
<1>d. Departure'
  BY <1>0, <1>1 DEF SInv, Departure, Leaving
<1>p. Pending'
  BY <1>0, <1>1 DEF SInv, Pending, Left, Asked, Verdicts, FromReceiver
<1>o. Doubted'
  BY <1>0, <1>1 DEF SInv, Doubted, CloseComes, Transient
<1> QED BY <1>t, <1>a, <1>c, <1>i, <1>g, <1>d, <1>p, <1>o DEF SInv

\* The receiver commits what it has.
LEMMA CommitStep ==
  ASSUME SInv, commit("none")
  PROVE  SInv'
<1>0. SessionTypeOK
  BY DEF SInv
<1>1. /\ r.pc = "commit" /\ r' \in Receiver /\ r'.pc = "complete" /\ r'.committed = TRUE
      /\ r'.tries = r.tries /\ r'.rounds = r.rounds /\ r'.typed = r.typed /\ r'.asked = r.asked
      /\ r'.got = r.got /\ r'.skipped = r.skipped /\ r'.cause = r.cause /\ r'.ctx = r.ctx /\ r'.aborted = r.aborted
      /\ UNCHANGED <<opt, s, out, net, data, conn>>
  <2>1. r \in Receiver /\ r.pc = "commit" /\ UNCHANGED <<opt, s, out, net, data, conn>>
        /\ r' = [r EXCEPT !.pc = "complete", !.committed = TRUE]
    BY <1>0 DEF commit, SessionTypeOK
  <2> QED BY <2>1 DEF commit, Receiver
<1>t. SessionTypeOK'
  BY <1>0, <1>1 DEF SessionTypeOK, Net, Data
<1>a. AckCommitted'
  BY <1>0, <1>1 DEF SInv, AckCommitted, Left
<1>c. CompleteSent'
  BY <1>0, <1>1 DEF SInv, CompleteSent
<1>i. InOrder'
  BY <1>0, <1>1 DEF SInv, InOrder, AckCommitted, Left
<1>g. Gated'
  BY <1>0, <1>1 DEF SInv, Gated, Opened, Tags, Verdicts, Sending, Asked, Left
<1>d. Departure'
  BY <1>0, <1>1 DEF SInv, Departure, Leaving
<1>p. Pending'
  BY <1>0, <1>1 DEF SInv, Pending, Left, Asked, Verdicts, FromReceiver
<1>o. Doubted'
  BY <1>0, <1>1 DEF SInv, Doubted, CloseComes, Transient
<1> QED BY <1>t, <1>a, <1>c, <1>i, <1>g, <1>d, <1>p, <1>o DEF SInv

\* The receiver opens the target of a stream.
LEMMA OpenTargetStep ==
  ASSUME SInv, openTarget("none")
  PROVE  SInv'
<1>0. SessionTypeOK
  BY DEF SInv
<1>1. /\ r.pc = "target" /\ r' \in Receiver /\ r'.pc = "data" /\ r'.asked = TRUE
      /\ r'.tries = r.tries /\ r'.rounds = r.rounds /\ r'.typed = r.typed /\ r'.got = r.got
      /\ r'.skipped = r.skipped /\ r'.committed = r.committed /\ r'.cause = r.cause /\ r'.ctx = r.ctx /\ r'.aborted = r.aborted
      /\ UNCHANGED <<opt, s, out, net, data, conn>>
  <2>1. r \in Receiver /\ r.pc = "target" /\ UNCHANGED <<opt, s, out, net, data, conn>>
        /\ r' = [r EXCEPT !.pc = "data", !.asked = TRUE]
    BY <1>0 DEF openTarget, SessionTypeOK
  <2> QED BY <2>1 DEF openTarget, Receiver
<1>t. SessionTypeOK'
  BY <1>0, <1>1 DEF SessionTypeOK, Net, Data
<1>a. AckCommitted'
  BY <1>0, <1>1 DEF SInv, AckCommitted, Left
<1>c. CompleteSent'
  BY <1>0, <1>1 DEF SInv, CompleteSent
<1>i. InOrder'
  BY <1>0, <1>1 DEF SInv, InOrder, AckCommitted, Left
<1>g. Gated'
  BY <1>0, <1>1 DEF SInv, Gated, Opened, Tags, Verdicts, Sending, Asked, Left
<1>d. Departure'
  BY <1>0, <1>1 DEF SInv, Departure, Leaving
<1>p. Pending'
  BY <1>0, <1>1 DEF SInv, Pending, Left, Asked, Verdicts, FromReceiver
<1>o. Doubted'
  BY <1>0, <1>1 DEF SInv, Doubted, CloseComes, Transient
<1> QED BY <1>t, <1>a, <1>c, <1>i, <1>g, <1>d, <1>p, <1>o DEF SInv

\* The receiver's record when it says its last word.
LEMMA DrainRecord ==
  ASSUME SInv, NEW x, x = r \/ x = Refusing, NEW cause \in Causes,
         r' = [x EXCEPT !.cause = cause, !.pc = "drain"]
  PROVE  r' \in Receiver /\ SameRecv /\ (r'.aborted => conn["rcv"] # "open") /\ r'.cause = cause /\ r'.pc = "drain"
<1>1. r \in Receiver /\ (r.aborted => conn["rcv"] # "open")
  BY DEF SInv, SessionTypeOK, Departure
<1>2. CASE x = r
  BY <1>1, <1>2 DEF Receiver, SameRecv
<1>3. CASE x = Refusing
  <2> DEFINE b == conn["rcv"] # "open" /\ ~r.ctx
  <2>1. b \in BOOLEAN /\ (b => conn["rcv"] # "open") /\ x = [r EXCEPT !.aborted = b]
    BY <1>3 DEF Refusing
  <2> HIDE DEF b
  <2> QED BY <1>1, <2>1 DEF Receiver, SameRecv
<1> QED BY <1>2, <1>3

\* The receiver declines.
LEMMA DeclineStep ==
  ASSUME SInv, NEW x, x = r \/ x = Refusing, NEW n, n = net \/ (HasFrame("rcv") /\ n = Took("rcv")),
         NEW code \in {"declined", "passwordRequired", "targetExists", "writeFailed", "diskFull"},
         declineTransfer(x, code, n), UNCHANGED <<opt, s, out, conn>>, r.pc \notin Left
  PROVE  SInv'
<1>1. code \in Causes /\ code \in Frames \ (Tags \cup {"readFailed"}) /\ code \notin Transient /\ code # "ok" /\ code # "transferAck"
  BY DEF Causes, Frames, Codes, Tags, Transient
<1>2. /\ r' = [x EXCEPT !.cause = code, !.pc = "drain"] /\ net' = Shut(Post(n, "rcv", code), "rcv")
      /\ data' = [data EXCEPT !.stop = TRUE]
  BY DEF declineTransfer
<1>3. r' \in Receiver /\ SameRecv /\ (r'.aborted => conn["rcv"] # "open") /\ r'.cause = code /\ r'.pc = "drain"
  BY <1>1, <1>2, DrainRecord
<1> QED BY <1>1, <1>2, <1>3, LastWordStep

\* The receiver answers with its last frame.
LEMMA RefusesStep ==
  ASSUME SInv, NEW x, x = r \/ x = Refusing, NEW n, n = net \/ (HasFrame("rcv") /\ n = Took("rcv")),
         NEW f \in {"foreign", "nack", "transferAck"}, NEW cause \in {"incompatible", "declined", "ok"},
         Refuses(x, f, cause, n), UNCHANGED <<opt, s, out, conn>>, r.pc \notin Left,
         cause = "ok" => Has(net["rcv"].q, "complete"), f = "transferAck" => r.committed
  PROVE  SInv'
<1>1. f \in Frames \ (Tags \cup {"readFailed"}) /\ cause \in Causes /\ cause \notin Transient
  BY DEF Causes, Frames, Codes, Tags, Transient
<1>2. r' = [x EXCEPT !.cause = cause, !.pc = "drain"] /\ net' = Shut(Post(n, "rcv", f), "rcv") /\ data' = data
  BY DEF Refuses
<1>3. r' \in Receiver /\ SameRecv /\ (r'.aborted => conn["rcv"] # "open") /\ r'.cause = cause /\ r'.pc = "drain"
  BY <1>1, <1>2, DrainRecord
<1> QED BY <1>1, <1>2, <1>3, LastWordStep

\* What the receiver reads is on its queue, and a code is a cause.
LEMMA ReadFrame ==
  ASSUME SessionTypeOK
  PROVE  /\ HasFrame("rcv") => net["rcv"].q # <<>> /\ Has(net["rcv"].q, Head(net["rcv"].q)) /\ Head(net["rcv"].q) \in Frames
         /\ HasFrame("snd") => net["snd"].q # <<>> /\ Has(net["snd"].q, Head(net["snd"].q)) /\ Head(net["snd"].q) \in Frames
         /\ \A c \in Codes : mapPeerError(c) \in Causes \ {"ok", "drop", "closed", "cancelled"}
<1>1. net["rcv"].q \in Seq(Frames) /\ net["snd"].q \in Seq(Frames)
  BY DEF SessionTypeOK, Sides
<1>2. ASSUME NEW c \in Codes PROVE mapPeerError(c) \in Causes \ {"ok", "drop", "closed", "cancelled"}
  BY DEF mapPeerError, Causes, Codes
<1> QED BY <1>1, <1>2, HasTail DEF HasFrame

\* What cuts a read.
LEMMA ReadErrorIs ==
  ASSUME SessionTypeOK, NEW me \in Sides
  PROVE  /\ ReadError(me) \in Causes \ {"ok", "readFailed"}
         /\ ReadError(me) = "cancelled" => Ctx(me)
         /\ ReadError(me) \in Transient => ~Ctx(me)
<1>1. conn[me] \in {"open", "closed", "cancelClose", "drop"}
  BY DEF SessionTypeOK
<1> QED BY <1>1 DEF ReadError, Causes, Codes, Transient

\* The user, or the disk, says no.
LEMMA DeclineActionStep ==
  ASSUME SInv, NEW code \in {"declined", "diskFull"}, decline(code)
  PROVE  SInv'
<1>0. SessionTypeOK
  BY DEF SInv
<1>1. /\ declineTransfer(IF code = "declined" THEN Refusing ELSE r, code, net) /\ UNCHANGED <<opt, s, out, conn>>
      /\ r.pc \notin Left
  BY DEF decline, Left
<1> QED BY <1>1, DeclineStep

\* The target of a stream cannot be opened.
LEMMA OpenTargetFailsStep ==
  ASSUME SInv, NEW code \in {"targetExists", "writeFailed"}, openTarget(code)
  PROVE  SInv'
<1>0. SessionTypeOK
  BY DEF SInv
<1>1. declineTransfer(r, code, net) /\ UNCHANGED <<opt, s, out, conn>> /\ r.pc \notin Left
  BY DEF openTarget, Left
<1> QED BY <1>1, DeclineStep

\* A chunk cannot be written.
LEMMA WriteDataFailsStep ==
  ASSUME SInv, NEW code \in {"writeFailed", "diskFull"}, writeDataFails(code)
  PROVE  SInv'
<1>0. SessionTypeOK
  BY DEF SInv
<1>1. declineTransfer(r, code, net) /\ UNCHANGED <<opt, s, out, conn>> /\ r.pc \notin Left
  BY DEF writeDataFails, DataRead, Left
<1> QED BY <1>1, DeclineStep

\* What was received cannot be committed.
LEMMA CommitFailsStep ==
  ASSUME SInv, commit("writeFailed")
  PROVE  SInv'
<1>0. SessionTypeOK
  BY DEF SInv
<1>1. declineTransfer(r, "writeFailed", net) /\ UNCHANGED <<opt, s, out, conn>> /\ r.pc \notin Left
  BY DEF commit, Left
<1> QED BY <1>1, DeclineStep

\* The receiver acknowledges COMPLETE, or reads an error in its place.
LEMMA FinishRecvStep ==
  ASSUME SInv, finishRecv
  PROVE  SInv'
<1>0. SessionTypeOK
  BY DEF SInv
<1>1. r.pc = "complete" /\ HasFrame("rcv") /\ UNCHANGED <<opt, s, out, conn>> /\ r.pc \notin Left \cup {"grace", "over"}
  BY DEF finishRecv, Left
<1> DEFINE f == Head(net["rcv"].q)
<1>2. CASE f = "complete" /\ Refuses(r, "transferAck", "ok", Took("rcv"))
  <2>1. Has(net["rcv"].q, "complete") /\ r.committed
    BY <1>0, <1>1, <1>2, ReadFrame DEF SInv, AckCommitted
  <2> QED BY <1>1, <1>2, <2>1, RefusesStep
<1>3. CASE f \in Codes /\ Returns(mapPeerError(f), Took("rcv"))
  <2>1. mapPeerError(f) \in Causes /\ mapPeerError(f) # "ok" /\ mapPeerError(f) \notin Transient
    BY <1>0, <1>3, ReadFrame DEF Transient
  <2> QED BY <1>1, <1>3, <2>1, ReturnsStep
<1> QED BY <1>2, <1>3 DEF finishRecv

\* A read of the receiver is cut.
LEMMA RecvFailsStep ==
  ASSUME SInv, recvFails
  PROVE  SInv'
<1>0. SessionTypeOK
  BY DEF SInv
<1> DEFINE c == IF r.pc = "challenge" THEN PastFirst(ReadError("rcv")) ELSE ReadError("rcv")
<1>1. /\ r.pc \in {"hello", "challenge", "verdict", "listing", "verify", "complete"} /\ ReadFails("rcv")
      /\ Returns(c, net) /\ UNCHANGED <<opt, s, out, conn>>
  BY DEF recvFails
<1>2. ReadError("rcv") \in Causes \ {"ok", "readFailed"}
  BY <1>0, ReadErrorIs DEF Sides
<1>3. c \in Causes /\ c # "ok" /\ (c = ReadError("rcv") \/ (c = "wrongPassword" /\ r.pc = "challenge" /\ r.tries > 0))
  BY <1>2 DEF PastFirst, Causes, Codes
<1>4. r.pc = "challenge" /\ r.tries > 0 => c = "wrongPassword"
  BY DEF PastFirst
<1>5. ASSUME c \in Transient, ~r.ctx, conn["rcv"] = "open" PROVE CloseComes
  <2>1. net["rcv"].q = <<>> /\ net["rcv"].fin
    BY <1>1, <1>5 DEF ReadFails, EndOfStream, Ctx
  <2>2. \A f : ~Has(net["rcv"].q, f)
    <3>1. net["rcv"].q \in Seq(Frames)
      BY <1>0 DEF SessionTypeOK, Sides
    <3> QED BY <2>1, <3>1, HasEmpty
  <2>3. ~(r.pc = "challenge" /\ r.tries > 0) /\ r.pc \notin Left
    BY <1>1, <1>4, <1>5 DEF Transient, Left
  <2> QED BY <2>1, <2>2, <2>3 DEF SInv, Departure, Pending, Leaving, CloseComes
<1> HIDE DEF c
<1> QED BY <1>1, <1>3, <1>5, ReturnsStep

\* The stream ends within a chunk.
LEMMA TornStep ==
  ASSUME SInv, readTorn
  PROVE  SInv'
<1>0. SessionTypeOK
  BY DEF SInv
<1>1. /\ r.pc = "data" /\ data.q # <<>> /\ Head(data.q) = Torn /\ data.fin /\ Returns("drop", net)
      /\ UNCHANGED <<opt, s, out, conn>>
  BY DEF readTorn, DataRead
<1>2. CloseComes
  <2>1. Has(data.q, Torn)
    BY <1>0, <1>1, HeadOfData DEF SInv
  <2> QED BY <1>1, <2>1 DEF SInv, Departure, Leaving, CloseComes
<1>3. "drop" \in Causes
  BY DEF Causes
<1> QED BY <1>1, <1>2, <1>3, ReturnsStep

\* A part of a file that cannot be read any more is in the archive already.
LEMMA CannotSkipStep ==
  ASSUME SInv, readSkip, ~Drops
  PROVE  SInv'
<1>0. SessionTypeOK
  BY DEF SInv
<1>1. r.pc = "data" /\ Returns("readFailed", net) /\ UNCHANGED <<opt, s, out, conn>>
  BY DEF readSkip, DataRead
<1>2. "readFailed" \in Causes /\ "readFailed" \notin Transient
  BY DEF Causes, Codes, Transient
<1> QED BY <1>1, <1>2, ReturnsStep

\* The connection or the context ends in the data phase.
LEMMA DataFailsStep ==
  ASSUME SInv, dataFails
  PROVE  SInv'
<1>0. SessionTypeOK
  BY DEF SInv
<1>1. /\ r.pc = "data" /\ (conn["rcv"] # "open" \/ r.ctx) /\ Returns(ReadError("rcv"), net)
      /\ UNCHANGED <<opt, s, out, conn>>
  BY DEF dataFails
<1>2. ReadError("rcv") \in Causes \ {"ok", "readFailed"}
  BY <1>0, ReadErrorIs DEF Sides
<1> QED BY <1>1, <1>2, ReturnsStep

\* The receiver looks for the reason of the early end.
LEMMA WhyStep ==
  ASSUME SInv, tryReadPeerError
  PROVE  SInv'
<1>0. SessionTypeOK
  BY DEF SInv
<1>1. r.pc = "why" /\ UNCHANGED <<opt, s, out, conn>> /\ r.pc \notin Left
  BY DEF tryReadPeerError, Left
<1> DEFINE f == Head(net["rcv"].q)
<1>2. s.pc = "over" \/ (s.pc = "notify" /\ s.ctx) \/ (s.pc = "notify" /\ s.cause = "readFailed" /\ opt.mode = "stream")
  BY <1>1 DEF SInv, Doubted, Departure, Leaving
<1>3. CASE HasFrame("rcv") /\ f \in Codes /\ Returns(mapPeerError(f), Took("rcv"))
  <2>1. mapPeerError(f) \in Causes /\ mapPeerError(f) # "ok" /\ mapPeerError(f) \notin Transient
    BY <1>0, <1>3, ReadFrame DEF Transient
  <2> QED BY <1>1, <1>3, <2>1, ReturnsStep
<1>4. CASE HasFrame("rcv") /\ f \notin Codes /\ Returns("drop", Took("rcv"))
  <2>1. Has(net["rcv"].q, f) /\ f \in Frames
    BY <1>0, <1>4, ReadFrame
  <2>2. f \notin FromReceiver \cup {"hello", "foreign", "challenge", "verified"}
    BY <1>1, <2>1 DEF SInv, Pending, Left, Asked, Verdicts
  <2>3. f \in {"listing", "verifyResponse", "complete"}
    BY <1>4, <2>1, <2>2 DEF Frames, FromReceiver
  <2>4. CloseComes
    BY <1>2, <2>1, <2>3 DEF SInv, Pending, CompleteSent, CloseComes
  <2>5. "drop" \in Causes
    BY DEF Causes
  <2> QED BY <1>1, <1>4, <2>4, <2>5, ReturnsStep
<1>5. CASE ReadFails("rcv") /\ Returns("drop", net)
  <2>1. ASSUME ~r.ctx, conn["rcv"] = "open" PROVE CloseComes
    <3>1. net["rcv"].q = <<>>
      BY <1>5, <2>1 DEF ReadFails, EndOfStream, Ctx
    <3>2. ~Has(net["rcv"].q, "readFailed")
      <4>1. net["rcv"].q \in Seq(Frames)
        BY <1>0 DEF SessionTypeOK, Sides
      <4> QED BY <3>1, <4>1, HasEmpty
    <3> QED BY <1>1, <1>2, <3>2 DEF SInv, Pending, CloseComes
  <2>2. "drop" \in Causes
    BY DEF Causes
  <2> QED BY <1>1, <1>5, <2>1, <2>2, ReturnsStep
<1> QED BY <1>3, <1>4, <1>5 DEF tryReadPeerError

\* Where the gate leads: not back to the hello.
LEMMA GateEffect ==
  ASSUME r \in Receiver
  PROVE  /\ Gate(r) \in Receiver /\ Proceed(r) \in Receiver
         /\ Proceed(r).pc \in {"target", "listing"}
         /\ Gate(r).pc = IF opt.password THEN "challenge" ELSE Proceed(r).pc
         /\ \A x \in {Gate(r), Proceed(r)} :
              /\ x.tries = r.tries /\ x.rounds = r.rounds /\ x.typed = r.typed /\ x.asked = r.asked /\ x.got = r.got
              /\ x.skipped = r.skipped /\ x.committed = r.committed /\ x.cause = r.cause /\ x.ctx = r.ctx
              /\ x.aborted = r.aborted
<1> DEFINE p == IF opt.mode = "stream" THEN "target" ELSE "listing"
<1>1. p \in {"target", "listing"} /\ Proceed(r) = [r EXCEPT !.pc = p]
  BY DEF Proceed
<1> HIDE DEF p
<1>2. Proceed(r) \in Receiver /\ Proceed(r).pc = p
  BY <1>1 DEF Receiver
<1>3. [r EXCEPT !.pc = "challenge"] \in Receiver /\ [r EXCEPT !.pc = "challenge"].pc = "challenge"
  BY DEF Receiver
<1>4. Gate(r) = (IF opt.password THEN [r EXCEPT !.pc = "challenge"] ELSE [r EXCEPT !.pc = p])
  BY <1>1 DEF Gate
<1>5. Gate(r) \in Receiver /\ Gate(r).pc = (IF opt.password THEN "challenge" ELSE p)
  BY <1>1, <1>2, <1>3, <1>4
<1>6. ASSUME NEW q, NEW x, x = [r EXCEPT !.pc = q]
      PROVE  /\ x.tries = r.tries /\ x.rounds = r.rounds /\ x.typed = r.typed /\ x.asked = r.asked /\ x.got = r.got
             /\ x.skipped = r.skipped /\ x.committed = r.committed /\ x.cause = r.cause /\ x.ctx = r.ctx
             /\ x.aborted = r.aborted
  BY <1>6 DEF Receiver
<1>7. \A x \in {Gate(r), Proceed(r)} : x = [r EXCEPT !.pc = "challenge"] \/ x = [r EXCEPT !.pc = p]
  BY <1>1, <1>4
<1> QED BY <1>1, <1>2, <1>5, <1>6, <1>7

\* The receiver of a stream asks its user first.
LEMMA HelloAcceptStep ==
  ASSUME SInv, r.pc = "hello", HasFrame("rcv"), Head(net["rcv"].q) = "hello",
         r' = [r EXCEPT !.pc = "accept"], net' = Took("rcv"), UNCHANGED <<opt, s, out, data, conn>>
  PROVE  SInv'
<1>0. SessionTypeOK
  BY DEF SInv
<1>1. /\ r' \in Receiver /\ r'.pc = "accept"
      /\ r'.tries = r.tries /\ r'.rounds = r.rounds /\ r'.typed = r.typed /\ r'.asked = r.asked /\ r'.got = r.got
      /\ r'.skipped = r.skipped /\ r'.committed = r.committed /\ r'.cause = r.cause /\ r'.ctx = r.ctx /\ r'.aborted = r.aborted
  BY <1>0 DEF SessionTypeOK, Receiver
<1>2. net' \in Net /\ net'["snd"] = net["snd"] /\ net'["rcv"].fin = net["rcv"].fin /\ Taken("rcv")
  BY <1>0, NetTook
<1>t. SessionTypeOK'
  BY <1>0, <1>1, <1>2 DEF SessionTypeOK, Net, Data
<1>a. AckCommitted'
  BY <1>0, <1>1, <1>2 DEF SInv, AckCommitted, Left, Taken, Fewer
<1>c. CompleteSent'
  BY <1>0, <1>1, <1>2 DEF SInv, CompleteSent, Taken, Fewer
<1>i. InOrder'
  BY <1>0, <1>1, <1>2 DEF SInv, InOrder, AckCommitted, Left
<1>g. Gated'
  BY <1>0, <1>1, <1>2 DEF SInv, Gated, Opened, Tags, Verdicts, Sending, Asked, Left, Taken, Fewer
<1>d. Departure'
  BY <1>0, <1>1, <1>2 DEF SInv, Departure, Leaving, Taken, Fewer
<1>p. Pending'
  BY <1>0, <1>1, <1>2 DEF SInv, Pending, Left, Asked, Verdicts, FromReceiver, Taken, Fewer
<1>o. Doubted'
  BY <1>0, <1>1, <1>2 DEF SInv, Doubted, CloseComes, Transient
<1> QED BY <1>t, <1>a, <1>c, <1>i, <1>g, <1>d, <1>p, <1>o DEF SInv

\* The receiver acknowledges the hello.
LEMMA GateStep ==
  ASSUME SInv, r.pc \in {"hello", "accept"}, r' = Gate(r), UNCHANGED <<opt, s, out, data, conn>>,
         \/ r.pc = "accept" /\ net' = Post(net, "rcv", "ack")
         \/ HasFrame("rcv") /\ Head(net["rcv"].q) = "hello" /\ net' = Post(Took("rcv"), "rcv", "ack")
  PROVE  SInv'
<1>0. SessionTypeOK
  BY DEF SInv
<1>1. /\ r' \in Receiver /\ r'.pc \in {"challenge", "target", "listing"} /\ (r'.pc = "challenge" <=> opt.password)
      /\ r'.tries = r.tries /\ r'.rounds = r.rounds /\ r'.typed = r.typed /\ r'.asked = r.asked /\ r'.got = r.got
      /\ r'.skipped = r.skipped /\ r'.committed = r.committed /\ r'.cause = r.cause /\ r'.ctx = r.ctx /\ r'.aborted = r.aborted
  BY <1>0, GateEffect DEF SessionTypeOK
<1>2. /\ net' \in Net /\ net'["rcv"].fin = net["rcv"].fin /\ OneMore("snd", "ack")
      /\ Fewer("rcv") /\ (Has(net["rcv"].q, "readFailed") => Has(net'["rcv"].q, "readFailed"))
      /\ \A f \in {"hello", "foreign"} : ~Has(net'["rcv"].q, f)
      /\ s.pc # "hello"
  <2>1. "ack" \in Frames
    BY DEF Frames
  <2>2. CASE r.pc = "accept" /\ net' = Post(net, "rcv", "ack")
    <3>1. net' \in Net /\ net'["rcv"] = net["rcv"] /\ OneMore("snd", "ack")
      BY <1>0, <2>1, <2>2, NetPost
    <3> QED BY <2>2, <3>1 DEF SInv, Pending, Left, Fewer
  <2>3. CASE HasFrame("rcv") /\ Head(net["rcv"].q) = "hello" /\ net' = Post(Took("rcv"), "rcv", "ack")
    <3>1. net' \in Net /\ net'["rcv"].fin = net["rcv"].fin /\ Taken("rcv") /\ OneMore("snd", "ack")
      BY <1>0, <2>1, <2>3, NetAnswer
    <3> QED BY <2>3, <3>1 DEF SInv, Pending, Taken
  <2> QED BY <2>2, <2>3
<1>3. ~opt.password => \A f \in Verdicts \cup {"challenge"} : ~Has(net["rcv"].q, f)
  BY DEF SInv, Gated
<1>t. SessionTypeOK'
  BY <1>0, <1>1, <1>2, <1>3 DEF SessionTypeOK, Net, Data
<1>a. AckCommitted'
  BY <1>0, <1>1, <1>2, <1>3 DEF SInv, AckCommitted, Left, Fewer, OneMore
<1>c. CompleteSent'
  BY <1>0, <1>1, <1>2, <1>3 DEF SInv, CompleteSent, Fewer, OneMore
<1>i. InOrder'
  BY <1>0, <1>1, <1>2, <1>3 DEF SInv, InOrder, AckCommitted, Left
<1>g. Gated'
  BY <1>0, <1>1, <1>2, <1>3 DEF SInv, Gated, Opened, Tags, Verdicts, Sending, Asked, Left, Fewer, OneMore
<1>d. Departure'
  BY <1>0, <1>1, <1>2, <1>3 DEF SInv, Departure, Leaving, Fewer, OneMore
<1>p. Pending'
  BY <1>0, <1>1, <1>2, <1>3 DEF SInv, Pending, Left, Asked, Verdicts, FromReceiver, Fewer, OneMore
<1>o. Doubted'
  BY <1>0, <1>1, <1>2, <1>3 DEF SInv, Doubted, CloseComes, Transient
<1> QED BY <1>t, <1>a, <1>c, <1>i, <1>g, <1>d, <1>p, <1>o DEF SInv

\* The receiver reads the hello.
LEMMA ReadHelloStep ==
  ASSUME SInv, readHello
  PROVE  SInv'
<1>0. SessionTypeOK
  BY DEF SInv
<1>1. r.pc = "hello" /\ HasFrame("rcv") /\ UNCHANGED <<opt, s, out, conn>> /\ r.pc \notin Left
  BY DEF readHello, Left
<1>2. CASE Head(net["rcv"].q) = "foreign" /\ Refuses(r, "foreign", "incompatible", Took("rcv"))
  BY <1>1, <1>2, RefusesStep
<1>3. CASE Head(net["rcv"].q) = "hello" /\ r' = [r EXCEPT !.pc = "accept"] /\ net' = Took("rcv") /\ UNCHANGED data
  BY <1>1, <1>3, HelloAcceptStep
<1>4. CASE Head(net["rcv"].q) = "hello" /\ r' = Gate(r) /\ net' = Post(Took("rcv"), "rcv", "ack") /\ UNCHANGED data
  BY <1>1, <1>4, GateStep
<1> QED BY <1>2, <1>3, <1>4 DEF readHello

\* The user accepts a stream, or not.
LEMMA AcceptStreamStep ==
  ASSUME SInv, NEW ok \in BOOLEAN, acceptStream(ok)
  PROVE  SInv'
<1>0. SessionTypeOK
  BY DEF SInv
<1>1. r.pc = "accept" /\ UNCHANGED <<opt, s, out, conn>> /\ r.pc \notin Left
  BY DEF acceptStream, Left
<1>2. CASE ok
  BY <1>1, <1>2, GateStep DEF acceptStream
<1>3. CASE ~ok
  <2>1. Refuses(Refusing, "nack", "declined", net)
    BY <1>3 DEF acceptStream
  <2> QED BY <1>1, <2>1, RefusesStep
<1> QED BY <1>2, <1>3

\* The receiver takes a challenge.
LEMMA TypeStep ==
  ASSUME SInv, r.pc = "challenge", HasFrame("rcv"), Head(net["rcv"].q) = "challenge",
         r' = [r EXCEPT !.pc = "type", !.tries = r.tries + 1], net' = Took("rcv"), UNCHANGED <<opt, s, out, data, conn>>
  PROVE  SInv'
<1>0. SessionTypeOK
  BY DEF SInv
<1>1. net' \in Net /\ net'["snd"] = net["snd"] /\ net'["rcv"].fin = net["rcv"].fin /\ Taken("rcv")
  BY <1>0, NetTook
<1>2. Has(net["rcv"].q, "challenge") /\ ~Has(net'["rcv"].q, "challenge")
  BY <1>1 DEF Taken, SInv, Gated
<1>3. r.tries \in Nat /\ s.tries \in 0..PasswordAttempts /\ r.tries < s.tries
  BY <1>0, <1>2, SessionAssumption DEF SInv, Gated, SessionTypeOK, Receiver, Sender
<1>4. r.tries + 1 \in 0..PasswordAttempts /\ r.tries + 1 <= s.tries /\ r.tries + 1 > 0
  BY <1>3, SessionAssumption
<1>5. /\ r' \in Receiver /\ r'.pc = "type" /\ r'.tries = r.tries + 1
      /\ r'.rounds = r.rounds /\ r'.typed = r.typed /\ r'.asked = r.asked /\ r'.got = r.got
      /\ r'.skipped = r.skipped /\ r'.committed = r.committed /\ r'.cause = r.cause /\ r'.ctx = r.ctx /\ r'.aborted = r.aborted
  BY <1>0, <1>4 DEF SessionTypeOK, Receiver
<1>t. SessionTypeOK'
  BY <1>0, <1>1, <1>2, <1>4, <1>5 DEF SessionTypeOK, Net, Data
<1>a. AckCommitted'
  BY <1>0, <1>1, <1>2, <1>4, <1>5 DEF SInv, AckCommitted, Left, Taken, Fewer
<1>c. CompleteSent'
  BY <1>0, <1>1, <1>2, <1>4, <1>5 DEF SInv, CompleteSent, Taken, Fewer
<1>i. InOrder'
  BY <1>0, <1>1, <1>2, <1>4, <1>5 DEF SInv, InOrder, AckCommitted, Left
<1>g. Gated'
  BY <1>0, <1>1, <1>2, <1>4, <1>5 DEF SInv, Gated, Opened, Tags, Verdicts, Sending, Asked, Left, Taken, Fewer
<1>d. Departure'
  BY <1>0, <1>1, <1>2, <1>4, <1>5 DEF SInv, Departure, Leaving, Taken, Fewer
<1>p. Pending'
  BY <1>0, <1>1, <1>2, <1>4, <1>5 DEF SInv, Pending, Left, Asked, Verdicts, FromReceiver, Taken, Fewer
<1>o. Doubted'
  BY <1>0, <1>1, <1>2, <1>4, <1>5 DEF SInv, Doubted, CloseComes, Transient
<1> QED BY <1>t, <1>a, <1>c, <1>i, <1>g, <1>d, <1>p, <1>o DEF SInv

\* The receiver reads what should be a challenge.
LEMMA ReadChallengeStep ==
  ASSUME SInv, readChallenge
  PROVE  SInv'
<1>0. SessionTypeOK
  BY DEF SInv
<1>1. r.pc = "challenge" /\ HasFrame("rcv") /\ UNCHANGED <<opt, s, out, conn>> /\ r.pc \notin Left \cup {"grace", "over"}
  BY DEF readChallenge, Left
<1> DEFINE f == Head(net["rcv"].q)
<1>2. CASE declineTransfer(r, "passwordRequired", Took("rcv"))
  BY <1>1, <1>2, DeclineStep
<1>3. CASE f = "challenge" /\ r' = [r EXCEPT !.pc = "type", !.tries = r.tries + 1] /\ net' = Took("rcv") /\ UNCHANGED data
  BY <1>1, <1>3, TypeStep
<1>4. CASE Returns(PastFirst("malformed"), Took("rcv"))
  <2>1. PastFirst("malformed") \in Causes /\ PastFirst("malformed") # "ok" /\ PastFirst("malformed") \notin Transient
    BY DEF PastFirst, Causes, Codes, Transient
  <2> QED BY <1>1, <1>4, <2>1, ReturnsStep
<1> QED BY <1>2, <1>3, <1>4 DEF readChallenge

\* The receiver answers a challenge.
LEMMA RespondStep ==
  ASSUME SInv, NEW tag \in {"good", "bad"}, respond(tag)
  PROVE  SInv'
<1>0. SessionTypeOK
  BY DEF SInv
<1>1. /\ r.pc = "type" /\ r' \in Receiver /\ r'.pc = "verdict" /\ r'.typed = tag
      /\ r'.tries = r.tries /\ r'.rounds = r.rounds /\ r'.asked = r.asked /\ r'.got = r.got
      /\ r'.skipped = r.skipped /\ r'.committed = r.committed /\ r'.cause = r.cause /\ r'.ctx = r.ctx /\ r'.aborted = r.aborted
      /\ UNCHANGED <<opt, s, out, data, conn>>
  BY <1>0 DEF respond, SessionTypeOK, Receiver
<1>2. net' \in Net /\ net'["rcv"] = net["rcv"] /\ OneMore("snd", tag)
  BY <1>0, NetPost DEF respond, Frames
<1>3. s.pc \notin {"hello", "ack"}
  <2>1. r.tries \in Nat /\ r.tries <= s.tries /\ r.tries > 0 /\ s.tries \in Nat
    BY <1>0, <1>1, SessionAssumption DEF SInv, Gated, SessionTypeOK, Receiver, Sender
  <2>2. s.tries # 0
    BY <2>1
  <2> QED BY <2>2 DEF SInv, Gated
<1>t. SessionTypeOK'
  BY <1>0, <1>1, <1>2, <1>3 DEF SessionTypeOK, Net, Data
<1>a. AckCommitted'
  BY <1>0, <1>1, <1>2, <1>3 DEF SInv, AckCommitted, Left, OneMore
<1>c. CompleteSent'
  BY <1>0, <1>1, <1>2, <1>3 DEF SInv, CompleteSent, OneMore
<1>i. InOrder'
  BY <1>0, <1>1, <1>2, <1>3 DEF SInv, InOrder, AckCommitted, Left
<1>g. Gated'
  BY <1>0, <1>1, <1>2, <1>3 DEF SInv, Gated, Opened, Tags, Verdicts, Sending, Asked, Left, OneMore
<1>d. Departure'
  BY <1>0, <1>1, <1>2, <1>3 DEF SInv, Departure, Leaving, OneMore
<1>p. Pending'
  BY <1>0, <1>1, <1>2, <1>3 DEF SInv, Pending, Left, Asked, Verdicts, FromReceiver, OneMore
<1>o. Doubted'
  BY <1>0, <1>1, <1>2, <1>3 DEF SInv, Doubted, CloseComes, Transient
<1> QED BY <1>t, <1>a, <1>c, <1>i, <1>g, <1>d, <1>p, <1>o DEF SInv

\* The password prompt ends with its context or with the connection.
LEMMA PromptAbortsStep ==
  ASSUME SInv, promptAborts
  PROVE  SInv'
<1>0. SessionTypeOK
  BY DEF SInv
<1>1. r.pc = "type" /\ Returns("cancelled", net) /\ UNCHANGED <<opt, s, out, conn>>
  BY DEF promptAborts
<1>2. "cancelled" \in Causes /\ "cancelled" \notin Transient
  BY DEF Causes, Codes, Transient
<1> QED BY <1>1, <1>2, ReturnsStep

\* The password was right.
LEMMA VerifiedStep ==
  ASSUME SInv, r.pc = "verdict", HasFrame("rcv"), Head(net["rcv"].q) = "verified",
         r' = Proceed(r), net' = Took("rcv"), UNCHANGED <<opt, s, out, data, conn>>
  PROVE  SInv'
<1>0. SessionTypeOK
  BY DEF SInv
<1>1. net' \in Net /\ net'["snd"] = net["snd"] /\ net'["rcv"].fin = net["rcv"].fin /\ Taken("rcv")
  BY <1>0, NetTook
<1>2. /\ r' \in Receiver /\ r'.pc \in {"target", "listing"}
      /\ r'.tries = r.tries /\ r'.rounds = r.rounds /\ r'.typed = r.typed /\ r'.asked = r.asked /\ r'.got = r.got
      /\ r'.skipped = r.skipped /\ r'.committed = r.committed /\ r'.cause = r.cause /\ r'.ctx = r.ctx /\ r'.aborted = r.aborted
  BY <1>0, GateEffect DEF SessionTypeOK
<1>3. opt.password /\ Opened
  BY <1>1 DEF SInv, Gated, Opened, Taken
<1>4. \A f \in Verdicts \cup {"challenge"} : ~Has(net'["rcv"].q, f)
  BY <1>1, <1>3 DEF SInv, Gated, Taken, Fewer, Verdicts
<1>t. SessionTypeOK'
  BY <1>0, <1>1, <1>2, <1>3, <1>4 DEF SessionTypeOK, Net, Data
<1>a. AckCommitted'
  BY <1>0, <1>1, <1>2, <1>3, <1>4 DEF SInv, AckCommitted, Left, Taken, Fewer
<1>c. CompleteSent'
  BY <1>0, <1>1, <1>2, <1>3, <1>4 DEF SInv, CompleteSent, Taken, Fewer
<1>i. InOrder'
  BY <1>0, <1>1, <1>2, <1>3, <1>4, ZenonT(60) DEF SInv, InOrder, AckCommitted, Left
<1>g. Gated'
  BY <1>0, <1>1, <1>2, <1>3, <1>4 DEF SInv, Gated, Opened, Tags, Verdicts, Sending, Asked, Left, Taken, Fewer
<1>d. Departure'
  BY <1>0, <1>1, <1>2, <1>3, <1>4 DEF SInv, Departure, Leaving, Taken, Fewer
<1>p. Pending'
  BY <1>0, <1>1, <1>2, <1>3, <1>4 DEF SInv, Pending, Left, Asked, Verdicts, FromReceiver, Taken, Fewer
<1>o. Doubted'
  BY <1>0, <1>1, <1>2, <1>3, <1>4 DEF SInv, Doubted, CloseComes, Transient
<1> QED BY <1>t, <1>a, <1>c, <1>i, <1>g, <1>d, <1>p, <1>o DEF SInv

\* The password was wrong, and another is allowed.
LEMMA AgainStep ==
  ASSUME SInv, r.pc = "verdict", HasFrame("rcv"), Head(net["rcv"].q) = "wrongPassword",
         r' = [r EXCEPT !.pc = "challenge"], net' = Took("rcv"), UNCHANGED <<opt, s, out, data, conn>>
  PROVE  SInv'
<1>0. SessionTypeOK
  BY DEF SInv
<1>1. net' \in Net /\ net'["snd"] = net["snd"] /\ net'["rcv"].fin = net["rcv"].fin /\ Taken("rcv")
  BY <1>0, NetTook
<1>2. /\ r' \in Receiver /\ r'.pc = "challenge"
      /\ r'.tries = r.tries /\ r'.rounds = r.rounds /\ r'.typed = r.typed /\ r'.asked = r.asked /\ r'.got = r.got
      /\ r'.skipped = r.skipped /\ r'.committed = r.committed /\ r'.cause = r.cause /\ r'.ctx = r.ctx /\ r'.aborted = r.aborted
  BY <1>0 DEF SessionTypeOK, Receiver
<1>3. opt.password /\ r.tries > 0
  BY DEF SInv, Gated
<1>t. SessionTypeOK'
  BY <1>0, <1>1, <1>2, <1>3 DEF SessionTypeOK, Net, Data
<1>a. AckCommitted'
  BY <1>0, <1>1, <1>2, <1>3 DEF SInv, AckCommitted, Left, Taken, Fewer
<1>c. CompleteSent'
  BY <1>0, <1>1, <1>2, <1>3 DEF SInv, CompleteSent, Taken, Fewer
<1>i. InOrder'
  BY <1>0, <1>1, <1>2, <1>3, ZenonT(60) DEF SInv, InOrder, AckCommitted, Left
<1>g. Gated'
  BY <1>0, <1>1, <1>2, <1>3 DEF SInv, Gated, Opened, Tags, Verdicts, Sending, Asked, Left, Taken, Fewer
<1>d. Departure'
  BY <1>0, <1>1, <1>2, <1>3 DEF SInv, Departure, Leaving, Taken, Fewer
<1>p. Pending'
  BY <1>0, <1>1, <1>2, <1>3 DEF SInv, Pending, Left, Asked, Verdicts, FromReceiver, Taken, Fewer
<1>o. Doubted'
  BY <1>0, <1>1, <1>2, <1>3 DEF SInv, Doubted, CloseComes, Transient
<1> QED BY <1>t, <1>a, <1>c, <1>i, <1>g, <1>d, <1>p, <1>o DEF SInv

\* The receiver reads the verdict on its password.
LEMMA ReadVerdictStep ==
  ASSUME SInv, readVerdict
  PROVE  SInv'
<1>0. SessionTypeOK
  BY DEF SInv
<1>1. r.pc = "verdict" /\ HasFrame("rcv") /\ UNCHANGED <<opt, s, out, conn>> /\ r.pc \notin {"grace", "over"}
  BY DEF readVerdict
<1> DEFINE f == Head(net["rcv"].q)
<1>2. CASE f = "verified" /\ r' = Proceed(r) /\ net' = Took("rcv") /\ UNCHANGED data
  BY <1>1, <1>2, VerifiedStep
<1>3. CASE f = "wrongPassword" /\ r' = [r EXCEPT !.pc = "challenge"] /\ net' = Took("rcv") /\ UNCHANGED data
  BY <1>1, <1>3, AgainStep
<1>4. CASE Returns("wrongPassword", Took("rcv"))
  <2>1. "wrongPassword" \in Causes /\ "wrongPassword" \notin Transient
    BY DEF Causes, Codes, Transient
  <2> QED BY <1>1, <1>4, <2>1, ReturnsStep
<1>5. CASE f \in Codes /\ Returns(mapPeerError(f), Took("rcv"))
  <2>1. mapPeerError(f) \in Causes /\ mapPeerError(f) # "ok" /\ mapPeerError(f) \notin Transient
    BY <1>0, <1>5, ReadFrame DEF Transient
  <2> QED BY <1>1, <1>5, <2>1, ReturnsStep
<1> QED BY <1>2, <1>3, <1>4, <1>5 DEF readVerdict

\* The receiver reads the listing, or a verify response.
LEMMA ToDecideStep ==
  ASSUME SInv, r.pc \in {"listing", "verify"}, HasFrame("rcv"), Head(net["rcv"].q) \in {"listing", "verifyResponse"},
         r' = [r EXCEPT !.pc = "decide"], net' = Took("rcv"), UNCHANGED <<opt, s, out, data, conn>>
  PROVE  SInv'
<1>0. SessionTypeOK
  BY DEF SInv
<1>1. net' \in Net /\ net'["snd"] = net["snd"] /\ net'["rcv"].fin = net["rcv"].fin /\ Taken("rcv")
  BY <1>0, NetTook
<1>2. /\ r' \in Receiver /\ r'.pc = "decide"
      /\ r'.tries = r.tries /\ r'.rounds = r.rounds /\ r'.typed = r.typed /\ r'.asked = r.asked /\ r'.got = r.got
      /\ r'.skipped = r.skipped /\ r'.committed = r.committed /\ r'.cause = r.cause /\ r'.ctx = r.ctx /\ r'.aborted = r.aborted
  BY <1>0 DEF SessionTypeOK, Receiver
<1>t. SessionTypeOK'
  BY <1>0, <1>1, <1>2 DEF SessionTypeOK, Net, Data
<1>a. AckCommitted'
  BY <1>0, <1>1, <1>2 DEF SInv, AckCommitted, Left, Taken, Fewer
<1>c. CompleteSent'
  BY <1>0, <1>1, <1>2 DEF SInv, CompleteSent, Taken, Fewer
<1>i. InOrder'
  BY <1>0, <1>1, <1>2 DEF SInv, InOrder, AckCommitted, Left
<1>g. Gated'
  BY <1>0, <1>1, <1>2 DEF SInv, Gated, Opened, Tags, Verdicts, Sending, Asked, Left, Taken, Fewer
<1>d. Departure'
  BY <1>0, <1>1, <1>2 DEF SInv, Departure, Leaving, Taken, Fewer
<1>p. Pending'
  BY <1>0, <1>1, <1>2 DEF SInv, Pending, Left, Asked, Verdicts, FromReceiver, Taken, Fewer
<1>o. Doubted'
  BY <1>0, <1>1, <1>2 DEF SInv, Doubted, CloseComes, Transient
<1> QED BY <1>t, <1>a, <1>c, <1>i, <1>g, <1>d, <1>p, <1>o DEF SInv

\* The receiver reads the listing.
LEMMA ReadListingStep ==
  ASSUME SInv, readListing
  PROVE  SInv'
<1>0. SessionTypeOK
  BY DEF SInv
<1>1. r.pc = "listing" /\ HasFrame("rcv") /\ UNCHANGED <<opt, s, out, conn>>
  BY DEF readListing
<1> DEFINE f == Head(net["rcv"].q)
<1>2. CASE f = "listing" /\ r' = [r EXCEPT !.pc = "decide"] /\ net' = Took("rcv") /\ UNCHANGED data
  BY <1>1, <1>2, ToDecideStep
<1>3. CASE f \in Codes /\ Returns(mapPeerError(f), Took("rcv"))
  <2>1. mapPeerError(f) \in Causes /\ mapPeerError(f) # "ok" /\ mapPeerError(f) \notin Transient
    BY <1>0, <1>3, ReadFrame DEF Transient
  <2> QED BY <1>1, <1>3, <2>1, ReturnsStep
<1> QED BY <1>2, <1>3 DEF readListing

\* The receiver reads the answer to its verify request.
LEMMA ReadVerifyStep ==
  ASSUME SInv, readVerify
  PROVE  SInv'
<1>0. SessionTypeOK
  BY DEF SInv
<1>1. r.pc = "verify" /\ HasFrame("rcv") /\ UNCHANGED <<opt, s, out, conn>>
  BY DEF readVerify
<1> DEFINE f == Head(net["rcv"].q)
<1>2. CASE f = "verifyResponse" /\ r' = [r EXCEPT !.pc = "decide"] /\ net' = Took("rcv") /\ UNCHANGED data
  BY <1>1, <1>2, ToDecideStep
<1>3. CASE f \in Codes /\ Returns(mapPeerError(f), Took("rcv"))
  <2>1. mapPeerError(f) \in Causes /\ mapPeerError(f) # "ok" /\ mapPeerError(f) \notin Transient
    BY <1>0, <1>3, ReadFrame DEF Transient
  <2> QED BY <1>1, <1>3, <2>1, ReturnsStep
<1> QED BY <1>2, <1>3 DEF readVerify

\* The receiver asks for checksums.
LEMMA RequestVerifyStep ==
  ASSUME SInv, requestVerify
  PROVE  SInv'
<1>0. SessionTypeOK
  BY DEF SInv
<1>1. r.pc = "decide" /\ r' = [r EXCEPT !.pc = "verify", !.rounds = r.rounds + 1] /\ r.rounds < MaxVerifyRounds
      /\ UNCHANGED <<opt, s, out, data, conn>> /\ r \in Receiver
  BY <1>0 DEF requestVerify, SessionTypeOK
<1>2. r.rounds + 1 \in 0..MaxVerifyRounds
  BY <1>1, SessionAssumption DEF Receiver
<1>3. /\ r' \in Receiver /\ r'.pc = "verify"
      /\ r'.tries = r.tries /\ r'.typed = r.typed /\ r'.asked = r.asked /\ r'.got = r.got
      /\ r'.skipped = r.skipped /\ r'.committed = r.committed /\ r'.cause = r.cause /\ r'.ctx = r.ctx /\ r'.aborted = r.aborted
  BY <1>1, <1>2 DEF Receiver
<1>4. net' \in Net /\ net'["rcv"] = net["rcv"] /\ OneMore("snd", "verifyRequest")
  BY <1>0, NetPost DEF requestVerify, Frames
<1>t. SessionTypeOK'
  BY <1>0, <1>1, <1>3, <1>4 DEF SessionTypeOK, Net, Data
<1>a. AckCommitted'
  BY <1>0, <1>1, <1>3, <1>4 DEF SInv, AckCommitted, Left, OneMore
<1>c. CompleteSent'
  BY <1>0, <1>1, <1>3, <1>4 DEF SInv, CompleteSent, OneMore
<1>i. InOrder'
  BY <1>0, <1>1, <1>3, <1>4 DEF SInv, InOrder, AckCommitted, Left
<1>g. Gated'
  BY <1>0, <1>1, <1>3, <1>4 DEF SInv, Gated, Opened, Tags, Verdicts, Sending, Asked, Left, OneMore
<1>d. Departure'
  BY <1>0, <1>1, <1>3, <1>4 DEF SInv, Departure, Leaving, OneMore
<1>p. Pending'
  BY <1>0, <1>1, <1>3, <1>4 DEF SInv, Pending, Left, Asked, Verdicts, FromReceiver, OneMore
<1>o. Doubted'
  BY <1>0, <1>1, <1>3, <1>4 DEF SInv, Doubted, CloseComes, Transient
<1> QED BY <1>t, <1>a, <1>c, <1>i, <1>g, <1>d, <1>p, <1>o DEF SInv

\* The receiver says what it wants.
LEMMA SendDecisionsStep ==
  ASSUME SInv, NEW ask \in BOOLEAN, sendDecisions(ask)
  PROVE  SInv'
<1>0. SessionTypeOK
  BY DEF SInv
<1> DEFINE p == IF ask THEN "data" ELSE "commit"
           f == IF ask THEN "decisions" ELSE "nothing"
<1>1. /\ r.pc = "decide" /\ r' = [r EXCEPT !.pc = p, !.asked = ask] /\ net' = Post(net, "rcv", f)
      /\ UNCHANGED <<opt, s, out, data, conn>> /\ r \in Receiver
  BY <1>0 DEF sendDecisions, SessionTypeOK
<1>2. p \in {"data", "commit"} /\ (p = "commit" => ~ask) /\ f \in {"decisions", "nothing"}
  OBVIOUS
<1> HIDE DEF p, f
<1>3. /\ r' \in Receiver /\ r'.pc = p /\ r'.asked = ask
      /\ r'.tries = r.tries /\ r'.rounds = r.rounds /\ r'.typed = r.typed /\ r'.got = r.got
      /\ r'.skipped = r.skipped /\ r'.committed = r.committed /\ r'.cause = r.cause /\ r'.ctx = r.ctx /\ r'.aborted = r.aborted
  BY <1>1, <1>2 DEF Receiver
<1>4. net' \in Net /\ net'["rcv"] = net["rcv"] /\ OneMore("snd", f)
  BY <1>0, <1>1, <1>2, NetPost DEF Frames
<1>t. SessionTypeOK'
  BY <1>0, <1>1, <1>2, <1>3, <1>4 DEF SessionTypeOK, Net, Data
<1>a. AckCommitted'
  BY <1>0, <1>1, <1>2, <1>3, <1>4 DEF SInv, AckCommitted, Left, OneMore
<1>c. CompleteSent'
  BY <1>0, <1>1, <1>2, <1>3, <1>4 DEF SInv, CompleteSent, OneMore
<1>i. InOrder'
  BY <1>0, <1>1, <1>2, <1>3, <1>4 DEF SInv, InOrder, AckCommitted, Left
<1>g. Gated'
  BY <1>0, <1>1, <1>2, <1>3, <1>4 DEF SInv, Gated, Opened, Tags, Verdicts, Sending, Asked, Left, OneMore
<1>d. Departure'
  BY <1>0, <1>1, <1>2, <1>3, <1>4 DEF SInv, Departure, Leaving, OneMore
<1>p. Pending'
  BY <1>0, <1>1, <1>2, <1>3, <1>4 DEF SInv, Pending, Left, Asked, Verdicts, FromReceiver, OneMore
<1>o. Doubted'
  BY <1>0, <1>1, <1>2, <1>3, <1>4 DEF SInv, Doubted, CloseComes, Transient
<1> QED BY <1>t, <1>a, <1>c, <1>i, <1>g, <1>d, <1>p, <1>o DEF SInv

\* The receiver waits for the end of the control stream.
LEMMA DrainControlStep ==
  ASSUME SInv, drainControl
  PROVE  SInv'
<1>0. SessionTypeOK
  BY DEF SInv
<1>1. r.pc = "drain" /\ UNCHANGED <<opt, s, out, conn>>
  BY DEF drainControl
<1>2. CASE HasFrame("rcv") /\ net' = Took("rcv") /\ UNCHANGED <<r, data>>
  <2>1. net' \in Net /\ net'["snd"] = net["snd"] /\ net'["rcv"].fin = net["rcv"].fin /\ Taken("rcv")
    BY <1>0, <1>2, NetTook
  <2>t. SessionTypeOK'
    BY <1>0, <1>1, <1>2, <2>1 DEF SessionTypeOK, Net, Data
  <2>a. AckCommitted'
    BY <1>0, <1>1, <1>2, <2>1 DEF SInv, AckCommitted, Left, Taken, Fewer
  <2>c. CompleteSent'
    BY <1>0, <1>1, <1>2, <2>1 DEF SInv, CompleteSent, Taken, Fewer
  <2>i. InOrder'
    BY <1>0, <1>1, <1>2, <2>1 DEF SInv, InOrder
  <2>g. Gated'
    BY <1>0, <1>1, <1>2, <2>1 DEF SInv, Gated, Opened, Tags, Verdicts, Sending, Asked, Left, Taken, Fewer
  <2>d. Departure'
    BY <1>0, <1>1, <1>2, <2>1 DEF SInv, Departure, Leaving, Taken, Fewer
  <2>p. Pending'
    BY <1>0, <1>1, <1>2, <2>1 DEF SInv, Pending, Left, Asked, Verdicts, FromReceiver, Taken, Fewer
  <2>o. Doubted'
    BY <1>0, <1>1, <1>2, <2>1 DEF SInv, Doubted, CloseComes, Transient
  <2> QED BY <2>t, <2>a, <2>c, <2>i, <2>g, <2>d, <2>p, <2>o DEF SInv
<1>3. CASE ReadFails("rcv") /\ RecvEnds(r, net)
  <2>1. r \in Receiver /\ r.cause \in Causes
    BY <1>0 DEF SessionTypeOK, Receiver
  <2>2. r = [r EXCEPT !.cause = r.cause]
    BY <2>1 DEF Receiver
  <2>3. Returns(r.cause, net)
    BY <1>3, <2>2 DEF Returns
  <2>4. r.cause \notin Transient
    BY <1>1 DEF SInv, Doubted
  <2> QED BY <1>1, <2>1, <2>3, <2>4, ReturnsStep
<1> QED BY <1>2, <1>3 DEF drainControl

\* The close arrived, or the time for it is over.
LEMMA GraceStep ==
  ASSUME SInv, grace
  PROVE  SInv'
<1>0. SessionTypeOK
  BY DEF SInv
<1> DEFINE c == IF conn["rcv"] = "cancelClose" THEN "peerCancelled" ELSE IF ConnLost(r) THEN "drop" ELSE r.cause
<1>1. r.pc = "grace" /\ conn["rcv"] # "open" /\ UNCHANGED <<opt, s, out, conn>>
  BY DEF grace, SInv, Doubted
<1>2. /\ r' = [r EXCEPT !.cause = c, !.pc = "over"] /\ net' = Shut(net, "rcv") /\ data' = [data EXCEPT !.stop = TRUE]
      /\ r \in Receiver /\ data \in Data /\ net \in Net /\ conn["rcv"] \in {"open", "closed", "cancelClose", "drop"}
  BY <1>0 DEF grace, RecvOver, SessionTypeOK, Data, Net, Sides
<1>3. c \in Causes /\ (c = "ok" => r.cause = "ok") /\ (c \in Transient => conn["rcv"] # "cancelClose")
  BY <1>2 DEF Receiver, Causes, Transient
<1> HIDE DEF c
<1>4. r' \in Receiver /\ SameRecv /\ r'.aborted = r.aborted /\ r'.cause = c /\ r'.pc = "over"
  BY <1>2, <1>3 DEF Receiver, SameRecv
<1>5. data' \in Data /\ data'.q = data.q /\ data'.fin = data.fin
  BY <1>2 DEF Data
<1>6. net' \in Net /\ net'["rcv"] = net["rcv"] /\ net'["snd"].q = net["snd"].q
  BY <1>2, ShutEffect
<1>t. SessionTypeOK'
  BY <1>0, <1>1, <1>2, <1>3, <1>4, <1>5, <1>6 DEF SessionTypeOK, Net, Data
<1>a. AckCommitted'
  BY <1>0, <1>1, <1>2, <1>3, <1>4, <1>5, <1>6 DEF SInv, AckCommitted, Left, SameRecv
<1>c. CompleteSent'
  BY <1>0, <1>1, <1>2, <1>3, <1>4, <1>5, <1>6 DEF SInv, CompleteSent, SameRecv
<1>i. InOrder'
  BY <1>1, <1>4, <1>5, SameOrder DEF SInv, SameRecv
<1>g. Gated'
  BY <1>0, <1>1, <1>2, <1>3, <1>4, <1>5, <1>6 DEF SInv, Gated, Opened, Tags, Verdicts, Sending, Asked, Left, SameRecv
<1>d. Departure'
  BY <1>0, <1>1, <1>2, <1>3, <1>4, <1>5, <1>6 DEF SInv, Departure, Leaving, SameRecv
<1>p. Pending'
  BY <1>0, <1>1, <1>2, <1>3, <1>4, <1>5, <1>6 DEF SInv, Pending, Left, Asked, Verdicts, FromReceiver, SameRecv
<1>o. Doubted'
  BY <1>0, <1>1, <1>2, <1>3, <1>4, <1>5, <1>6 DEF SInv, Doubted, CloseComes, Transient
<1> QED BY <1>t, <1>a, <1>c, <1>i, <1>g, <1>d, <1>p, <1>o DEF SInv

\* Without a password the listing, or the stream, follows the acknowledgement.
LEMMA StartStep ==
  ASSUME SInv, s.pc = "ack", HasFrame("snd"), ~opt.password, StartSending(Took("snd")), UNCHANGED <<opt, out, r, data, conn>>
  PROVE  SInv'
<1>0. SessionTypeOK
  BY DEF SInv
<1>1. /\ s' \in Sender /\ SameCounts /\ s'.late = s.late /\ s'.cause = s.cause
      /\ s'.pc = (IF opt.mode = "stream" THEN "data" ELSE "negotiate")
      /\ net' \in Net /\ net'["snd"].q = Tail(net["snd"].q) /\ net'["rcv"].fin = net["rcv"].fin
      /\ net'["rcv"].q = IF opt.mode = "stream" THEN net["rcv"].q ELSE Append(net["rcv"].q, "listing")
  <2>1. Took("snd") \in Net /\ Took("snd")["snd"].q = Tail(net["snd"].q) /\ Took("snd")["rcv"] = net["rcv"]
    BY <1>0, TookEffect DEF Sides, Other
  <2> QED BY <1>0, <2>1, StartSendingEffect
<1>2. Fewer("snd") /\ IF opt.mode = "stream" THEN Fewer("rcv") ELSE OneMore("rcv", "listing")
  BY <1>0, <1>1, QueueSteps DEF Sides, Frames
<1>t. SessionTypeOK'
  BY <1>0, <1>1, <1>2 DEF SessionTypeOK, Net, Data
<1>a. AckCommitted'
  BY <1>0, <1>1, <1>2 DEF SInv, AckCommitted, Left, Fewer, OneMore, SameCounts
<1>c. CompleteSent'
  BY <1>0, <1>1, <1>2 DEF SInv, CompleteSent, Fewer, OneMore, SameCounts
<1>i. InOrder'
  BY <1>1, <1>2, SameOrder DEF SInv, SameCounts
<1>g. Gated'
  BY <1>0, <1>1, <1>2 DEF SInv, Gated, Opened, Tags, Verdicts, Sending, Asked, Left, Fewer, OneMore, SameCounts
<1>d. Departure'
  BY <1>0, <1>1, <1>2 DEF SInv, Departure, Leaving, Fewer, OneMore, SameCounts
<1>p. Pending'
  BY <1>0, <1>1, <1>2 DEF SInv, Pending, Left, Asked, Verdicts, FromReceiver, Fewer, OneMore, SameCounts
<1>o. Doubted'
  BY <1>0, <1>1, <1>2 DEF SInv, Doubted, CloseComes, Transient, SameCounts
<1> QED BY <1>t, <1>a, <1>c, <1>i, <1>g, <1>d, <1>p, <1>o DEF SInv

\* With a password a challenge follows the acknowledgement.
LEMMA ChallengeStep ==
  ASSUME SInv, s.pc = "ack", HasFrame("snd"), opt.password, s' = [s EXCEPT !.pc = "response", !.tries = 1],
         net' = Post(Took("snd"), "snd", "challenge"), UNCHANGED <<opt, out, r, data, conn>>
  PROVE  SInv'
<1>0. SessionTypeOK
  BY DEF SInv
<1>1. /\ s' \in Sender /\ s'.pc = "response" /\ s'.tries = 1 /\ s'.next = s.next /\ s'.ctx = s.ctx /\ s'.cause = s.cause
  <2>1. s \in Sender /\ 1 \in 0..PasswordAttempts
    BY <1>0, SessionAssumption DEF SessionTypeOK
  <2> QED BY <2>1 DEF Sender
<1>2. net' \in Net /\ net'["rcv"].fin = net["rcv"].fin /\ Taken("snd") /\ OneMore("rcv", "challenge")
  BY <1>0, NetAnswer DEF Frames
<1>3. r.tries = 0 /\ r.pc # "type"
  <2>1. r.tries \in Nat /\ r.tries <= s.tries /\ s.tries = 0
    BY <1>0, SessionAssumption DEF SInv, Gated, SessionTypeOK, Receiver
  <2>2. r.tries = 0
    BY <2>1
  <2> QED BY <2>2 DEF SInv, Gated
<1>4. r.pc \in Asked \cup Left \cup {"verdict"}
  BY DEF SInv, Gated
<1>t. SessionTypeOK'
  BY <1>0, <1>1, <1>2, <1>3, <1>4 DEF SessionTypeOK, Net, Data
<1>a. AckCommitted'
  BY <1>0, <1>1, <1>2, <1>3, <1>4 DEF SInv, AckCommitted, Left, Taken, Fewer, OneMore
<1>c. CompleteSent'
  BY <1>0, <1>1, <1>2, <1>3, <1>4 DEF SInv, CompleteSent, Taken, Fewer, OneMore
<1>i. InOrder'
  BY <1>1, SameOrder DEF SInv
<1>g. Gated'
  BY <1>0, <1>1, <1>2, <1>3, <1>4 DEF SInv, Gated, Opened, Tags, Verdicts, Sending, Asked, Left, Taken, Fewer, OneMore
<1>d. Departure'
  BY <1>0, <1>1, <1>2, <1>3, <1>4 DEF SInv, Departure, Leaving, Taken, Fewer, OneMore
<1>p. Pending'
  BY <1>0, <1>1, <1>2, <1>3, <1>4 DEF SInv, Pending, Left, Asked, Verdicts, FromReceiver, Taken, Fewer, OneMore
<1>o. Doubted'
  BY <1>0, <1>1, <1>2, <1>3, <1>4 DEF SInv, Doubted, CloseComes, Transient
<1> QED BY <1>t, <1>a, <1>c, <1>i, <1>g, <1>d, <1>p, <1>o DEF SInv

\* Send reads the acknowledgement.
LEMMA ReadAckStep ==
  ASSUME SInv, readAck
  PROVE  SInv'
<1>0. SessionTypeOK
  BY DEF SInv
<1>1. s.pc = "ack" /\ HasFrame("snd") /\ UNCHANGED <<opt, out, r, conn>>
  BY DEF readAck
<1>2. CASE ~opt.password /\ StartSending(Took("snd")) /\ UNCHANGED data
  BY <1>1, <1>2, StartStep
<1>3. CASE /\ opt.password /\ s' = [s EXCEPT !.pc = "response", !.tries = 1]
           /\ net' = Post(Took("snd"), "snd", "challenge") /\ UNCHANGED data
  BY <1>1, <1>3, ChallengeStep
<1>4. "incompatible" \in Causes /\ "declined" \in Causes
  BY DEF Causes, Codes
<1>5. CASE SendEnds("incompatible", Took("snd"))
  BY <1>1, <1>4, <1>5, SendEndsStep
<1>6. CASE SendEnds("declined", Took("snd"))
  BY <1>1, <1>4, <1>6, SendEndsStep
<1> QED BY <1>2, <1>3, <1>5, <1>6 DEF readAck

\* A right or wrong tag is the only one, and the receiver waits for its verdict.
LEMMA TagRead ==
  ASSUME SInv, s.pc = "response", HasFrame("snd"), Head(net["snd"].q) \in Tags
  PROVE  /\ opt.password /\ ~Opened
         /\ r.pc \in Left \cup {"verdict"}
         /\ \A f \in Verdicts \cup {"challenge"} : ~Has(net["rcv"].q, f)
         /\ Head(net["snd"].q) = "good" => r.typed = "good"
         /\ ~Has(net["rcv"].q, "complete") /\ r.cause # "ok"
<1>0. SessionTypeOK
  BY DEF SInv
<1>1. Has(net["snd"].q, Head(net["snd"].q))
  BY <1>0, ReadFrame
<1>2. opt.password
  BY DEF SInv, Gated
<1>3. ~Opened
  BY <1>2 DEF SInv, Gated
<1>4. r.pc \in Left \cup {"verdict"}
  BY <1>1, <1>2 DEF SInv, Gated, Asked
<1>5. \A f \in Verdicts \cup {"challenge"} : ~Has(net["rcv"].q, f)
  BY <1>1 DEF SInv, Gated
<1>6. Head(net["snd"].q) = "good" => r.typed = "good"
  BY <1>1 DEF SInv, Gated
<1>7. ~Has(net["rcv"].q, "complete") /\ r.cause # "ok"
  BY DEF SInv, CompleteSent
<1> QED BY <1>2, <1>3, <1>4, <1>5, <1>6, <1>7

\* The right password opens the gate.
LEMMA OpensStep ==
  ASSUME SInv, s.pc = "response", HasFrame("snd"), Head(net["snd"].q) = "good",
         StartSending(Post(Took("snd"), "snd", "verified")), UNCHANGED <<opt, out, r, data, conn>>
  PROVE  SInv'
<1>0. SessionTypeOK
  BY DEF SInv
<1> DEFINE n == Post(Took("snd"), "snd", "verified")
<1>1. /\ n \in Net /\ n["snd"].q = Tail(net["snd"].q) /\ n["rcv"].q = Append(net["rcv"].q, "verified")
      /\ n["rcv"].fin = net["rcv"].fin
  <2> DEFINE k == Took("snd")
  <2>1. k \in Net /\ k["snd"].q = Tail(net["snd"].q) /\ k["rcv"] = net["rcv"]
    BY <1>0, TookEffect DEF Sides, Other
  <2>2. "verified" \in Frames
    BY DEF Frames
  <2>3. /\ Post(k, "snd", "verified") \in Net /\ Post(k, "snd", "verified")["snd"] = k["snd"]
        /\ Post(k, "snd", "verified")["rcv"].q = Append(k["rcv"].q, "verified")
        /\ Post(k, "snd", "verified")["rcv"].fin = k["rcv"].fin
    BY <2>1, <2>2, PostEffect
  <2> QED BY <2>1, <2>3
<1>2. /\ opt.password /\ ~Opened /\ r.pc \in Left \cup {"verdict"}
      /\ \A f \in Verdicts \cup {"challenge"} : ~Has(net["rcv"].q, f)
      /\ Head(net["snd"].q) = "good" => r.typed = "good"
      /\ ~Has(net["rcv"].q, "complete") /\ r.cause # "ok"
  BY TagRead DEF Tags
<1> HIDE DEF n
<1>3. /\ s' \in Sender /\ SameCounts /\ s'.late = s.late /\ s'.cause = s.cause
      /\ s'.pc = (IF opt.mode = "stream" THEN "data" ELSE "negotiate")
      /\ net' \in Net /\ net'["snd"].q = Tail(net["snd"].q) /\ net'["rcv"].fin = net["rcv"].fin
      /\ net'["rcv"].q = IF opt.mode = "stream" THEN Append(net["rcv"].q, "verified")
                         ELSE Append(Append(net["rcv"].q, "verified"), "listing")
  <2>1. StartSending(n)
    BY DEF n
  <2> QED BY <1>0, <1>1, <2>1, StartSendingEffect
<1>4. Taken("snd") /\ \A t \in Tags : ~Has(net'["snd"].q, t)
  <2>1. net["snd"].q \in Seq(Frames) /\ net["snd"].q # <<>>
    BY <1>0 DEF SessionTypeOK, Sides, HasFrame
  <2>2. Taken("snd")
    BY <1>0, <1>3, <2>1, HasTail, QueueSteps DEF Taken, Sides
  <2> QED BY <2>2 DEF SInv, Gated, Taken, Tags
<1>5. IF opt.mode = "stream" THEN OneMore("rcv", "verified") ELSE TwoMore("rcv", "verified", "listing")
  <2>1. "verified" \in Frames /\ "listing" \in Frames
    BY DEF Frames
  <2>2. CASE opt.mode = "stream"
    BY <1>0, <1>3, <2>1, <2>2, QueueSteps DEF Sides
  <2>3. CASE opt.mode # "stream"
    BY <1>0, <1>3, <2>1, <2>3, TwoAppends DEF Sides
  <2> QED BY <2>2, <2>3
<1>6. /\ \A f : Has(net'["rcv"].q, f) => Has(net["rcv"].q, f) \/ f \in {"verified", "listing"}
      /\ \A f : Has(net["rcv"].q, f) => Has(net'["rcv"].q, f)
      /\ Has(net'["rcv"].q, "listing") => Has(net["rcv"].q, "listing") \/ opt.mode # "stream"
      /\ \A F \in {{"challenge"}, Verdicts, {"hello", "foreign"}} : AtMostOne(net["rcv"].q, F) => AtMostOne(net'["rcv"].q, F)
  BY <1>2, <1>5 DEF OneMore, TwoMore, Verdicts
<1>t. SessionTypeOK'
  BY <1>0, <1>2, <1>3, <1>4, <1>6 DEF SessionTypeOK, Net, Data
<1>a. AckCommitted'
  BY <1>0, <1>2, <1>3, <1>4, <1>6 DEF SInv, AckCommitted, Left, Taken, Fewer, SameCounts
<1>c. CompleteSent'
  BY <1>0, <1>2, <1>3, <1>4, <1>6 DEF SInv, CompleteSent, Taken, Fewer, SameCounts
<1>i. InOrder'
  BY <1>3, SameOrder DEF SInv, SameCounts
<1>g. Gated'
  BY <1>0, <1>2, <1>3, <1>4, <1>6 DEF SInv, Gated, Opened, Tags, Verdicts, Sending, Asked, Left, Taken, Fewer, SameCounts
<1>d. Departure'
  BY <1>0, <1>2, <1>3, <1>4, <1>6 DEF SInv, Departure, Leaving, Taken, Fewer, SameCounts
<1>p. Pending'
  BY <1>0, <1>2, <1>3, <1>4, <1>6 DEF SInv, Pending, Left, Asked, Verdicts, FromReceiver, Taken, Fewer, SameCounts
<1>o. Doubted'
  BY <1>0, <1>2, <1>3, <1>4, <1>6 DEF SInv, Doubted, CloseComes, Transient, SameCounts
<1> QED BY <1>t, <1>a, <1>c, <1>i, <1>g, <1>d, <1>p, <1>o DEF SInv

\* A wrong password is answered, and another asked for.
LEMMA AskAgainStep ==
  ASSUME SInv, s.pc = "response", HasFrame("snd"), Head(net["snd"].q) = "bad", s.tries < PasswordAttempts,
         s' = [s EXCEPT !.tries = s.tries + 1],
         net' = Post(Post(Took("snd"), "snd", "wrongPassword"), "snd", "challenge"), UNCHANGED <<opt, out, r, data, conn>>
  PROVE  SInv'
<1>0. SessionTypeOK
  BY DEF SInv
<1>1. /\ s' \in Sender /\ s'.pc = s.pc /\ s'.tries = s.tries + 1 /\ s'.next = s.next /\ s'.ctx = s.ctx /\ s'.cause = s.cause
  <2>1. s \in Sender /\ s.tries + 1 \in 0..PasswordAttempts
    <3>1. s \in Sender
      BY <1>0 DEF SessionTypeOK
    <3>2. s.tries \in 0..PasswordAttempts
      BY <3>1 DEF Sender
    <3> QED BY <3>1, <3>2, SessionAssumption
  <2>2. PICK z, k : z = s /\ k = s.tries + 1
    OBVIOUS
  <2>3. z \in Sender /\ k \in 0..PasswordAttempts /\ s' = [z EXCEPT !.tries = k]
    BY <2>1, <2>2
  <2>4. s' \in Sender
    BY <2>3 DEF Sender
  <2>5. s'.pc = z.pc /\ s'.tries = k /\ s'.next = z.next /\ s'.ctx = z.ctx /\ s'.cause = z.cause
    BY <2>3 DEF Sender
  <2> QED BY <2>2, <2>4, <2>5
<1>2. /\ opt.password /\ ~Opened /\ r.pc \in Left \cup {"verdict"}
      /\ \A f \in Verdicts \cup {"challenge"} : ~Has(net["rcv"].q, f)
      /\ Head(net["snd"].q) = "good" => r.typed = "good"
      /\ ~Has(net["rcv"].q, "complete") /\ r.cause # "ok"
  BY TagRead DEF Tags
<1>3. /\ net' \in Net /\ net'["snd"].q = Tail(net["snd"].q)
      /\ net'["rcv"].q = Append(Append(net["rcv"].q, "wrongPassword"), "challenge")
      /\ net'["rcv"].fin = net["rcv"].fin
  <2> DEFINE k == Took("snd")
             n == Post(k, "snd", "wrongPassword")
  <2>1. k \in Net /\ k["snd"].q = Tail(net["snd"].q) /\ k["rcv"] = net["rcv"]
    BY <1>0, TookEffect DEF Sides, Other
  <2>2. "wrongPassword" \in Frames /\ "challenge" \in Frames
    BY DEF Frames, Codes
  <2> HIDE DEF k
  <2>3. n \in Net /\ n["snd"] = k["snd"] /\ n["rcv"].q = Append(k["rcv"].q, "wrongPassword") /\ n["rcv"].fin = k["rcv"].fin
    BY <2>1, <2>2, PostEffect
  <2> HIDE DEF n
  <2>4. net' = Post(n, "snd", "challenge")
    BY DEF n, k
  <2>5. /\ Post(n, "snd", "challenge") \in Net /\ Post(n, "snd", "challenge")["snd"] = n["snd"]
        /\ Post(n, "snd", "challenge")["rcv"].q = Append(n["rcv"].q, "challenge")
        /\ Post(n, "snd", "challenge")["rcv"].fin = n["rcv"].fin
    BY <2>2, <2>3, PostEffect
  <2> QED BY <2>1, <2>3, <2>4, <2>5
<1>4. Taken("snd") /\ \A t \in Tags : ~Has(net'["snd"].q, t)
  <2>1. net["snd"].q \in Seq(Frames) /\ net["snd"].q # <<>>
    BY <1>0 DEF SessionTypeOK, Sides, HasFrame
  <2>2. Taken("snd")
    BY <1>0, <1>3, <2>1, HasTail, QueueSteps DEF Taken, Sides
  <2> QED BY <2>2 DEF SInv, Gated, Taken, Tags
<1>5. TwoMore("rcv", "wrongPassword", "challenge")
  BY <1>0, <1>3, TwoAppends DEF Sides, Frames, Codes
<1>6. /\ \A f : Has(net'["rcv"].q, f) <=> Has(net["rcv"].q, f) \/ f \in {"wrongPassword", "challenge"}
      /\ \A F \in {{"challenge"}, Verdicts, {"hello", "foreign"}} : AtMostOne(net["rcv"].q, F) => AtMostOne(net'["rcv"].q, F)
  BY <1>2, <1>5 DEF TwoMore, Verdicts
<1>7. r.tries < s.tries + 1 /\ r.tries <= s.tries + 1
  <2>1. r.tries \in Nat /\ s.tries \in Nat /\ r.tries <= s.tries
    BY <1>0, SessionAssumption DEF SInv, Gated, SessionTypeOK, Receiver, Sender
  <2> QED BY <2>1
<1>8. ~Opened'
  <2>1. ~Has(net'["rcv"].q, "listing") /\ ~Has(net'["rcv"].q, "verified")
    BY <1>2, <1>6 DEF Opened
  <2> QED BY <1>1, <1>2, <2>1 DEF Opened
<1>t. SessionTypeOK'
  BY <1>0, <1>1, <1>2, <1>3, <1>4, <1>6, <1>7, <1>8 DEF SessionTypeOK, Net, Data
<1>a. AckCommitted'
  BY <1>0, <1>1, <1>2, <1>3, <1>4, <1>6, <1>7, <1>8 DEF SInv, AckCommitted, Left, Taken, Fewer
<1>c. CompleteSent'
  BY <1>0, <1>1, <1>2, <1>3, <1>4, <1>6, <1>7, <1>8 DEF SInv, CompleteSent, Taken, Fewer
<1>i. InOrder'
  BY <1>1, SameOrder DEF SInv
<1>g. Gated'
  BY <1>1, <1>2, <1>3, <1>4, <1>6, <1>7, <1>8 DEF SInv, Gated, Tags, Verdicts, Asked, Left, Taken, Fewer
<1>d. Departure'
  BY <1>0, <1>1, <1>2, <1>3, <1>4, <1>6, <1>7, <1>8 DEF SInv, Departure, Leaving, Taken, Fewer
<1>p. Pending'
  BY <1>0, <1>1, <1>2, <1>3, <1>4, <1>6, <1>7, <1>8 DEF SInv, Pending, Left, Asked, Verdicts, FromReceiver, Taken, Fewer
<1>o. Doubted'
  BY <1>0, <1>1, <1>2, <1>3, <1>4, <1>6, <1>7, <1>8 DEF SInv, Doubted, CloseComes, Transient
<1> QED BY <1>t, <1>a, <1>c, <1>i, <1>g, <1>d, <1>p, <1>o DEF SInv

\* The last wrong password ends the stream.
LEMMA LastWrongStep ==
  ASSUME SInv, s.pc = "response", HasFrame("snd"), Head(net["snd"].q) = "bad",
         s' = [s EXCEPT !.pc = "drain", !.cause = "wrongPassword"],
         net' = Shut(Post(Took("snd"), "snd", "wrongPassword"), "snd"), UNCHANGED <<opt, out, r, data, conn>>
  PROVE  SInv'
<1>0. SessionTypeOK
  BY DEF SInv
<1>1. s' \in Sender /\ s'.pc = "drain" /\ s'.cause = "wrongPassword" /\ SameCounts
  BY <1>0 DEF SessionTypeOK, Sender, Causes, Codes, SameCounts
<1>2. /\ opt.password /\ ~Opened /\ r.pc \in Left \cup {"verdict"}
      /\ \A f \in Verdicts \cup {"challenge"} : ~Has(net["rcv"].q, f)
      /\ Head(net["snd"].q) = "good" => r.typed = "good"
      /\ ~Has(net["rcv"].q, "complete") /\ r.cause # "ok"
  BY TagRead DEF Tags
<1>3. /\ net' \in Net /\ net'["snd"].q = Tail(net["snd"].q)
      /\ net'["rcv"].q = Append(net["rcv"].q, "wrongPassword")
      /\ net'["rcv"].fin = TRUE
  <2> DEFINE k == Took("snd")
             n == Post(k, "snd", "wrongPassword")
  <2>1. k \in Net /\ k["snd"].q = Tail(net["snd"].q) /\ k["rcv"] = net["rcv"]
    BY <1>0, TookEffect DEF Sides, Other
  <2>2. "wrongPassword" \in Frames /\ "challenge" \in Frames
    BY DEF Frames, Codes
  <2> HIDE DEF k
  <2>3. n \in Net /\ n["snd"] = k["snd"] /\ n["rcv"].q = Append(k["rcv"].q, "wrongPassword") /\ n["rcv"].fin = k["rcv"].fin
    BY <2>1, <2>2, PostEffect
  <2> HIDE DEF n
  <2>4. net' = Shut(n, "snd")
    BY DEF n, k
  <2>5. /\ Shut(n, "snd") \in Net /\ Shut(n, "snd")["snd"] = n["snd"] /\ Shut(n, "snd")["rcv"].q = n["rcv"].q
        /\ Shut(n, "snd")["rcv"].fin = TRUE
    BY <2>3, ShutEffect
  <2> QED BY <2>1, <2>3, <2>4, <2>5
<1>4. Taken("snd") /\ \A t \in Tags : ~Has(net'["snd"].q, t)
  <2>1. net["snd"].q \in Seq(Frames) /\ net["snd"].q # <<>>
    BY <1>0 DEF SessionTypeOK, Sides, HasFrame
  <2>2. Taken("snd")
    BY <1>0, <1>3, <2>1, HasTail, QueueSteps DEF Taken, Sides
  <2> QED BY <2>2 DEF SInv, Gated, Taken, Tags
<1>5. OneMore("rcv", "wrongPassword")
  BY <1>0, <1>3, QueueSteps DEF Sides, Frames, Codes
<1>6. ~Opened'
  <2>1. ~Has(net'["rcv"].q, "listing") /\ ~Has(net'["rcv"].q, "verified")
    BY <1>2, <1>5 DEF Opened, OneMore
  <2> QED BY <1>1, <1>2, <2>1 DEF Opened, Sending
<1>t. SessionTypeOK'
  BY <1>0, <1>1, <1>2, <1>3, <1>4, <1>5 DEF SessionTypeOK, Net, Data
<1>a. AckCommitted'
  BY <1>0, <1>1, <1>2, <1>3, <1>4, <1>5 DEF SInv, AckCommitted, Left, Taken, Fewer, OneMore, SameCounts
<1>c. CompleteSent'
  BY <1>0, <1>1, <1>2, <1>3, <1>4, <1>5 DEF SInv, CompleteSent, Taken, Fewer, OneMore, SameCounts
<1>i. InOrder'
  BY <1>1, SameOrder DEF SInv, SameCounts
<1>g. Gated'
  BY <1>1, <1>2, <1>3, <1>4, <1>5, <1>6 DEF SInv, Gated, Tags, Verdicts, Asked, Left, Taken, Fewer, OneMore, SameCounts
<1>d. Departure'
  BY <1>0, <1>1, <1>2, <1>3, <1>4, <1>5 DEF SInv, Departure, Leaving, Taken, Fewer, OneMore, SameCounts
<1>p. Pending'
  BY <1>0, <1>1, <1>2, <1>3, <1>4, <1>5 DEF SInv, Pending, Left, Asked, Verdicts, FromReceiver, Taken, Fewer, OneMore, SameCounts
<1>o. Doubted'
  BY <1>0, <1>1, <1>2, <1>3, <1>4, <1>5 DEF SInv, Doubted, CloseComes, Transient, SameCounts
<1> QED BY <1>t, <1>a, <1>c, <1>i, <1>g, <1>d, <1>p, <1>o DEF SInv

\* An ERROR frame of the receiver ends Send with what it says.
LEMMA ErrorReadStep ==
  ASSUME SInv, HasFrame("snd"), Head(net["snd"].q) \in Codes, SendEnds(mapPeerError(Head(net["snd"].q)), Took("snd")),
         UNCHANGED <<opt, out, r, conn>>, s.pc \notin {"notify", "over", "drain"}
  PROVE  SInv'
<1>0. SessionTypeOK
  BY DEF SInv
<1> DEFINE f == Head(net["snd"].q)
<1>1. mapPeerError(f) \in Causes \ {"ok", "cancelled"}
  BY <1>0, ReadFrame
<1>2. f # "readFailed"
  BY <1>0, ReadFrame DEF SInv, AckCommitted
<1>3. mapPeerError(f) # "readFailed"
  BY <1>2 DEF mapPeerError
<1> QED BY <1>1, <1>3, SendEndsStep

\* Send reads the answer to its challenge.
LEMMA ReadResponseStep ==
  ASSUME SInv, readResponse
  PROVE  SInv'
<1>0. SessionTypeOK
  BY DEF SInv
<1>1. s.pc = "response" /\ HasFrame("snd") /\ UNCHANGED <<opt, out, r, conn>>
  BY DEF readResponse
<1> DEFINE f == Head(net["snd"].q)
           refused == Post(Took("snd"), "snd", "wrongPassword")
<1>2. CASE f = "good" /\ StartSending(Post(Took("snd"), "snd", "verified")) /\ UNCHANGED data
  BY <1>1, <1>2, OpensStep
<1>3. CASE /\ f = "bad" /\ s.tries < PasswordAttempts /\ s' = [s EXCEPT !.tries = s.tries + 1]
           /\ net' = Post(refused, "snd", "challenge") /\ UNCHANGED data
  BY <1>1, <1>3, AskAgainStep
<1>4. CASE f = "bad" /\ s' = [s EXCEPT !.pc = "drain", !.cause = "wrongPassword"] /\ net' = Shut(refused, "snd") /\ UNCHANGED data
  BY <1>1, <1>4, LastWrongStep
<1>5. CASE f \in Codes /\ SendEnds(mapPeerError(f), Took("snd"))
  BY <1>1, <1>5, ErrorReadStep
<1> QED BY <1>2, <1>3, <1>4, <1>5 DEF readResponse, verifyTag

\* Send answers a verify request.
LEMMA VerifyAnswerStep ==
  ASSUME SInv, s.pc = "negotiate", HasFrame("snd"), s.rounds # MaxVerifyRounds, s' = [s EXCEPT !.rounds = s.rounds + 1],
         net' = Post(Took("snd"), "snd", "verifyResponse"), UNCHANGED <<opt, out, r, data, conn>>
  PROVE  SInv'
<1>0. SessionTypeOK
  BY DEF SInv
<1>1. /\ s' \in Sender /\ s'.pc = s.pc /\ s'.tries = s.tries /\ s'.next = s.next /\ s'.ctx = s.ctx /\ s'.cause = s.cause
  <2>1. s \in Sender /\ s.rounds + 1 \in 0..MaxVerifyRounds
    BY <1>0, SessionAssumption DEF SessionTypeOK, Sender
  <2> QED BY <2>1 DEF Sender
<1>2. net' \in Net /\ net'["rcv"].fin = net["rcv"].fin /\ Taken("snd") /\ OneMore("rcv", "verifyResponse")
  BY <1>0, NetAnswer DEF Frames
<1>t. SessionTypeOK'
  BY <1>0, <1>1, <1>2 DEF SessionTypeOK, Net, Data
<1>a. AckCommitted'
  BY <1>0, <1>1, <1>2 DEF SInv, AckCommitted, Left, Taken, Fewer, OneMore
<1>c. CompleteSent'
  BY <1>0, <1>1, <1>2 DEF SInv, CompleteSent, Taken, Fewer, OneMore
<1>i. InOrder'
  BY <1>1, SameOrder DEF SInv
<1>g. Gated'
  BY <1>0, <1>1, <1>2 DEF SInv, Gated, Opened, Tags, Verdicts, Sending, Asked, Left, Taken, Fewer, OneMore
<1>d. Departure'
  BY <1>0, <1>1, <1>2 DEF SInv, Departure, Leaving, Taken, Fewer, OneMore
<1>p. Pending'
  BY <1>0, <1>1, <1>2 DEF SInv, Pending, Left, Asked, Verdicts, FromReceiver, Taken, Fewer, OneMore
<1>o. Doubted'
  BY <1>0, <1>1, <1>2 DEF SInv, Doubted, CloseComes, Transient
<1> QED BY <1>t, <1>a, <1>c, <1>i, <1>g, <1>d, <1>p, <1>o DEF SInv

\* Send learns what the receiver wants.
LEMMA DecidedStep ==
  ASSUME SInv, s.pc = "negotiate", HasFrame("snd"), NEW k \in {1, Chunks + 1},
         s' = [s EXCEPT !.pc = "data", !.next = k], net' = Took("snd"), UNCHANGED <<opt, out, r, data, conn>>
  PROVE  SInv'
<1>0. SessionTypeOK
  BY DEF SInv
<1>1. s' \in Sender /\ s'.pc = "data" /\ s'.tries = s.tries /\ s'.next = k /\ s'.ctx = s.ctx /\ s'.cause = s.cause
  <2>1. s \in Sender /\ k \in 1..(Chunks + 1)
    BY <1>0, SessionAssumption DEF SessionTypeOK
  <2> QED BY <2>1 DEF Sender
<1>2. net' \in Net /\ net'["rcv"] = net["rcv"] /\ Taken("snd")
  BY <1>0, NetTook
<1>3. s.next = 1 /\ ~(1 > Chunks) /\ Chunks + 1 > Chunks /\ ~(Chunks + 1 <= Chunks)
  BY SessionAssumption DEF SInv, CompleteSent
<1>4. InOrder'
  <2>1. CASE k = 1
    BY <1>1, <1>3, <2>1, SameOrder DEF SInv
  <2>2. CASE k = Chunks + 1
    BY <1>1, <1>3, <2>2 DEF SInv, InOrder
  <2> QED BY <2>1, <2>2
<1>t. SessionTypeOK'
  BY <1>0, <1>1, <1>2 DEF SessionTypeOK, Net, Data
<1>a. AckCommitted'
  BY <1>0, <1>1, <1>2 DEF SInv, AckCommitted, Left, Taken, Fewer
<1>c. CompleteSent'
  BY <1>0, <1>1, <1>2 DEF SInv, CompleteSent, Taken, Fewer
<1>i. InOrder'
  BY <1>4
<1>g. Gated'
  BY <1>0, <1>1, <1>2 DEF SInv, Gated, Opened, Tags, Verdicts, Sending, Asked, Left, Taken, Fewer
<1>d. Departure'
  BY <1>0, <1>1, <1>2 DEF SInv, Departure, Leaving, Taken, Fewer
<1>p. Pending'
  BY <1>0, <1>1, <1>2 DEF SInv, Pending, Left, Asked, Verdicts, FromReceiver, Taken, Fewer
<1>o. Doubted'
  BY <1>0, <1>1, <1>2 DEF SInv, Doubted, CloseComes, Transient
<1> QED BY <1>t, <1>a, <1>c, <1>i, <1>g, <1>d, <1>p, <1>o DEF SInv

\* Send reads a request or the decisions.
LEMMA ReadDecisionsStep ==
  ASSUME SInv, readDecisions
  PROVE  SInv'
<1>0. SessionTypeOK
  BY DEF SInv
<1>1. s.pc = "negotiate" /\ HasFrame("snd") /\ UNCHANGED <<opt, out, r, conn>>
  BY DEF readDecisions
<1> DEFINE f == Head(net["snd"].q)
           k == IF f = "nothing" THEN Chunks + 1 ELSE 1
<1>2. CASE SendEnds("protocol", Took("snd"))
  <2>1. "protocol" \in Causes
    BY DEF Causes
  <2> QED BY <1>1, <1>2, <2>1, SendEndsStep
<1>3. CASE /\ s.rounds # MaxVerifyRounds /\ s' = [s EXCEPT !.rounds = s.rounds + 1]
           /\ net' = Post(Took("snd"), "snd", "verifyResponse") /\ UNCHANGED data
  BY <1>1, <1>3, VerifyAnswerStep
<1>4. CASE s' = [s EXCEPT !.pc = "data", !.next = k] /\ net' = Took("snd") /\ UNCHANGED data
  <2>1. k \in {1, Chunks + 1}
    OBVIOUS
  <2> HIDE DEF k
  <2> QED BY <1>1, <1>4, <2>1, DecidedStep
<1>5. CASE f \in Codes /\ SendEnds(mapPeerError(f), Took("snd"))
  BY <1>1, <1>5, ErrorReadStep
<1> QED BY <1>2, <1>3, <1>4, <1>5 DEF readDecisions

\* A read of Send is cut.
LEMMA ReadFailedStep ==
  ASSUME SInv, readFailed
  PROVE  SInv'
<1>0. SessionTypeOK
  BY DEF SInv
<1>1. s.pc \in {"ack", "response", "negotiate", "acked"} /\ SendEnds(ReadCause, net) /\ UNCHANGED <<opt, out, r, conn>>
  BY DEF readFailed
<1>2. ReadError("snd") \in Causes \ {"ok", "readFailed"} /\ (ReadError("snd") = "cancelled" => s.ctx)
  BY <1>0, ReadErrorIs DEF Sides, Ctx
<1>3. ReadCause \in Causes \ {"ok", "readFailed"} /\ (ReadCause = "cancelled" => s.ctx)
  BY <1>2 DEF ReadCause, Causes, Codes
<1> QED BY <1>1, <1>3, SendEndsStep

\* The writer is done, and Send says so.
LEMMA CompleteStep ==
  ASSUME SInv, s.pc = "closing", s.cause = "none", s' = [s EXCEPT !.pc = "acked"],
         net' = Post(net, "snd", "complete"), UNCHANGED <<opt, out, r, data, conn>>
  PROVE  SInv'
<1>0. SessionTypeOK
  BY DEF SInv
<1>1. s' \in Sender /\ s'.pc = "acked" /\ SameCounts /\ s'.cause = s.cause
  BY <1>0 DEF SessionTypeOK, Sender, SameCounts
<1>2. net' \in Net /\ net'["snd"] = net["snd"] /\ net'["rcv"].fin = net["rcv"].fin /\ OneMore("rcv", "complete")
  BY <1>0, NetPost DEF Frames
<1>t. SessionTypeOK'
  BY <1>0, <1>1, <1>2 DEF SessionTypeOK, Net, Data
<1>a. AckCommitted'
  BY <1>0, <1>1, <1>2 DEF SInv, AckCommitted, Left, OneMore, SameCounts
<1>c. CompleteSent'
  BY <1>0, <1>1, <1>2 DEF SInv, CompleteSent, OneMore, SameCounts
<1>i. InOrder'
  BY <1>0, <1>1, <1>2 DEF SInv, InOrder, SameCounts
<1>g. Gated'
  BY <1>0, <1>1, <1>2 DEF SInv, Gated, Opened, Tags, Verdicts, Sending, Asked, Left, OneMore, SameCounts
<1>d. Departure'
  BY <1>0, <1>1, <1>2 DEF SInv, Departure, Leaving, OneMore, SameCounts
<1>p. Pending'
  BY <1>0, <1>1, <1>2 DEF SInv, Pending, Left, Asked, Verdicts, FromReceiver, OneMore, SameCounts
<1>o. Doubted'
  BY <1>0, <1>1, <1>2 DEF SInv, Doubted, CloseComes, Transient, SameCounts
<1> QED BY <1>t, <1>a, <1>c, <1>i, <1>g, <1>d, <1>p, <1>o DEF SInv

\* The writer failed, and Send looks for the reason.
LEMMA ReasonStep ==
  ASSUME SInv, s.pc = "closing", s.cause = "none", s' = [s EXCEPT !.pc = "reason"], UNCHANGED <<opt, out, r, net, data, conn>>
  PROVE  SInv'
<1>0. SessionTypeOK
  BY DEF SInv
<1>1. s' \in Sender /\ s'.pc = "reason" /\ SameCounts /\ s'.cause = s.cause
  BY <1>0 DEF SessionTypeOK, Sender, SameCounts
<1>t. SessionTypeOK'
  BY <1>0, <1>1 DEF SessionTypeOK, Net, Data
<1>a. AckCommitted'
  BY <1>0, <1>1 DEF SInv, AckCommitted, Left, SameCounts
<1>c. CompleteSent'
  BY <1>0, <1>1 DEF SInv, CompleteSent, SameCounts
<1>i. InOrder'
  BY <1>0, <1>1 DEF SInv, InOrder, SameCounts
<1>g. Gated'
  BY <1>0, <1>1 DEF SInv, Gated, Opened, Tags, Verdicts, Sending, Asked, Left, SameCounts
<1>d. Departure'
  BY <1>0, <1>1 DEF SInv, Departure, Leaving, SameCounts
<1>p. Pending'
  BY <1>0, <1>1 DEF SInv, Pending, Left, Asked, Verdicts, FromReceiver, SameCounts
<1>o. Doubted'
  BY <1>0, <1>1 DEF SInv, Doubted, CloseComes, Transient, SameCounts
<1> QED BY <1>t, <1>a, <1>c, <1>i, <1>g, <1>d, <1>p, <1>o DEF SInv

\* The packer is closed.
LEMMA PackerClosedStep ==
  ASSUME SInv, packerClosed
  PROVE  SInv'
<1>0. SessionTypeOK
  BY DEF SInv
<1>1. s.pc = "closing" /\ UNCHANGED <<opt, out, r, conn>> /\ s.cause \in {"none", "readFailed", "cancelled"}
  BY DEF packerClosed, SInv, CompleteSent
<1>2. CASE s.cause # "none"
  <2>1. SendEnds(s.cause, net)
    BY <1>2 DEF packerClosed
  <2>2. s.cause \in Causes /\ (s.cause = "readFailed" => opt.mode = "stream") /\ (s.cause = "cancelled" => s.ctx)
    BY <1>1 DEF SInv, Departure, Causes, Codes
  <2> QED BY <1>1, <1>2, <2>1, <2>2, SendEndsStep
<1>3. CASE s.cause = "none" /\ s' = [s EXCEPT !.pc = "reason"] /\ UNCHANGED <<net, data>>
  BY <1>1, <1>3, ReasonStep
<1>4. CASE s.cause = "none" /\ s' = [s EXCEPT !.pc = "acked"] /\ net' = Post(net, "snd", "complete") /\ UNCHANGED data
  BY <1>1, <1>4, CompleteStep
<1> QED BY <1>2, <1>3, <1>4 DEF packerClosed

\* Send ends with the reason the receiver posted, or with the writer's error.
LEMMA SendChunkErrStep ==
  ASSUME SInv, sendChunkErr
  PROVE  SInv'
<1>0. SessionTypeOK
  BY DEF SInv
<1>1. s.pc = "reason" /\ UNCHANGED <<opt, out, r, conn>>
  BY DEF sendChunkErr
<1>2. out.err \in Causes \ {"ok", "readFailed"} /\ (out.err = "cancelled" => s.ctx)
  BY DEF SInv, AckCommitted, Departure, Causes, Codes
<1>3. CASE HasFrame("snd") /\ Head(net["snd"].q) \in Codes /\ SendEnds(mapPeerError(Head(net["snd"].q)), Took("snd"))
  BY <1>1, <1>3, ErrorReadStep
<1>4. CASE HasFrame("snd") /\ SendEnds(out.err, Took("snd"))
  BY <1>1, <1>2, <1>4, SendEndsStep
<1>5. CASE SendEnds(out.err, net)
  BY <1>1, <1>2, <1>5, SendEndsStep
<1> QED BY <1>3, <1>4, <1>5 DEF sendChunkErr

\* Send reads the last acknowledgement.
LEMMA ReadTransferAckStep ==
  ASSUME SInv, readTransferAck
  PROVE  SInv'
<1>0. SessionTypeOK
  BY DEF SInv
<1> DEFINE f == Head(net["snd"].q)
           c == CASE f = "transferAck" -> "ok" [] f \in Codes -> mapPeerError(f) [] OTHER -> "protocol"
<1>1. s.pc = "acked" /\ HasFrame("snd") /\ UNCHANGED <<opt, out, r, conn>> /\ SendEnds(c, Took("snd"))
  BY DEF readTransferAck
<1>2. "transferAck" \notin Codes /\ "ok" \in Causes /\ "protocol" \in Causes
  BY DEF Codes, Causes
<1>3. CASE f = "transferAck"
  <2>1. c = "ok" /\ r.committed
    BY <1>0, <1>1, <1>2, <1>3, ReadFrame DEF SInv, AckCommitted
  <2> HIDE DEF c
  <2> QED BY <1>1, <1>2, <2>1, SendEndsStep
<1>4. CASE f \in Codes
  <2>1. c = mapPeerError(f)
    BY <1>2, <1>4
  <2> QED BY <1>1, <1>4, <2>1, ErrorReadStep
<1>5. CASE f # "transferAck" /\ f \notin Codes
  <2>1. c = "protocol"
    BY <1>5
  <2> HIDE DEF c
  <2> QED BY <1>1, <1>2, <2>1, SendEndsStep
<1> QED BY <1>3, <1>4, <1>5

\* The peer has ended its stream, or the wait is cut.
LEMMA NotifiedStep ==
  ASSUME SInv, notified
  PROVE  SInv'
<1>0. SessionTypeOK
  BY DEF SInv
<1>1. s.pc \in {"notify", "drain"} /\ UNCHANGED <<opt, out, r, conn>> /\ s' \in Sender /\ SameCounts /\ s'.cause = s.cause /\ s'.pc = "over"
  BY <1>0 DEF notified, SessionTypeOK, Sender, SameCounts
<1>2. data' \in Data /\ data'.q = data.q /\ data'.fin = TRUE
  BY <1>0 DEF notified, SessionTypeOK, Data
<1>3. net' \in Net /\ net'["snd"] = net["snd"] /\ net'["rcv"].q = net["rcv"].q /\ net'["rcv"].fin = TRUE
  <2>1. net' = Shut(net, "snd") /\ net \in Net
    BY <1>0 DEF notified, SessionTypeOK, Net
  <2> QED BY <2>1, ShutEffect
<1>t. SessionTypeOK'
  BY <1>0, <1>1, <1>2, <1>3 DEF SessionTypeOK, Net, Data
<1>a. AckCommitted'
  BY <1>0, <1>1, <1>2, <1>3 DEF SInv, AckCommitted, Left, SameCounts
<1>c. CompleteSent'
  BY <1>0, <1>1, <1>2, <1>3 DEF SInv, CompleteSent, SameCounts
<1>i. InOrder'
  BY <1>1, <1>2, SameOrder DEF SInv, SameCounts
<1>g. Gated'
  BY <1>0, <1>1, <1>2, <1>3 DEF SInv, Gated, Opened, Tags, Verdicts, Sending, Asked, Left, SameCounts
<1>d. Departure'
  BY <1>0, <1>1, <1>2, <1>3 DEF SInv, Departure, Leaving, SameCounts
<1>p. Pending'
  BY <1>0, <1>1, <1>2, <1>3 DEF SInv, Pending, Left, Asked, Verdicts, FromReceiver, SameCounts
<1>o. Doubted'
  BY <1>0, <1>1, <1>2, <1>3 DEF SInv, Doubted, CloseComes, Transient, SameCounts
<1> QED BY <1>t, <1>a, <1>c, <1>i, <1>g, <1>d, <1>p, <1>o DEF SInv

\* A frame is read and dropped on the way out.
LEMMA DrainedStep ==
  ASSUME SInv, drained
  PROVE  SInv'
<1>0. SessionTypeOK
  BY DEF SInv
<1>1. s.pc \in {"notify", "drain"} /\ UNCHANGED <<opt, s, out, r, data, conn>>
  BY DEF drained
<1>2. net' \in Net /\ net'["rcv"] = net["rcv"] /\ Taken("snd")
  BY <1>0, NetTook DEF drained
<1>t. SessionTypeOK'
  BY <1>0, <1>1, <1>2 DEF SessionTypeOK, Net, Data
<1>a. AckCommitted'
  BY <1>0, <1>1, <1>2 DEF SInv, AckCommitted, Left, Taken, Fewer
<1>c. CompleteSent'
  BY <1>0, <1>1, <1>2 DEF SInv, CompleteSent, Taken, Fewer
<1>i. InOrder'
  BY <1>0, <1>1, <1>2 DEF SInv, InOrder
<1>g. Gated'
  BY <1>0, <1>1, <1>2 DEF SInv, Gated, Opened, Tags, Verdicts, Sending, Asked, Left, Taken, Fewer
<1>d. Departure'
  BY <1>0, <1>1, <1>2 DEF SInv, Departure, Leaving, Taken, Fewer
<1>p. Pending'
  BY <1>0, <1>1, <1>2 DEF SInv, Pending, Left, Asked, Verdicts, FromReceiver, Taken, Fewer
<1>o. Doubted'
  BY <1>0, <1>1, <1>2 DEF SInv, Doubted, CloseComes, Transient
<1> QED BY <1>t, <1>a, <1>c, <1>i, <1>g, <1>d, <1>p, <1>o DEF SInv

\* The peer does not answer in time.
LEMMA NotifyTimesOutStep ==
  ASSUME SInv, notifyTimesOut
  PROVE  SInv'
<1>0. SessionTypeOK
  BY DEF SInv
<1>1. /\ s.pc = "notify" /\ s' \in Sender /\ SameCounts /\ s'.cause = s.cause /\ s'.pc = "over"
      /\ UNCHANGED <<opt, out, r, net, data, conn>>
  BY <1>0 DEF notifyTimesOut, SessionTypeOK, Sender, SameCounts
<1>t. SessionTypeOK'
  BY <1>0, <1>1 DEF SessionTypeOK, Net, Data
<1>a. AckCommitted'
  BY <1>0, <1>1 DEF SInv, AckCommitted, Left, SameCounts
<1>c. CompleteSent'
  BY <1>0, <1>1 DEF SInv, CompleteSent, SameCounts
<1>i. InOrder'
  BY <1>0, <1>1 DEF SInv, InOrder, SameCounts
<1>g. Gated'
  BY <1>0, <1>1 DEF SInv, Gated, Opened, Tags, Verdicts, Sending, Asked, Left, SameCounts
<1>d. Departure'
  BY <1>0, <1>1 DEF SInv, Departure, Leaving, SameCounts
<1>p. Pending'
  BY <1>0, <1>1 DEF SInv, Pending, Left, Asked, Verdicts, FromReceiver, SameCounts
<1>o. Doubted'
  BY <1>0, <1>1 DEF SInv, Doubted, CloseComes, Transient, SameCounts
<1> QED BY <1>t, <1>a, <1>c, <1>i, <1>g, <1>d, <1>p, <1>o DEF SInv

\* A close, or the idle timeout, ends the connection of a side.
LEMMA ConnStep ==
  ASSUME SInv, NEW me \in Sides, closeArrives(me) \/ idleTimeout(me)
  PROVE  SInv'
<1>0. SessionTypeOK
  BY DEF SInv
<1>1. /\ UNCHANGED <<opt, s, out, r, net, data>> /\ conn[me] = "open" /\ conn' \in [Sides -> {"open", "closed", "cancelClose", "drop"}]
      /\ conn'[me] \in {"closed", "cancelClose", "drop"} /\ (me = "snd" => conn'["rcv"] = conn["rcv"])
      /\ me = "rcv" /\ conn'["rcv"] = "closed" => s.pc = "over" /\ ~s.ctx
      /\ me = "rcv" /\ conn'["rcv"] = "cancelClose" => s.pc = "over" /\ s.ctx
  <2>1. conn \in [Sides -> {"open", "closed", "cancelClose", "drop"}]
    BY <1>0 DEF SessionTypeOK
  <2>2. CASE closeArrives(me)
    BY <2>1, <2>2 DEF closeArrives, Sides
  <2>3. CASE idleTimeout(me)
    BY <2>1, <2>3 DEF idleTimeout, Sides
  <2> QED BY <2>2, <2>3
<1>2. me = "snd" \/ me = "rcv"
  BY DEF Sides
<1>t. SessionTypeOK'
  BY <1>0, <1>1, <1>2 DEF SessionTypeOK, Net, Data
<1>a. AckCommitted'
  BY <1>0, <1>1, <1>2 DEF SInv, AckCommitted, Left
<1>c. CompleteSent'
  BY <1>0, <1>1, <1>2 DEF SInv, CompleteSent
<1>i. InOrder'
  BY <1>0, <1>1, <1>2 DEF SInv, InOrder
<1>g. Gated'
  BY <1>0, <1>1, <1>2 DEF SInv, Gated, Opened, Tags, Verdicts, Sending, Asked, Left
<1>d. Departure'
  BY <1>0, <1>1, <1>2 DEF SInv, Departure, Leaving
<1>p. Pending'
  BY <1>0, <1>1, <1>2 DEF SInv, Pending, Left, Asked, Verdicts, FromReceiver
<1>o. Doubted'
  BY <1>0, <1>1, <1>2 DEF SInv, Doubted, CloseComes, Transient
<1> QED BY <1>t, <1>a, <1>c, <1>i, <1>g, <1>d, <1>p, <1>o DEF SInv

\* Ctrl-C on the sender.
LEMMA CancelSendStep ==
  ASSUME SInv, cancelSend
  PROVE  SInv'
<1>0. SessionTypeOK
  BY DEF SInv
<1>1. /\ s.pc # "over" /\ s' \in Sender /\ s'.pc = s.pc /\ s'.tries = s.tries /\ s'.next = s.next /\ s'.cause = s.cause /\ s'.ctx = TRUE
      /\ UNCHANGED <<opt, out, r, net, data, conn>>
  BY <1>0 DEF cancelSend, SessionTypeOK, Sender
<1>t. SessionTypeOK'
  BY <1>0, <1>1 DEF SessionTypeOK, Net, Data
<1>a. AckCommitted'
  BY <1>0, <1>1 DEF SInv, AckCommitted, Left
<1>c. CompleteSent'
  BY <1>0, <1>1 DEF SInv, CompleteSent
<1>i. InOrder'
  BY <1>1, SameOrder DEF SInv
<1>g. Gated'
  BY <1>0, <1>1 DEF SInv, Gated, Opened, Tags, Verdicts, Sending, Asked, Left
<1>d. Departure'
  BY <1>0, <1>1 DEF SInv, Departure, Leaving
<1>p. Pending'
  BY <1>0, <1>1 DEF SInv, Pending, Left, Asked, Verdicts, FromReceiver
<1>o. Doubted'
  BY <1>0, <1>1 DEF SInv, Doubted, CloseComes, Transient
<1> QED BY <1>t, <1>a, <1>c, <1>i, <1>g, <1>d, <1>p, <1>o DEF SInv

\* Ctrl-C on the receiver.
LEMMA CancelRecvStep ==
  ASSUME SInv, cancelRecv
  PROVE  SInv'
<1>0. SessionTypeOK
  BY DEF SInv
<1>1. /\ r' \in Receiver /\ r'.pc = r.pc /\ r'.ctx = TRUE /\ UNCHANGED <<opt, s, out, net, data, conn>>
      /\ r'.tries = r.tries /\ r'.typed = r.typed /\ r'.asked = r.asked /\ r'.got = r.got /\ r'.skipped = r.skipped
      /\ r'.committed = r.committed /\ r'.cause = r.cause /\ r'.aborted = r.aborted
  BY <1>0 DEF cancelRecv, SessionTypeOK, Receiver
<1>t. SessionTypeOK'
  BY <1>0, <1>1 DEF SessionTypeOK, Net, Data
<1>a. AckCommitted'
  BY <1>0, <1>1 DEF SInv, AckCommitted, Left
<1>c. CompleteSent'
  BY <1>0, <1>1 DEF SInv, CompleteSent
<1>i. InOrder'
  BY <1>1, SameOrder DEF SInv
<1>g. Gated'
  BY <1>0, <1>1 DEF SInv, Gated, Opened, Tags, Verdicts, Sending, Asked, Left
<1>d. Departure'
  BY <1>0, <1>1 DEF SInv, Departure, Leaving
<1>p. Pending'
  BY <1>0, <1>1 DEF SInv, Pending, Left, Asked, Verdicts, FromReceiver
<1>o. Doubted'
  BY <1>0, <1>1 DEF SInv, Doubted, CloseComes, Transient
<1> QED BY <1>t, <1>a, <1>c, <1>i, <1>g, <1>d, <1>p, <1>o DEF SInv

-----------------------------------------------------------------------------
\* The invariant holds when the two engines start.
LEMMA InitInv == Init => SInv
<1> SUFFICES ASSUME Init PROVE SInv
  OBVIOUS
<1>1. /\ opt \in Options
      /\ s = [pc |-> "hello", tries |-> 0, rounds |-> 0, next |-> 1, cause |-> "none", ctx |-> FALSE, late |-> FALSE]
      /\ out = [q |-> <<>>, err |-> "none"]
      /\ r = [pc |-> "hello", tries |-> 0, rounds |-> 0, typed |-> "none", asked |-> FALSE, got |-> <<>>,
              skipped |-> FALSE, committed |-> FALSE, cause |-> "none", ctx |-> FALSE, aborted |-> FALSE]
      /\ net = [me \in Sides |-> [q |-> <<>>, fin |-> FALSE]]
      /\ data = [q |-> <<>>, fin |-> FALSE, stop |-> FALSE]
      /\ conn = [me \in Sides |-> "open"]
  BY DEF Init
<1>2. /\ net["snd"].q = <<>> /\ net["rcv"].q = <<>> /\ ~net["rcv"].fin /\ conn["rcv"] = "open"
      /\ data.q = <<>> /\ ~data.fin /\ out.q = <<>> /\ out.err = "none" /\ r.got = <<>>
  BY <1>1 DEF Sides
<1>3. /\ Len(r.got) = 0 /\ Len(data.q) = 0 /\ Len(out.q) = 0
      /\ \A f : ~Has(net["snd"].q, f) /\ ~Has(net["rcv"].q, f) /\ ~Has(data.q, f)
      /\ \A F : AtMostOne(net["snd"].q, F) /\ AtMostOne(net["rcv"].q, F)
  BY <1>2 DEF Has, AtMostOne
<1>4. SessionTypeOK
  <2>1. s \in Sender
    BY <1>1, SessionAssumption DEF Sender, Causes
  <2>2. out \in [q : Seq(Skip..Chunks), err : Causes] /\ Len(out.q) <= PackerQueue
    BY <1>1, <1>3, SessionAssumption DEF Causes
  <2>3. r \in Receiver
    BY <1>1, SessionAssumption DEF Receiver, Causes
  <2>4. net \in [Sides -> [q : Seq(Frames), fin : BOOLEAN]]
    BY <1>1
  <2>5. data \in [q : Seq(Chunk), fin : BOOLEAN, stop : BOOLEAN] /\ Len(data.q) <= Window + 1
    BY <1>1, <1>3, SessionAssumption
  <2>6. conn \in [Sides -> {"open", "closed", "cancelClose", "drop"}]
    BY <1>1
  <2> QED BY <1>1, <2>1, <2>2, <2>3, <2>4, <2>5, <2>6 DEF SessionTypeOK
<1>5. InOrder
  <2>1. s.next = 1 /\ ~r.skipped /\ r.pc = "hello" /\ ~r.committed
    BY <1>1
  <2> QED BY <1>3, <2>1 DEF InOrder
<1>6. /\ s.pc = "hello" /\ s.tries = 0 /\ s.next = 1 /\ s.cause = "none" /\ r.pc = "hello" /\ r.tries = 0 /\ r.cause = "none"
      /\ ~r.committed /\ ~r.aborted
  BY <1>1
<1>7. AckCommitted /\ CompleteSent
  BY <1>2, <1>3, <1>6 DEF AckCommitted, CompleteSent
<1>8. Gated
  BY <1>2, <1>3, <1>6 DEF Gated, Opened, Sending, Asked
<1>9. Departure /\ Pending /\ Doubted
  BY <1>2, <1>3, <1>6 DEF Departure, Pending, Doubted, Asked, Left
<1> QED BY <1>4, <1>5, <1>7, <1>8, <1>9 DEF SInv

\* Every step of the two engines, of the writer and of the world keeps the invariant.
LEMMA NextInv == SInv /\ [Next]_vars => SInv'
<1> SUFFICES ASSUME SInv, [Next]_vars PROVE SInv'
  OBVIOUS
<1>1. CASE SendSteps
  <2>1. CASE hello \/ readAck \/ readResponse \/ readDecisions \/ readFailed
    BY <2>1, HelloStep, ReadAckStep, ReadResponseStep, ReadDecisionsStep, ReadFailedStep
  <2>2. CASE appendBytes \/ skipFile \/ chunkError \/ packerClosed \/ sendChunkErr \/ readTransferAck
    BY <2>2, AppendStep, SkipStep, ChunkErrorStep, PackerClosedStep, SendChunkErrStep, ReadTransferAckStep
  <2>3. CASE \E c \in {"none", "readFailed", "cancelled"} : closePacker(c)
    BY <2>3, ClosePackerStep
  <2>4. CASE notified \/ drained
    BY <2>4, NotifiedStep, DrainedStep
  <2> QED BY <1>1, <2>1, <2>2, <2>3, <2>4 DEF SendSteps
<1>2. CASE WriterSteps
  BY <1>2, WriteChunkStep, TakeChunkStep, WriteFailsStep DEF WriterSteps
<1>3. CASE RecvSteps
  <2>1. CASE readHello \/ readChallenge \/ readVerdict \/ readListing \/ requestVerify \/ readVerify
    BY <2>1, ReadHelloStep, ReadChallengeStep, ReadVerdictStep, ReadListingStep, RequestVerifyStep, ReadVerifyStep
  <2>2. CASE \E ok \in BOOLEAN : acceptStream(ok) \/ sendDecisions(ok)
    BY <2>2, AcceptStreamStep, SendDecisionsStep
  <2>3. CASE \E tag \in {"good", "bad"} : respond(tag)
    BY <2>3, RespondStep
  <2>4. CASE \E c \in {"declined", "diskFull"} : decline(c)
    BY <2>4, DeclineActionStep
  <2>5. CASE \E c \in {"none", "targetExists", "writeFailed"} : openTarget(c)
    BY <2>5, OpenTargetStep, OpenTargetFailsStep
  <2>6. CASE \E c \in {"none", "writeFailed"} : commit(c)
    BY <2>6, CommitStep, CommitFailsStep
  <2>7. CASE \E c \in {"writeFailed", "diskFull"} : writeDataFails(c)
    BY <2>7, WriteDataFailsStep
  <2>8. CASE writeData \/ readSkip \/ readTorn \/ readEOF \/ tryReadPeerError \/ dataFails
    BY <2>8, WriteDataStep, SkippedStep, CannotSkipStep, TornStep, ReadEOFStep, WhyStep, DataFailsStep
  <2>9. CASE finishRecv \/ recvFails \/ drainControl \/ grace \/ promptAborts
    BY <2>9, FinishRecvStep, RecvFailsStep, DrainControlStep, GraceStep, PromptAbortsStep
  <2> QED BY <1>3, <2>1, <2>2, <2>3, <2>4, <2>5, <2>6, <2>7, <2>8, <2>9 DEF RecvSteps
<1>4. CASE notifyTimesOut \/ cancelSend \/ cancelRecv
  BY <1>4, NotifyTimesOutStep, CancelSendStep, CancelRecvStep
<1>5. CASE \E me \in Sides : closeArrives(me) \/ idleTimeout(me)
  BY <1>5, ConnStep
<1>6. CASE UNCHANGED vars
  BY <1>6 DEF vars, SInv, SessionTypeOK, AckCommitted, CompleteSent, InOrder, Gated, Opened, Departure, Leaving, Pending,
              Doubted, CloseComes
<1> QED BY <1>1, <1>2, <1>3, <1>4, <1>5, <1>6 DEF Next

\* SInv holds in every state of an attempt.
THEOREM Invariance == Spec => []SInv
  BY InitInv, NextInv, PTL DEF Spec

\* Types, and the bounds of the packer's queue (chunkPacker) and of the data
\* stream, hold in every state.
THEOREM SessionTypeCorrect == Spec => []SessionTypeOK
<1>1. SInv => SessionTypeOK
  BY DEF SInv
<1> QED BY <1>1, Invariance, PTL

\* A reported success is one on both sides: the receiver has committed all it
\* asked for, in order and once, whatever ended early, late or was cancelled
\* (packer.Close, finishRecv, readTransferAck).
THEOREM SuccessCorrect == Spec => []SuccessIsShared
<1>1. ASSUME SInv PROVE SuccessIsShared
  <2>1. s.cause = "ok" => r.committed
    BY <1>1 DEF SInv, AckCommitted
  <2>2. r.cause = "ok" => s.cause # "readFailed"
    BY <1>1 DEF SInv, CompleteSent
  <2>3. ASSUME r.committed, ~r.skipped, r.asked PROVE r.got = Whole
    <3>1. r.got \in Seq(1..Chunks)
      BY <1>1 DEF SInv, SessionTypeOK, Receiver
    <3>2. Len(r.got) = Chunks /\ \A i \in 1..Len(r.got) : r.got[i] = i
      BY <1>1, <2>3 DEF SInv, InOrder
    <3>3. r.got = [i \in 1..Len(r.got) |-> r.got[i]]
      BY <3>1
    <3> QED BY <3>2, <3>3 DEF Whole
  <2> QED BY <2>1, <2>2, <2>3 DEF SuccessIsShared
<1> QED BY <1>1, Invariance, PTL

\* Nothing of the transfer is on the wire before the right password, and no more
\* passwords are asked for than the sender counts (senderPasswordHandshake).
THEOREM GateCorrect == Spec => []GateHeld
<1>1. ASSUME SInv PROVE GateHeld
  BY <1>1 DEF SInv, Gated, Opened, GateHeld, Has
<1> QED BY <1>1, Invariance, PTL

\* A sender's Ctrl-C never looks like a drop that the receiver would retry
\* (runSenderTransferLoop, PeerCancelled).
THEOREM CancelCorrect == Spec => []CancelNotRetried
<1>1. ASSUME SInv PROVE CancelNotRetried
  BY <1>1 DEF SInv, Doubted, Departure, CancelNotRetried, Sides
<1> QED BY <1>1, Invariance, PTL

-----------------------------------------------------------------------------
(* SameOutcome.  While nothing disturbs them the two engines are in step: each *)
(* has at most two frames to read, and the place of one tells where the other  *)
(* can be.  OInv is that table for as long as the receiver is at work, and for *)
(* after it has left what the sender has been told, or will find on its queue. *)

Just(f) == <<f>>
Both(f, g) == <<f, g>>
Ended == {"notify", "drain", "over"}
FolderCodes == {"writeFailed", "diskFull", "targetExists"}

\* What the sender and the receiver have still to read.
Wire(x, y) == net["snd"].q = x /\ net["rcv"].q = y

\* The last frame of a sender in its data phase.
Last == CASE s.pc = "acked" -> Just("complete")
          [] s.pc = "notify" -> Just("readFailed")
          [] OTHER -> <<>>

\* Nobody ends but for a reason, and nobody is alone.
Clear ==
    /\ \A me \in Sides : conn[me] \in {"open", "closed"}
    /\ conn["rcv"] = "closed" => s.pc = "over"
    /\ conn["snd"] = "closed" => r.pc = "over"
    /\ s.pc = "over" => r.pc \in Left
    /\ r.pc # "grace" /\ ~r.aborted
    /\ r.pc = "drain" => r.cause \notin {"cancelled", "cancelClose"}
    /\ data.stop \/ out.err # "none" \/ net["snd"].fin => r.pc \in Left
    /\ out.err \in {"none", "closed"}
    /\ s.pc = "reason" => out.err = "closed"
    /\ s.cause = "readFailed" => s.next <= Chunks
    /\ s.cause # "none" => s.pc \in Ended \/ s.cause = "readFailed"
    /\ s.cause # "cancelled"
    /\ s.pc = "notify" => s.cause = "readFailed"
    /\ net["rcv"].fin <=> s.pc \in Ended

\* Whose turn it is, by the place of the receiver.
Greeting ==
    /\ r.pc = "hello" =>
         \/ s.pc = "hello" /\ Wire(<<>>, <<>>)
         \/ s.pc = "ack" /\ net["snd"].q = <<>> /\ net["rcv"].q \in {Just("hello"), Just("foreign")}
    /\ r.pc = "accept" => s.pc = "ack" /\ Wire(<<>>, <<>>) /\ opt.mode = "stream"
Asking ==
    /\ r.pc = "challenge" =>
         \/ s.pc = "ack" /\ Wire(Just("ack"), <<>>)
         \/ s.pc = "response" /\ Wire(<<>>, Just("challenge")) /\ s.tries = r.tries + 1
    /\ r.pc = "type" => s.pc = "response" /\ Wire(<<>>, <<>>) /\ s.tries = r.tries
    /\ r.pc = "verdict" =>
         \/ s.pc = "response" /\ s.tries = r.tries /\ net["rcv"].q = <<>>
               /\ net["snd"].q \in {Just("good"), Just("bad")}
         \/ s.pc = "response" /\ s.tries = r.tries + 1 /\ Wire(<<>>, Both("wrongPassword", "challenge"))
         \/ s.pc = "drain" /\ s.tries = r.tries /\ s.tries = PasswordAttempts /\ Wire(<<>>, Just("wrongPassword"))
         \/ s.pc = "negotiate" /\ Wire(<<>>, Both("verified", "listing"))
         \/ s.pc \in {"data", "closing"} /\ opt.mode = "stream" /\ Wire(<<>>, Just("verified"))
         \/ s.pc = "acked" /\ opt.mode = "stream" /\ Wire(<<>>, Both("verified", "complete"))
         \/ s.pc = "notify" /\ opt.mode = "stream" /\ Wire(<<>>, Both("verified", "readFailed"))
Negotiating ==
    /\ r.pc # "verify" => s.rounds = r.rounds
    /\ r.pc \in {"listing", "decide", "verify"} => opt.mode # "stream"
    /\ r.pc = "listing" =>
         \/ s.pc = "ack" /\ Wire(Just("ack"), <<>>)
         \/ s.pc = "negotiate" /\ Wire(<<>>, Just("listing"))
    /\ r.pc = "decide" => s.pc = "negotiate" /\ Wire(<<>>, <<>>)
    /\ r.pc = "verify" => s.pc = "negotiate" /\
         (\/ Wire(Just("verifyRequest"), <<>>) /\ s.rounds + 1 = r.rounds
          \/ Wire(<<>>, Just("verifyResponse")) /\ s.rounds = r.rounds)
Moving ==
    /\ r.pc = "target" => opt.mode = "stream"
    /\ r.pc \in {"target", "data"} =>
         \/ s.pc = "ack" /\ Wire(Just("ack"), <<>>) /\ opt.mode = "stream"
         \/ r.pc = "data" /\ s.pc = "negotiate" /\ Wire(Just("decisions"), <<>>)
         \/ s.pc \in {"data", "closing", "acked", "notify"} /\ Wire(<<>>, Last)
    /\ r.pc = "why" => s.pc = "notify" /\ Wire(<<>>, Just("readFailed"))
    /\ r.pc \in {"commit", "complete"} =>
         \/ s.pc = "negotiate" /\ Wire(Just("nothing"), <<>>)
         \/ s.pc \in {"data", "closing", "acked"} /\ s.cause = "none" /\ s.next > Chunks /\ Wire(<<>>, Last)
Turn == Greeting /\ Asking /\ Negotiating /\ Moving

\* The receiver before it leaves.
AtWork == {"hello", "accept", "challenge", "type", "verdict", "listing", "decide", "verify", "target", "data", "why",
           "commit", "complete"}

\* The receiver has left, and its reason is what the sender reads next.
Told ==
    \/ s.pc = "ack" /\ net["snd"].q = Just("foreign") /\ r.cause = "incompatible"
    \/ s.pc = "ack" /\ net["snd"].q = Just("nack") /\ r.cause = "declined"
    \/ s.pc = "ack" /\ net["snd"].q = Both("ack", r.cause) /\ r.cause \in FolderCodes
         /\ opt.mode = "stream" /\ ~opt.password
    \/ s.pc = "negotiate" /\ net["snd"].q = Both("nothing", r.cause) /\ r.cause \in Codes
    \/ s.pc = "response" /\ net["snd"].q = Just(r.cause) /\ r.cause \in Codes
    \/ s.pc \in Sending /\ net["snd"].q = Just(r.cause) /\ r.cause \in Codes
         /\ (opt.mode = "stream" => r.cause \in FolderCodes)
    \/ s.pc = "acked" /\ net["snd"].q = Just("transferAck") /\ r.cause = "ok"

\* The receiver has left.
Agreed == s.pc \in Ended /\ s.cause = r.cause
BothFailed == s.cause = "readFailed" /\ r.cause \in FolderCodes
SinkGone ==
    /\ r.pc = "over" /\ r.cause = "readFailed" /\ opt.mode \in {"raw", "tar"} /\ net["snd"].q = <<>>
    /\ \/ s.pc \in {"data", "closing", "reason", "acked"} /\ s.cause = "none"
       \/ s.pc = "over" /\ s.cause \in Transient
WillBeTold ==
    /\ r.pc = "drain" /\ s.pc \notin Ended /\ s.cause = "none"
    /\ r.cause \notin Transient \cup {"cancelled", "cancelClose"} /\ Told
GaveUp == r.pc = "over" /\ r.cause = "wrongPassword" /\ s.pc = "response" /\ s.tries > 1 /\ net["snd"].q = <<>>
Parted == Agreed \/ BothFailed \/ SinkGone \/ WillBeTold \/ GaveUp

OInv == Undisturbed => /\ Clear
                       /\ r.pc \notin Left => Turn
                       /\ r.pc \in Left => Parted

\* A stream is not skipped.
NoSkips == opt.mode = "stream" => ~Has(out.q, Skip) /\ ~Has(data.q, Skip)

-----------------------------------------------------------------------------
\* Queues of one and of two frames.
LEMMA ShortQueues ==
  ASSUME NEW f, NEW g
  PROVE  /\ Just(f) # <<>> /\ Head(Just(f)) = f /\ Tail(Just(f)) = <<>>
         /\ Both(f, g) # <<>> /\ Head(Both(f, g)) = f /\ Tail(Both(f, g)) = Just(g)
         /\ Append(<<>>, f) = Just(f) /\ Append(Just(f), g) = Both(f, g)
<1>1. Just(f) # <<>> /\ Head(Just(f)) = f /\ Tail(Just(f)) = <<>>
  BY DEF Just
<1>2. Both(f, g) # <<>> /\ Head(Both(f, g)) = f /\ Tail(Both(f, g)) = Just(g)
  BY DEF Just, Both
<1>3. Append(<<>>, f) = Just(f) /\ Append(Just(f), g) = Both(f, g)
  <2>1. <<>> \in Seq({f, g}) /\ <<f>> \in Seq({f, g}) /\ <<f, g>> \in Seq({f, g})
    OBVIOUS
  <2>2. Append(<<>>, f) = <<f>>
    BY <2>1
  <2>3. Append(<<f>>, g) = <<f, g>>
    <3> DEFINE p == Append(<<f>>, g)
               q == <<f, g>>
    <3>1. p \in Seq({f, g}) /\ Len(p) = 2 /\ p[1] = f /\ p[2] = g
      BY <2>1
    <3>2. q \in Seq({f, g}) /\ Len(q) = 2 /\ q[1] = f /\ q[2] = g
      BY <2>1
    <3> HIDE DEF p, q
    <3>3. \A i \in 1..2 : p[i] = q[i]
      BY <3>1, <3>2
    <3>4. p = [i \in 1..2 |-> p[i]] /\ q = [i \in 1..2 |-> q[i]]
      BY <3>1, <3>2
    <3>5. p = q
      BY <3>3, <3>4
    <3> QED BY <3>5 DEF p, q
  <2> QED BY <2>2, <2>3 DEF Just, Both
<1> QED BY <1>1, <1>2, <1>3

\* What reading a frame, and answering it, does to the two queues.
LEMMA QueuesRead ==
  ASSUME SessionTypeOK, NEW f \in Frames
  PROVE  /\ HasFrame("snd") =>
              /\ Took("snd")["snd"].q = Tail(net["snd"].q) /\ Took("snd")["rcv"].q = net["rcv"].q
              /\ Took("snd")["snd"].fin = net["snd"].fin /\ Took("snd")["rcv"].fin = net["rcv"].fin
              /\ Post(Took("snd"), "snd", f)["snd"].q = Tail(net["snd"].q)
              /\ Post(Took("snd"), "snd", f)["rcv"].q = Append(net["rcv"].q, f)
              /\ Post(Took("snd"), "snd", f)["snd"].fin = net["snd"].fin
              /\ Post(Took("snd"), "snd", f)["rcv"].fin = net["rcv"].fin
         /\ HasFrame("rcv") =>
              /\ Took("rcv")["rcv"].q = Tail(net["rcv"].q) /\ Took("rcv")["snd"].q = net["snd"].q
              /\ Took("rcv")["rcv"].fin = net["rcv"].fin /\ Took("rcv")["snd"].fin = net["snd"].fin
              /\ Post(Took("rcv"), "rcv", f)["rcv"].q = Tail(net["rcv"].q)
              /\ Post(Took("rcv"), "rcv", f)["snd"].q = Append(net["snd"].q, f)
              /\ Post(Took("rcv"), "rcv", f)["rcv"].fin = net["rcv"].fin
              /\ Post(Took("rcv"), "rcv", f)["snd"].fin = net["snd"].fin
         /\ Post(net, "snd", f)["rcv"].q = Append(net["rcv"].q, f) /\ Post(net, "snd", f)["snd"] = net["snd"]
         /\ Post(net, "snd", f)["rcv"].fin = net["rcv"].fin
         /\ Post(net, "rcv", f)["snd"].q = Append(net["snd"].q, f) /\ Post(net, "rcv", f)["rcv"] = net["rcv"]
         /\ Post(net, "rcv", f)["snd"].fin = net["snd"].fin
<1>1. \A n \in Net :
         /\ Post(n, "snd", f)["snd"] = n["snd"] /\ Post(n, "rcv", f)["rcv"] = n["rcv"]
         /\ Post(n, "snd", f)["rcv"].q = Append(n["rcv"].q, f) /\ Post(n, "rcv", f)["snd"].q = Append(n["snd"].q, f)
         /\ Post(n, "snd", f)["rcv"].fin = n["rcv"].fin /\ Post(n, "rcv", f)["snd"].fin = n["snd"].fin
  BY PostEffect
<1>2. net \in Net
  BY DEF SessionTypeOK, Net
<1>3. HasFrame("snd") => /\ Took("snd") \in Net /\ Took("snd")["rcv"] = net["rcv"]
                         /\ Took("snd")["snd"].q = Tail(net["snd"].q) /\ Took("snd")["snd"].fin = net["snd"].fin
  BY TookEffect DEF Sides, Other
<1>4. HasFrame("rcv") => /\ Took("rcv") \in Net /\ Took("rcv")["snd"] = net["snd"]
                         /\ Took("rcv")["rcv"].q = Tail(net["rcv"].q) /\ Took("rcv")["rcv"].fin = net["rcv"].fin
  BY TookEffect DEF Sides, Other
<1> QED BY <1>1, <1>2, <1>3, <1>4

\* Nothing that disturbed the engines has gone away.
LEMMA StillCalm ==
  ASSUME Undisturbed', s'.ctx = s.ctx, r'.ctx = r.ctx, s'.late = s.late, conn' = conn
  PROVE  Undisturbed
  BY DEF Undisturbed

\* While nothing disturbs it, what cuts a read is the end of the other side.
LEMMA CalmRead ==
  ASSUME SInv, OInv, Undisturbed
  PROVE  /\ Clear
         /\ ~s.ctx /\ ~r.ctx
         /\ ReadFails("snd") => r.pc \in Left /\ (r.pc = "over" \/ net["snd"].q = <<>>)
         /\ ReadFails("rcv") => s.pc \in Ended /\ (s.pc = "over" \/ net["rcv"].q = <<>>)
         /\ r.pc \notin Left => conn["rcv"] = "open" /\ conn["snd"] = "open" /\ s.pc # "over"
         /\ ReadError("snd") \in Transient
<1>1. Clear /\ ~s.ctx /\ ~r.ctx
  BY DEF OInv, Undisturbed
<1>2. conn["snd"] \in {"open", "closed"} /\ conn["rcv"] \in {"open", "closed"}
  BY <1>1 DEF Clear, Sides
<1>3. ReadError("snd") \in Transient
  BY <1>1, <1>2 DEF ReadError, Ctx, Transient
<1>4. ReadFails("snd") => r.pc \in Left /\ (r.pc = "over" \/ net["snd"].q = <<>>)
  BY <1>1, <1>2 DEF ReadFails, EndOfStream, Ctx, Clear, Left
<1>5. ReadFails("rcv") => s.pc \in Ended /\ (s.pc = "over" \/ net["rcv"].q = <<>>)
  BY <1>1, <1>2 DEF ReadFails, EndOfStream, Ctx, Clear, Ended
<1>6. r.pc \notin Left => conn["rcv"] = "open" /\ conn["snd"] = "open" /\ s.pc # "over"
  BY <1>1, <1>2 DEF Clear, Left
<1> QED BY <1>1, <1>3, <1>4, <1>5, <1>6

-----------------------------------------------------------------------------
\* Send returns after Recv has.
LEMMA SendEndsTold ==
  ASSUME SInv, OInv, Undisturbed', NEW cause \in Causes, NEW n, n = net \/ (HasFrame("snd") /\ n = Took("snd")),
         SendEnds(cause, n), UNCHANGED <<opt, out, r, conn>>,
         s.pc \notin Ended, r.pc \in Left, cause # "cancelled",
         cause = "readFailed" => s.next <= Chunks,
         \/ cause = r.cause
         \/ cause = "readFailed" /\ r.cause \in FolderCodes
         \/ SinkGone /\ cause \in Transient /\ n = net
  PROVE  OInv'
<1>0. SessionTypeOK
  BY DEF SInv
<1>1. n \in Net /\ n["rcv"] = net["rcv"] /\ n["snd"].fin = net["snd"].fin
  BY <1>0, TookEffect DEF SessionTypeOK, Net, Sides, Other
<1>2. /\ SameCounts /\ s'.late = s.late /\ s'.cause = cause
      /\ s'.pc = IF cause \in {"cancelled", "readFailed"} THEN "notify" ELSE "over"
      /\ net'["snd"] = n["snd"] /\ net'["rcv"].fin = TRUE
      /\ data'.stop = data.stop
  BY <1>0, <1>1, SendEndsEffect
<1>3. Undisturbed
  BY <1>2, StillCalm DEF SameCounts
<1>4. Clear
  BY <1>3 DEF OInv
<1>5. Clear'
  BY <1>1, <1>2, <1>4 DEF Clear, SameCounts, Ended
<1>6. Parted'
  BY <1>2 DEF Parted, Agreed, BothFailed, SinkGone, Ended, Transient
<1> QED BY <1>5, <1>6 DEF OInv

\* Recv leaves with a last frame.
LEMMA LastWordTold ==
  ASSUME SInv, OInv, Undisturbed', NEW cause \in Causes, NEW n, n = net \/ (HasFrame("rcv") /\ n = Took("rcv")),
         NEW f \in Frames,
         r'.pc = "drain", r'.cause = cause, r'.ctx = r.ctx, r'.aborted => conn["rcv"] # "open",
         cause \notin {"cancelled", "cancelClose"}, net' = Shut(Post(n, "rcv", f), "rcv"),
         UNCHANGED <<opt, s, out, conn>>, r.pc \notin Left,
         net'["snd"].q = Append(net["snd"].q, f) => Parted'
  PROVE  OInv'
<1>0. SessionTypeOK
  BY DEF SInv
<1>1. n \in Net /\ n["snd"] = net["snd"] /\ n["rcv"].fin = net["rcv"].fin
  BY <1>0, TookEffect DEF SessionTypeOK, Net, Sides, Other
<1>2. /\ Post(n, "rcv", f) \in Net /\ Post(n, "rcv", f)["rcv"] = n["rcv"]
      /\ Post(n, "rcv", f)["snd"].q = Append(net["snd"].q, f)
  BY <1>1, PostEffect
<1>3. net'["rcv"] = n["rcv"] /\ net'["snd"].q = Append(net["snd"].q, f)
  BY <1>2, ShutEffect
<1>4. Undisturbed
  BY StillCalm
<1>5. Clear /\ conn["rcv"] = "open" /\ conn["snd"] = "open"
  BY <1>4, CalmRead
<1>6. Clear'
  BY <1>1, <1>3, <1>5 DEF Clear, Left
<1> QED BY <1>3, <1>6 DEF OInv, Left

\* Recv leaves without a word.
LEMMA ReturnsTold ==
  ASSUME SInv, OInv, Undisturbed', NEW cause \in Causes, NEW n, n = net \/ (HasFrame("rcv") /\ n = Took("rcv")),
         Returns(cause, n), UNCHANGED <<opt, s, out, conn>>,
         r.pc \notin {"grace", "over"},
         cause \notin Transient \cup {"cancelled", "cancelClose"},
         \/ s.pc \in Ended /\ s.cause = cause
         \/ s.cause = "readFailed" /\ cause \in FolderCodes
         \/ /\ cause = "readFailed" /\ opt.mode \in {"raw", "tar"} /\ net["snd"].q = <<>>
            /\ s.pc \in {"data", "closing", "reason", "acked"} /\ s.cause = "none"
         \/ cause = "wrongPassword" /\ s.pc = "response" /\ s.tries > 1 /\ net["snd"].q = <<>>
  PROVE  OInv'
<1>0. SessionTypeOK
  BY DEF SInv
<1>1. n \in Net /\ n["rcv"].fin = net["rcv"].fin /\ n["snd"] = net["snd"]
  BY <1>0, TookEffect DEF SessionTypeOK, Net, Sides, Other
<1>2. /\ r' \in Receiver /\ SameRecv /\ r'.aborted = r.aborted
      /\ r'.pc \in {"grace", "over"}
      /\ r'.pc = "grace" => r'.cause = cause /\ ~r.ctx /\ (r.aborted \/ conn["rcv"] # "open" \/ cause \in Transient)
      /\ r'.pc = "over" => r'.cause = cause \/ (cause = "cancelClose" /\ r'.cause = "peerCancelled")
      /\ net'["rcv"] = n["rcv"] /\ net'["snd"].q = net["snd"].q
  BY <1>0, <1>1, ReturnsEffect
<1>3. Undisturbed
  BY <1>2, StillCalm DEF SameRecv
<1>4. Clear /\ ~s.ctx /\ ~r.ctx
  BY <1>3, CalmRead
<1>5. r'.pc = "over" /\ r'.cause = cause
  <2> DEFINE x == [r EXCEPT !.cause = cause]
  <2>1. x.aborted = r.aborted /\ x.cause = cause /\ x.ctx = r.ctx
    BY <1>0 DEF SessionTypeOK, Receiver
  <2>2. ~Doubtful(x)
    BY <1>4, <2>1 DEF Doubtful, ConnLost, Clear, Transient
  <2>3. r'.pc # "grace"
    <3>1. x \in Receiver
      BY <1>0 DEF SessionTypeOK, Receiver
    <3>2. RecvOver(x, IF x.cause = "cancelClose" /\ ~x.ctx THEN "peerCancelled" ELSE x.cause, n)
      BY <2>2 DEF Returns, RecvEnds
    <3> HIDE DEF x
    <3> QED BY <3>1, <3>2 DEF RecvOver, Receiver
  <2> QED BY <1>2, <2>3
<1>6. Clear'
  BY <1>1, <1>2, <1>4, <1>5 DEF Clear, Left
<1>7. Parted'
  BY <1>2, <1>5 DEF Parted, Agreed, BothFailed, SinkGone, GaveUp, Ended
<1> QED BY <1>5, <1>6, <1>7 DEF OInv, Left

\* What a sender finds once the receiver has left: the reason on its queue, or
\* the end of a receiver that had no reason to give.
LEMMA SenderFinds ==
  ASSUME SInv, OInv, Undisturbed, s.pc \notin Ended, s.cause = "none", r.pc \in Left
  PROVE  /\ WillBeTold \/ SinkGone \/ GaveUp
         /\ net["snd"].q # <<>> => WillBeTold
         /\ ReadFails("snd") => SinkGone \/ GaveUp
<1>1. Parted
  BY DEF OInv
<1>2. WillBeTold \/ SinkGone \/ GaveUp
  BY <1>1 DEF Parted, Agreed, BothFailed
<1>3. SinkGone \/ GaveUp => net["snd"].q = <<>>
  BY DEF SinkGone, GaveUp
<1>4. WillBeTold => net["snd"].q # <<>> /\ r.pc # "over"
  <2>1. \A f, g : Just(f) # <<>> /\ Both(f, g) # <<>>
    BY ShortQueues
  <2> QED BY <2>1 DEF WillBeTold, Told
<1>5. ReadFails("snd") => r.pc = "over" \/ net["snd"].q = <<>>
  BY CalmRead
<1> QED BY <1>2, <1>3, <1>4, <1>5

\* A code is passed on as it is, but for a cancel.
LEMMA SameError ==
  ASSUME NEW c, c # "cancelled"
  PROVE  mapPeerError(c) = c
  BY DEF mapPeerError

\* Send goes on.
LEMMA SendMoves ==
  ASSUME SInv, OInv, Undisturbed', UNCHANGED <<opt, r, conn>>, s.pc \notin Ended, s'.pc \notin Ended,
         s'.ctx = s.ctx, s'.late = s.late, s'.cause = s.cause \/ s'.cause = "readFailed",
         s'.cause = "readFailed" => s'.next <= Chunks,
         s'.pc = "reason" => out.err # "none",
         net'["snd"].fin = net["snd"].fin, net'["rcv"].fin = net["rcv"].fin, data'.stop = data.stop, out'.err = out.err,
         r.pc \notin Left => Turn', r.pc \in Left => Parted'
  PROVE  OInv'
<1>1. Undisturbed
  BY StillCalm
<1>2. Clear
  BY <1>1 DEF OInv
<1>3. s'.pc # "over" /\ s'.pc # "notify" /\ s.pc # "over"
  BY DEF Ended
<1>4. Clear'
  BY <1>2, <1>3 DEF Clear
<1> QED BY <1>4 DEF OInv

-----------------------------------------------------------------------------
\* Send opens: only a receiver that waits for it is there.
LEMMA HelloOut ==
  ASSUME SInv, OInv, Undisturbed', hello
  PROVE  OInv'
<1>0. SessionTypeOK
  BY DEF SInv
<1>1. /\ s.pc = "hello" /\ s'.pc = "ack" /\ SameCounts /\ s'.late = s.late /\ s'.cause = s.cause
      /\ UNCHANGED <<opt, out, r, data, conn>>
  BY <1>0 DEF hello, SessionTypeOK, Sender, SameCounts
<1>2. PICK f \in {"hello", "foreign"} : net' = Post(net, "snd", f)
  BY DEF hello
<1>3. net'["snd"] = net["snd"] /\ net'["rcv"].fin = net["rcv"].fin /\ net'["rcv"].q = Append(net["rcv"].q, f)
  BY <1>0, <1>2, QueuesRead DEF Frames
<1>4. Undisturbed /\ s.cause = "none" /\ s.pc \notin Ended /\ s'.pc \notin Ended /\ s'.pc # "reason"
  BY <1>1, StillCalm DEF SInv, CompleteSent, SameCounts, Ended
<1>5. ASSUME r.pc \notin Left PROVE Turn'
  <2>1. r.pc = "hello" /\ net["snd"].q = <<>> /\ net["rcv"].q = <<>> /\ s.rounds = r.rounds
    BY <1>1, <1>4, <1>5 DEF SInv, Pending, OInv, Turn, Greeting, Wire, Negotiating
  <2>2. net'["snd"].q = <<>> /\ net'["rcv"].q = Just(f)
    BY <1>3, <2>1, ShortQueues
  <2> QED BY <1>1, <2>1, <2>2 DEF Turn, Greeting, Asking, Negotiating, Moving, Wire, SameCounts
<1>6. r.pc \notin Left
  BY <1>1, <1>4, SenderFinds DEF WillBeTold, SinkGone, GaveUp, Told, Sending
<1> QED BY <1>1, <1>3, <1>4, <1>5, <1>6, SendMoves DEF SameCounts

\* What Send reads of HELLO_ACK, and where the receiver then is.
LEMMA AckFound ==
  ASSUME SInv, OInv, Undisturbed, s.pc = "ack", HasFrame("snd")
  PROVE  \/ /\ r.pc \notin Left /\ Wire(Just("ack"), <<>>) /\ s.rounds = r.rounds
            /\ \/ r.pc = "challenge" /\ opt.password
               \/ r.pc = "listing" /\ ~opt.password /\ opt.mode # "stream"
               \/ r.pc \in {"target", "data"} /\ ~opt.password /\ opt.mode = "stream"
         \/ r.pc \in Left /\ WillBeTold
<1>1. net["snd"].q # <<>> /\ s.cause = "none" /\ s.pc \notin Ended
  BY DEF HasFrame, SInv, CompleteSent, Ended
<1>2. CASE r.pc \in Left
  BY <1>1, <1>2, SenderFinds
<1>3. CASE r.pc \notin Left
  <2>1. Turn
    BY <1>3 DEF OInv
  <2>2. opt.password => r.pc \in Asked \cup Left \cup {"verdict"}
    BY DEF SInv, Gated
  <2>3. r.pc = "challenge" => opt.password
    BY DEF SInv, Gated
  <2>4. r.pc \in AtWork
    BY <1>3 DEF SInv, SessionTypeOK, Receiver, Left, AtWork
  <2>5. /\ r.pc \in {"challenge", "listing", "target", "data"} /\ net["snd"].q = Just("ack") /\ net["rcv"].q = <<>>
        /\ s.rounds = r.rounds
        /\ r.pc = "listing" => opt.mode # "stream"
        /\ r.pc \in {"target", "data"} => opt.mode = "stream"
    BY <1>1, <2>1, <2>4 DEF AtWork, Turn, Greeting, Asking, Negotiating, Moving, Wire
  <2> QED BY <1>3, <2>2, <2>3, <2>5 DEF Wire, Asked, Left
<1> QED BY <1>2, <1>3

\* Without a password the listing, or the stream, follows the acknowledgement.
LEMMA StartOut ==
  ASSUME SInv, OInv, Undisturbed', s.pc = "ack", HasFrame("snd"), Head(net["snd"].q) = "ack", ~opt.password,
         StartSending(Took("snd")), UNCHANGED <<opt, out, r, data, conn>>
  PROVE  OInv'
<1>0. SessionTypeOK
  BY DEF SInv
<1>1. /\ SameCounts /\ s'.late = s.late /\ s'.cause = s.cause
      /\ s'.pc = (IF opt.mode = "stream" THEN "data" ELSE "negotiate")
      /\ net'["snd"].q = Tail(net["snd"].q) /\ net'["snd"].fin = net["snd"].fin /\ net'["rcv"].fin = net["rcv"].fin
      /\ net'["rcv"].q = IF opt.mode = "stream" THEN net["rcv"].q ELSE Append(net["rcv"].q, "listing")
  <2>1. /\ Took("snd") \in Net /\ Took("snd")["snd"].q = Tail(net["snd"].q) /\ Took("snd")["rcv"] = net["rcv"]
        /\ Took("snd")["snd"].fin = net["snd"].fin
    BY <1>0, TookEffect DEF Sides, Other
  <2> QED BY <1>0, <2>1, StartSendingEffect
<1>2. Undisturbed /\ s.cause = "none" /\ s.pc \notin Ended /\ s'.pc \notin Ended /\ s'.pc # "reason"
  BY <1>1, StillCalm DEF SInv, CompleteSent, SameCounts, Ended
<1>3. ASSUME r.pc \notin Left PROVE Turn'
  <2>1. /\ net["snd"].q = Just("ack") /\ net["rcv"].q = <<>> /\ s.rounds = r.rounds
        /\ \/ r.pc = "listing" /\ opt.mode # "stream"
           \/ r.pc \in {"target", "data"} /\ opt.mode = "stream"
    BY <1>2, <1>3, AckFound DEF Wire
  <2>2. net'["snd"].q = <<>> /\ net'["rcv"].q = IF opt.mode = "stream" THEN <<>> ELSE Just("listing")
    BY <1>1, <2>1, ShortQueues
  <2> QED BY <1>1, <2>1, <2>2 DEF Turn, Greeting, Asking, Negotiating, Moving, Wire, Last, SameCounts
<1>4. ASSUME r.pc \in Left PROVE Parted'
  <2>1. WillBeTold
    BY <1>2, <1>4, AckFound
  <2>2. net["snd"].q = Both("ack", r.cause) /\ r.cause \in FolderCodes /\ opt.mode = "stream"
    BY <2>1, ShortQueues DEF WillBeTold, Told, Sending
  <2>3. net'["snd"].q = Just(r.cause)
    BY <1>1, <2>2, ShortQueues
  <2>4. Told'
    BY <1>1, <2>2, <2>3 DEF Told, Sending, FolderCodes, Codes
  <2> QED BY <1>1, <1>2, <2>1, <2>4 DEF Parted, WillBeTold
<1> QED BY <1>1, <1>2, <1>3, <1>4, SendMoves DEF SameCounts

\* With a password a challenge follows.
LEMMA ChallengeOut ==
  ASSUME SInv, OInv, Undisturbed', s.pc = "ack", HasFrame("snd"), Head(net["snd"].q) = "ack", opt.password,
         s' = [s EXCEPT !.pc = "response", !.tries = 1],
         net' = Post(Took("snd"), "snd", "challenge"), UNCHANGED <<opt, out, r, data, conn>>
  PROVE  OInv'
<1>0. SessionTypeOK
  BY DEF SInv
<1>1. /\ s'.pc = "response" /\ s'.tries = 1 /\ s'.next = s.next /\ s'.ctx = s.ctx /\ s'.cause = s.cause
      /\ s'.late = s.late /\ s'.rounds = s.rounds
  BY <1>0 DEF SessionTypeOK, Sender
<1>2. /\ net'["snd"].q = Tail(net["snd"].q) /\ net'["snd"].fin = net["snd"].fin /\ net'["rcv"].fin = net["rcv"].fin
      /\ net'["rcv"].q = Append(net["rcv"].q, "challenge")
  <2>1. "challenge" \in Frames
    BY DEF Frames
  <2> QED BY <1>0, <2>1, QueuesRead
<1>3. Undisturbed /\ s.cause = "none" /\ s.pc \notin Ended /\ s'.pc \notin Ended /\ s'.pc # "reason"
  BY <1>1, StillCalm DEF SInv, CompleteSent, Ended
<1>4. ASSUME r.pc \notin Left PROVE Turn'
  <2>1. net["snd"].q = Just("ack") /\ net["rcv"].q = <<>> /\ s.rounds = r.rounds /\ r.pc = "challenge"
    BY <1>3, <1>4, AckFound DEF Wire
  <2>2. net'["snd"].q = <<>> /\ net'["rcv"].q = Just("challenge")
    BY <1>2, <2>1, ShortQueues
  <2>3. r.tries = 0
    BY <1>0 DEF SInv, Gated, SessionTypeOK, Receiver
  <2> QED BY <1>1, <2>1, <2>2, <2>3 DEF Turn, Greeting, Asking, Negotiating, Moving, Wire
<1>5. r.pc \notin Left
  <2> SUFFICES ASSUME r.pc \in Left PROVE FALSE
    OBVIOUS
  <2>1. WillBeTold
    BY <1>3, AckFound
  <2> QED BY <2>1, ShortQueues DEF WillBeTold, Told, Sending
<1> QED BY <1>1, <1>2, <1>3, <1>4, <1>5, SendMoves

\* Send reads the acknowledgement.
LEMMA ReadAckOut ==
  ASSUME SInv, OInv, Undisturbed', readAck
  PROVE  OInv'
<1>1. s.pc = "ack" /\ HasFrame("snd") /\ UNCHANGED <<opt, out, r, conn>> /\ s.pc \notin Ended
  BY DEF readAck, Ended
<1>2. CASE /\ Head(net["snd"].q) = "ack" /\ ~opt.password /\ StartSending(Took("snd")) /\ UNCHANGED data
  BY <1>1, <1>2, StartOut
<1>3. CASE /\ Head(net["snd"].q) = "ack" /\ opt.password /\ s' = [s EXCEPT !.pc = "response", !.tries = 1]
           /\ net' = Post(Took("snd"), "snd", "challenge") /\ UNCHANGED data
  BY <1>1, <1>3, ChallengeOut
<1>4. ASSUME NEW f \in {"foreign", "nack"}, NEW c \in {"incompatible", "declined"},
             f = "foreign" <=> c = "incompatible", Head(net["snd"].q) = f, SendEnds(c, Took("snd"))
      PROVE  OInv'
  <2>0. SessionTypeOK
    BY DEF SInv
  <2>1. s'.ctx = s.ctx /\ s'.late = s.late
    BY <1>4, <2>0 DEF SendEnds, SessionTypeOK, Sender
  <2>2. Undisturbed
    BY <1>1, <2>1, StillCalm
  <2>3. r.pc \in Left /\ WillBeTold
    BY <1>1, <1>4, <2>2, AckFound, ShortQueues DEF Wire
  <2>4. r.cause = c
    <3>1. \A g, h : Head(Just(g)) = g /\ Head(Both(g, h)) = g
      BY ShortQueues
    <3> QED BY <1>1, <1>4, <2>3, <3>1 DEF WillBeTold, Told, Sending
  <2>5. c \in Causes /\ c # "cancelled" /\ c # "readFailed"
    BY DEF Causes, Codes
  <2> QED BY <1>1, <1>4, <2>3, <2>4, <2>5, SendEndsTold
<1> QED BY <1>2, <1>3, <1>4 DEF readAck

-----------------------------------------------------------------------------
\* What Send reads of the password gate.
LEMMA ResponseFound ==
  ASSUME SInv, OInv, Undisturbed, s.pc = "response", HasFrame("snd")
  PROVE  \/ /\ r.pc = "verdict" /\ s.tries = r.tries /\ s.rounds = r.rounds
            /\ net["rcv"].q = <<>> /\ net["snd"].q \in {Just("good"), Just("bad")}
         \/ r.pc \in Left /\ WillBeTold /\ net["snd"].q = Just(r.cause) /\ r.cause \in Codes
<1>1. net["snd"].q # <<>> /\ s.cause = "none" /\ s.pc \notin Ended
  BY DEF HasFrame, SInv, CompleteSent, Ended
<1>2. CASE r.pc \in Left
  <2>1. WillBeTold
    BY <1>1, <1>2, SenderFinds
  <2> QED BY <1>2, <2>1 DEF WillBeTold, Told, Sending
<1>3. CASE r.pc \notin Left
  <2>1. Turn
    BY <1>3 DEF OInv
  <2>4. r.pc \in AtWork
    BY <1>3 DEF SInv, SessionTypeOK, Receiver, Left, AtWork
  <2> QED BY <1>1, <2>1, <2>4 DEF AtWork, Turn, Greeting, Asking, Negotiating, Moving, Wire
<1> QED BY <1>2, <1>3

\* The right password opens the gate.
LEMMA OpensOut ==
  ASSUME SInv, OInv, Undisturbed', s.pc = "response", HasFrame("snd"), Head(net["snd"].q) = "good",
         StartSending(Post(Took("snd"), "snd", "verified")), UNCHANGED <<opt, out, r, data, conn>>
  PROVE  OInv'
<1>0. SessionTypeOK
  BY DEF SInv
<1>1. /\ SameCounts /\ s'.late = s.late /\ s'.cause = s.cause
      /\ s'.pc = (IF opt.mode = "stream" THEN "data" ELSE "negotiate")
      /\ net'["snd"].q = Tail(net["snd"].q) /\ net'["snd"].fin = net["snd"].fin /\ net'["rcv"].fin = net["rcv"].fin
      /\ net'["rcv"].q = IF opt.mode = "stream" THEN Append(net["rcv"].q, "verified")
                         ELSE Append(Append(net["rcv"].q, "verified"), "listing")
  <2>1. "verified" \in Frames
    BY DEF Frames
  <2> DEFINE n == Post(Took("snd"), "snd", "verified")
  <2>2. /\ n["snd"].q = Tail(net["snd"].q) /\ n["rcv"].q = Append(net["rcv"].q, "verified")
        /\ n["snd"].fin = net["snd"].fin /\ n["rcv"].fin = net["rcv"].fin
    BY <1>0, <2>1, QueuesRead
  <2>3. n \in Net
    BY <1>0, <2>1, TookEffect, PostEffect DEF Sides
  <2>4. StartSending(n)
    OBVIOUS
  <2> HIDE DEF n
  <2>5. /\ SameCounts /\ s'.late = s.late /\ s'.cause = s.cause
        /\ s'.pc = (IF opt.mode = "stream" THEN "data" ELSE "negotiate")
        /\ net'["snd"] = n["snd"] /\ net'["rcv"].fin = n["rcv"].fin
        /\ net'["rcv"].q = IF opt.mode = "stream" THEN n["rcv"].q ELSE Append(n["rcv"].q, "listing")
    BY <1>0, <2>3, <2>4, StartSendingEffect
  <2> QED BY <2>2, <2>5
<1>2. Undisturbed /\ s.cause = "none" /\ s.pc \notin Ended /\ s'.pc \notin Ended /\ s'.pc # "reason"
  BY <1>1, StillCalm DEF SInv, CompleteSent, SameCounts, Ended
<1>3. /\ r.pc = "verdict" /\ s.tries = r.tries /\ s.rounds = r.rounds /\ net["rcv"].q = <<>>
      /\ net["snd"].q \in {Just("good"), Just("bad")}
  <2>1. \A g : Head(Just(g)) = g
    BY ShortQueues
  <2>2. "good" \notin Codes
    BY DEF Codes
  <2> QED BY <1>2, <2>1, <2>2, ResponseFound
<1>4. net'["snd"].q = <<>> /\ net'["rcv"].q = (IF opt.mode = "stream" THEN Just("verified") ELSE Both("verified", "listing"))
  <2>1. \A f, g : Tail(Just(f)) = <<>> /\ Append(<<>>, f) = Just(f) /\ Append(Just(f), g) = Both(f, g)
    BY ShortQueues
  <2>2. Tail(net["snd"].q) = <<>>
    BY <1>3, <2>1
  <2>3. Append(net["rcv"].q, "verified") = Just("verified")
    BY <1>3, <2>1
  <2>4. Append(Append(net["rcv"].q, "verified"), "listing") = Both("verified", "listing")
    BY <2>1, <2>3
  <2> QED BY <1>1, <2>2, <2>3, <2>4
<1>5. Turn'
  BY <1>1, <1>3, <1>4 DEF Turn, Greeting, Asking, Negotiating, Moving, Wire, Last, SameCounts
<1>6. r.pc \notin Left
  BY <1>3 DEF Left
<1> QED BY <1>1, <1>2, <1>5, <1>6, SendMoves DEF SameCounts

\* A wrong password is answered with a fresh challenge.
LEMMA AskAgainOut ==
  ASSUME SInv, OInv, Undisturbed', s.pc = "response", HasFrame("snd"), Head(net["snd"].q) = "bad",
         s' = [s EXCEPT !.tries = @ + 1],
         net' = Post(Post(Took("snd"), "snd", "wrongPassword"), "snd", "challenge"),
         UNCHANGED <<opt, out, r, data, conn>>
  PROVE  OInv'
<1>0. SessionTypeOK
  BY DEF SInv
<1>1. /\ s'.pc = "response" /\ s'.tries = s.tries + 1 /\ s'.next = s.next /\ s'.ctx = s.ctx /\ s'.cause = s.cause
      /\ s'.late = s.late /\ s'.rounds = s.rounds
  BY <1>0 DEF SessionTypeOK, Sender
<1>2. /\ net'["snd"].q = Tail(net["snd"].q) /\ net'["snd"].fin = net["snd"].fin /\ net'["rcv"].fin = net["rcv"].fin
      /\ net'["rcv"].q = Append(Append(net["rcv"].q, "wrongPassword"), "challenge")
  <2>1. "wrongPassword" \in Frames /\ "challenge" \in Frames
    BY DEF Frames, Codes
  <2> DEFINE n == Post(Took("snd"), "snd", "wrongPassword")
  <2>2. /\ n["snd"].q = Tail(net["snd"].q) /\ n["rcv"].q = Append(net["rcv"].q, "wrongPassword")
        /\ n["snd"].fin = net["snd"].fin /\ n["rcv"].fin = net["rcv"].fin
    BY <1>0, <2>1, QueuesRead
  <2>3. n \in Net
    BY <1>0, <2>1, TookEffect, PostEffect DEF Sides
  <2>4. net' = Post(n, "snd", "challenge")
    OBVIOUS
  <2> HIDE DEF n
  <2>5. /\ Post(n, "snd", "challenge")["snd"] = n["snd"]
        /\ Post(n, "snd", "challenge")["rcv"].q = Append(n["rcv"].q, "challenge")
        /\ Post(n, "snd", "challenge")["rcv"].fin = n["rcv"].fin
    BY <2>1, <2>3, PostEffect
  <2> QED BY <2>2, <2>4, <2>5
<1>3. Undisturbed /\ s.cause = "none" /\ s.pc \notin Ended /\ s'.pc \notin Ended /\ s'.pc # "reason"
  BY <1>1, StillCalm DEF SInv, CompleteSent, Ended
<1>4. /\ r.pc = "verdict" /\ s.tries = r.tries /\ s.rounds = r.rounds /\ net["rcv"].q = <<>>
      /\ net["snd"].q \in {Just("good"), Just("bad")}
  <2>1. \A g : Head(Just(g)) = g
    BY ShortQueues
  <2>2. "bad" \notin Codes
    BY DEF Codes
  <2> QED BY <1>3, <2>1, <2>2, ResponseFound
<1>5. net'["snd"].q = <<>> /\ net'["rcv"].q = Both("wrongPassword", "challenge")
  <2>1. \A f, g : Tail(Just(f)) = <<>> /\ Append(<<>>, f) = Just(f) /\ Append(Just(f), g) = Both(f, g)
    BY ShortQueues
  <2>2. Tail(net["snd"].q) = <<>>
    BY <1>4, <2>1
  <2>3. Append(net["rcv"].q, "wrongPassword") = Just("wrongPassword")
    BY <1>4, <2>1
  <2>4. Append(Append(net["rcv"].q, "wrongPassword"), "challenge") = Both("wrongPassword", "challenge")
    BY <2>1, <2>3
  <2> QED BY <1>2, <2>2, <2>4
<1>6. Turn'
  BY <1>1, <1>4, <1>5 DEF Turn, Greeting, Asking, Negotiating, Moving, Wire
<1>7. r.pc \notin Left
  BY <1>4 DEF Left
<1> QED BY <1>1, <1>2, <1>3, <1>6, <1>7, SendMoves

\* The last wrong password is answered with the end of the stream.
LEMMA LastWrongOut ==
  ASSUME SInv, OInv, Undisturbed', s.pc = "response", HasFrame("snd"), Head(net["snd"].q) = "bad",
         s.tries = PasswordAttempts, s' = [s EXCEPT !.pc = "drain", !.cause = "wrongPassword"],
         net' = Shut(Post(Took("snd"), "snd", "wrongPassword"), "snd"),
         UNCHANGED <<opt, out, r, data, conn>>
  PROVE  OInv'
<1>0. SessionTypeOK
  BY DEF SInv
<1>1. /\ s'.pc = "drain" /\ s'.tries = s.tries /\ s'.next = s.next /\ s'.ctx = s.ctx /\ s'.cause = "wrongPassword"
      /\ s'.late = s.late /\ s'.rounds = s.rounds
  BY <1>0 DEF SessionTypeOK, Sender
<1>2. /\ net'["snd"].q = Tail(net["snd"].q) /\ net'["snd"].fin = net["snd"].fin /\ net'["rcv"].fin = TRUE
      /\ net'["rcv"].q = Append(net["rcv"].q, "wrongPassword")
  <2>1. "wrongPassword" \in Frames
    BY DEF Frames, Codes
  <2> DEFINE n == Post(Took("snd"), "snd", "wrongPassword")
  <2>2. /\ n["snd"].q = Tail(net["snd"].q) /\ n["rcv"].q = Append(net["rcv"].q, "wrongPassword")
        /\ n["snd"].fin = net["snd"].fin
    BY <1>0, <2>1, QueuesRead
  <2>3. n \in Net
    BY <1>0, <2>1, TookEffect, PostEffect DEF Sides
  <2>4. net' = Shut(n, "snd")
    OBVIOUS
  <2> HIDE DEF n
  <2> QED BY <2>2, <2>3, <2>4, ShutEffect
<1>3. Undisturbed
  BY <1>1, StillCalm
<1>4. /\ r.pc = "verdict" /\ s.tries = r.tries /\ s.rounds = r.rounds /\ net["rcv"].q = <<>>
      /\ net["snd"].q \in {Just("good"), Just("bad")}
  <2>1. \A g : Head(Just(g)) = g
    BY ShortQueues
  <2>2. "bad" \notin Codes
    BY DEF Codes
  <2> QED BY <1>3, <2>1, <2>2, ResponseFound
<1>5. net'["snd"].q = <<>> /\ net'["rcv"].q = Just("wrongPassword")
  BY <1>2, <1>4, ShortQueues
<1>6. Turn'
  BY <1>1, <1>4, <1>5 DEF Turn, Greeting, Asking, Negotiating, Moving, Wire
<1>7. r.pc \notin Left
  BY <1>4 DEF Left
<1>8. Clear
  BY <1>3 DEF OInv
<1>9. Clear'
  BY <1>1, <1>2, <1>8 DEF Clear, Ended
<1> QED BY <1>6, <1>7, <1>9 DEF OInv

\* Send reads the answer to its challenge.
LEMMA ReadResponseOut ==
  ASSUME SInv, OInv, Undisturbed', readResponse
  PROVE  OInv'
<1>1. s.pc = "response" /\ HasFrame("snd") /\ UNCHANGED <<opt, out, r, conn>> /\ s.pc \notin Ended
  BY DEF readResponse, Ended
<1>2. CASE /\ Head(net["snd"].q) = "good" /\ StartSending(Post(Took("snd"), "snd", "verified")) /\ UNCHANGED data
  BY <1>1, <1>2, OpensOut
<1>3. CASE /\ Head(net["snd"].q) = "bad" /\ s' = [s EXCEPT !.tries = @ + 1]
           /\ net' = Post(Post(Took("snd"), "snd", "wrongPassword"), "snd", "challenge") /\ UNCHANGED data
  BY <1>1, <1>3, AskAgainOut
<1>4. CASE /\ Head(net["snd"].q) = "bad" /\ s.tries = PasswordAttempts
           /\ s' = [s EXCEPT !.pc = "drain", !.cause = "wrongPassword"]
           /\ net' = Shut(Post(Took("snd"), "snd", "wrongPassword"), "snd") /\ UNCHANGED data
  BY <1>1, <1>4, LastWrongOut
<1>5. ASSUME NEW f \in Codes, Head(net["snd"].q) = f, SendEnds(mapPeerError(f), Took("snd"))
      PROVE  OInv'
  <2>0. SessionTypeOK
    BY DEF SInv
  <2>1. s'.ctx = s.ctx /\ s'.late = s.late
    BY <1>5, <2>0 DEF SendEnds, SessionTypeOK, Sender
  <2>2. Undisturbed
    BY <1>1, <2>1, StillCalm
  <2>3. \A g : Head(Just(g)) = g
    BY ShortQueues
  <2>4. "good" \notin Codes /\ "bad" \notin Codes
    BY DEF Codes
  <2>5. r.pc \in Left /\ WillBeTold /\ f = r.cause
    BY <1>1, <1>5, <2>2, <2>3, <2>4, ResponseFound
  <2>6. f # "cancelled"
    BY <2>5 DEF WillBeTold
  <2>7. mapPeerError(f) = f /\ f \in Causes
    BY <2>6, SameError DEF Causes
  <2>8. f = "readFailed" => s.next <= Chunks
    BY <1>1, SessionAssumption DEF SInv, CompleteSent
  <2> QED BY <1>1, <1>5, <2>5, <2>6, <2>7, <2>8, SendEndsTold
<1> QED BY <1>2, <1>3, <1>4, <1>5 DEF readResponse, verifyTag

-----------------------------------------------------------------------------
\* What Send reads while it negotiates.
LEMMA DecisionFound ==
  ASSUME SInv, OInv, Undisturbed, s.pc = "negotiate", HasFrame("snd")
  PROVE  \/ /\ r.pc \notin Left /\ net["rcv"].q = <<>>
            /\ \/ r.pc = "verify" /\ net["snd"].q = Just("verifyRequest") /\ s.rounds + 1 = r.rounds
               \/ r.pc = "data" /\ net["snd"].q = Just("decisions") /\ s.rounds = r.rounds
               \/ r.pc \in {"commit", "complete"} /\ net["snd"].q = Just("nothing") /\ s.rounds = r.rounds
         \/ /\ r.pc \in Left /\ WillBeTold
            /\ r.cause \in Codes
            /\ net["snd"].q = Both("nothing", r.cause) \/ net["snd"].q = Just(r.cause)
<1>1. net["snd"].q # <<>> /\ s.cause = "none" /\ s.pc \notin Ended
  BY DEF HasFrame, SInv, CompleteSent, Ended
<1>2. CASE r.pc \in Left
  <2>1. WillBeTold
    BY <1>1, <1>2, SenderFinds
  <2> QED BY <1>2, <2>1 DEF WillBeTold, Told, Sending
<1>3. CASE r.pc \notin Left
  <2>1. Turn
    BY <1>3 DEF OInv
  <2>4. r.pc \in AtWork
    BY <1>3 DEF SInv, SessionTypeOK, Receiver, Left, AtWork
  <2> QED BY <1>1, <1>3, <2>1, <2>4 DEF AtWork, Turn, Greeting, Asking, Negotiating, Moving, Wire
<1> QED BY <1>2, <1>3

\* The frames of the negotiation are no codes, and no two are the same.
LEMMA NotCodes ==
  "verifyRequest" \notin Codes /\ "decisions" \notin Codes /\ "nothing" \notin Codes /\ "transferAck" \notin Codes
  BY DEF Codes

\* Send answers a verify request.
LEMMA VerifyAnswerOut ==
  ASSUME SInv, OInv, Undisturbed', s.pc = "negotiate", HasFrame("snd"), Head(net["snd"].q) = "verifyRequest",
         s' = [s EXCEPT !.rounds = @ + 1],
         net' = Post(Took("snd"), "snd", "verifyResponse"), UNCHANGED <<opt, out, r, data, conn>>
  PROVE  OInv'
<1>0. SessionTypeOK
  BY DEF SInv
<1>1. /\ s'.pc = "negotiate" /\ s'.tries = s.tries /\ s'.next = s.next /\ s'.ctx = s.ctx /\ s'.cause = s.cause
      /\ s'.late = s.late /\ s'.rounds = s.rounds + 1
  BY <1>0 DEF SessionTypeOK, Sender
<1>2. /\ net'["snd"].q = Tail(net["snd"].q) /\ net'["snd"].fin = net["snd"].fin /\ net'["rcv"].fin = net["rcv"].fin
      /\ net'["rcv"].q = Append(net["rcv"].q, "verifyResponse")
  <2>1. "verifyResponse" \in Frames
    BY DEF Frames
  <2> QED BY <1>0, <2>1, QueuesRead
<1>3. Undisturbed /\ s.cause = "none" /\ s.pc \notin Ended /\ s'.pc \notin Ended /\ s'.pc # "reason"
  BY <1>1, StillCalm DEF SInv, CompleteSent, Ended
<1>4. /\ r.pc \notin Left /\ net["rcv"].q = <<>>
      /\ r.pc = "verify" /\ net["snd"].q = Just("verifyRequest") /\ s.rounds + 1 = r.rounds
  <2>1. \A g, h : Head(Just(g)) = g /\ Head(Both(g, h)) = g
    BY ShortQueues
  <2> QED BY <1>3, <2>1, NotCodes, DecisionFound
<1>5. net'["snd"].q = <<>> /\ net'["rcv"].q = Just("verifyResponse")
  BY <1>2, <1>4, ShortQueues
<1>6. opt.mode # "stream"
  BY <1>3, <1>4 DEF OInv, Turn, Negotiating
<1>7. Turn'
  BY <1>1, <1>4, <1>5, <1>6 DEF Turn, Greeting, Asking, Negotiating, Moving, Wire
<1> QED BY <1>1, <1>2, <1>3, <1>4, <1>7, SendMoves

\* Send reads the decisions.
LEMMA DecidedOut ==
  ASSUME SInv, OInv, Undisturbed', s.pc = "negotiate", HasFrame("snd"), NEW f \in {"decisions", "nothing"},
         Head(net["snd"].q) = f, s' = [s EXCEPT !.pc = "data", !.next = IF f = "nothing" THEN Chunks + 1 ELSE 1],
         net' = Took("snd"), UNCHANGED <<opt, out, r, data, conn>>
  PROVE  OInv'
<1>0. SessionTypeOK
  BY DEF SInv
<1>1. /\ s'.pc = "data" /\ s'.tries = s.tries /\ s'.ctx = s.ctx /\ s'.cause = s.cause
      /\ s'.late = s.late /\ s'.rounds = s.rounds /\ s'.next = IF f = "nothing" THEN Chunks + 1 ELSE 1
  BY <1>0 DEF SessionTypeOK, Sender
<1>2. /\ net'["snd"].q = Tail(net["snd"].q) /\ net'["snd"].fin = net["snd"].fin /\ net'["rcv"].fin = net["rcv"].fin
      /\ net'["rcv"].q = net["rcv"].q
  BY <1>0, QueuesRead DEF Frames
<1>3. Undisturbed /\ s.cause = "none" /\ s.pc \notin Ended /\ s'.pc \notin Ended /\ s'.pc # "reason"
  BY <1>1, StillCalm DEF SInv, CompleteSent, Ended
<1>4. \A g, h : Head(Just(g)) = g /\ Head(Both(g, h)) = g /\ Tail(Just(g)) = <<>> /\ Tail(Both(g, h)) = Just(h)
  BY ShortQueues
<1>5. ASSUME r.pc \notin Left PROVE Turn'
  <2>1. /\ net["rcv"].q = <<>> /\ s.rounds = r.rounds
        /\ \/ r.pc = "data" /\ net["snd"].q = Just("decisions")
           \/ r.pc \in {"commit", "complete"} /\ net["snd"].q = Just("nothing") /\ f = "nothing"
    BY <1>3, <1>4, <1>5, NotCodes, DecisionFound
  <2>2. net'["snd"].q = <<>> /\ net'["rcv"].q = <<>>
    <3>1. \A g : Tail(Just(g)) = <<>>
      BY ShortQueues
    <3>2. Tail(net["snd"].q) = <<>>
      BY <2>1, <3>1
    <3> QED BY <1>2, <2>1, <3>2
  <2>3. f = "nothing" => s'.next > Chunks
    BY <1>1, SessionAssumption
  <2> QED BY <1>1, <1>3, <2>1, <2>2, <2>3 DEF Turn, Greeting, Asking, Negotiating, Moving, Wire, Last
<1>6. ASSUME r.pc \in Left PROVE Parted'
  <2>1. /\ WillBeTold /\ r.cause \in Codes
        /\ net["snd"].q = Both("nothing", r.cause) \/ net["snd"].q = Just(r.cause)
    BY <1>3, <1>6, DecisionFound
  <2>2. net["snd"].q = Both("nothing", r.cause)
    BY <1>4, <2>1, NotCodes
  <2>3. net'["snd"].q = Just(r.cause)
    <3>1. \A g, h : Tail(Both(g, h)) = Just(h)
      BY ShortQueues
    <3>2. Tail(net["snd"].q) = Just(r.cause)
      BY <2>2, <3>1
    <3> QED BY <1>2, <3>2
  <2>4. opt.mode # "stream"
    BY DEF SInv, Pending
  <2>5. Told'
    BY <1>1, <2>1, <2>3, <2>4 DEF Told, Sending
  <2> QED BY <1>1, <1>3, <2>1, <2>5 DEF Parted, WillBeTold
<1>7. s'.cause # "readFailed"
  BY <1>1, <1>3
<1> QED BY <1>1, <1>2, <1>3, <1>5, <1>6, <1>7, SendMoves

\* Send reads what the receiver wants.
LEMMA ReadDecisionsOut ==
  ASSUME SInv, OInv, Undisturbed', readDecisions
  PROVE  OInv'
<1>0. SessionTypeOK
  BY DEF SInv
<1>1. s.pc = "negotiate" /\ HasFrame("snd") /\ UNCHANGED <<opt, out, r, conn>> /\ s.pc \notin Ended
  BY DEF readDecisions, Ended
<1>2. \A g, h : Head(Just(g)) = g /\ Head(Both(g, h)) = g
  BY ShortQueues
<1>3. s'.ctx = s.ctx /\ s'.late = s.late
  BY <1>0 DEF readDecisions, SendEnds, SessionTypeOK, Sender
<1>4. Undisturbed
  BY <1>1, <1>3, StillCalm
<1>5. CASE Head(net["snd"].q) = "verifyRequest" /\ s.rounds = MaxVerifyRounds
  <2>1. s.rounds + 1 = r.rounds
    BY <1>1, <1>2, <1>4, <1>5, NotCodes, DecisionFound
  <2>2. r.rounds \in 0..MaxVerifyRounds
    BY <1>0 DEF SessionTypeOK, Receiver
  <2> QED BY <1>5, <2>1, <2>2, SessionAssumption
<1>6. CASE /\ Head(net["snd"].q) = "verifyRequest" /\ s' = [s EXCEPT !.rounds = @ + 1]
           /\ net' = Post(Took("snd"), "snd", "verifyResponse") /\ UNCHANGED data
  BY <1>1, <1>6, VerifyAnswerOut
<1>7. CASE \E f \in {"decisions", "nothing"} :
             /\ Head(net["snd"].q) = f /\ s' = [s EXCEPT !.pc = "data", !.next = IF f = "nothing" THEN Chunks + 1 ELSE 1]
             /\ net' = Took("snd") /\ UNCHANGED data
  BY <1>1, <1>7, DecidedOut
<1>8. ASSUME NEW f \in Codes, Head(net["snd"].q) = f, SendEnds(mapPeerError(f), Took("snd"))
      PROVE  OInv'
  <2>1. r.pc \in Left /\ WillBeTold /\ f = r.cause
    BY <1>1, <1>2, <1>4, <1>8, NotCodes, DecisionFound
  <2>2. f # "cancelled"
    BY <2>1 DEF WillBeTold
  <2>3. mapPeerError(f) = f /\ f \in Causes
    BY <2>2, SameError DEF Causes
  <2>4. f = "readFailed" => s.next <= Chunks
    BY <1>1, SessionAssumption DEF SInv, CompleteSent
  <2> QED BY <1>1, <1>8, <2>1, <2>2, <2>3, <2>4, SendEndsTold
<1> QED BY <1>5, <1>6, <1>7, <1>8 DEF readDecisions

-----------------------------------------------------------------------------
\* A read of Send that fails finds a receiver that is gone.
LEMMA ReadFailedOut ==
  ASSUME SInv, OInv, Undisturbed', readFailed
  PROVE  OInv'
<1>0. SessionTypeOK
  BY DEF SInv
<1>1. /\ s.pc \in {"ack", "response", "negotiate", "acked"} /\ ReadFails("snd") /\ SendEnds(ReadCause, net)
      /\ UNCHANGED <<opt, out, r, conn>> /\ s.pc \notin Ended
  BY DEF readFailed, Ended
<1>2. s'.ctx = s.ctx /\ s'.late = s.late
  BY <1>0, <1>1 DEF SendEnds, SessionTypeOK, Sender
<1>3. Undisturbed
  BY <1>1, <1>2, StillCalm
<1>4. s.cause = "none"
  BY <1>1 DEF SInv, CompleteSent
<1>5. r.pc \in Left /\ ReadError("snd") \in Transient
  BY <1>1, <1>3, CalmRead
<1>6. SinkGone \/ GaveUp
  BY <1>1, <1>3, <1>4, <1>5, SenderFinds
<1>7. CASE SinkGone
  <2>1. ReadCause = ReadError("snd")
    BY <1>1, <1>7 DEF SinkGone, ReadCause
  <2>2. ReadCause \in Causes /\ ReadCause # "cancelled" /\ ReadCause # "readFailed"
    BY <1>5, <2>1 DEF Transient, Causes
  <2>3. ReadCause \in Transient
    BY <1>5, <2>1
  <2> QED BY <1>1, <1>5, <1>7, <2>2, <2>3, SendEndsTold
<1>8. CASE GaveUp
  <2>1. ReadCause = "wrongPassword" /\ r.cause = "wrongPassword"
    BY <1>8 DEF GaveUp, ReadCause
  <2>2. ReadCause \in Causes /\ ReadCause # "cancelled" /\ ReadCause # "readFailed"
    BY <2>1 DEF Causes, Codes
  <2> QED BY <1>1, <1>5, <2>1, <2>2, SendEndsTold
<1> QED BY <1>6, <1>7, <1>8

\* Send reads the acknowledgement of the transfer, or the reason there is none.
LEMMA ReadTransferAckOut ==
  ASSUME SInv, OInv, Undisturbed', readTransferAck
  PROVE  OInv'
<1>0. SessionTypeOK
  BY DEF SInv
<1> DEFINE f == Head(net["snd"].q)
           c == CASE f = "transferAck" -> "ok" [] f \in Codes -> mapPeerError(f) [] OTHER -> "protocol"
<1>1. s.pc = "acked" /\ HasFrame("snd") /\ SendEnds(c, Took("snd")) /\ UNCHANGED <<opt, out, r, conn>>
  BY DEF readTransferAck
<1>2. s.pc \notin Ended /\ s.cause = "none" /\ net["snd"].q # <<>>
  BY <1>1 DEF Ended, SInv, CompleteSent, HasFrame
<1> HIDE DEF c
<1>3. s'.ctx = s.ctx /\ s'.late = s.late
  BY <1>0, <1>1 DEF SendEnds, SessionTypeOK, Sender
<1>4. Undisturbed
  BY <1>1, <1>3, StillCalm
<1>5. r.pc \in Left
  <2> SUFFICES ASSUME r.pc \notin Left PROVE FALSE
    OBVIOUS
  <2>1. Turn
    BY <1>4 DEF OInv
  <2>2. r.pc \in AtWork
    BY <1>0 DEF SessionTypeOK, Receiver, Left, AtWork
  <2> QED BY <1>1, <1>2, <2>1, <2>2 DEF AtWork, Turn, Greeting, Asking, Negotiating, Moving, Wire
<1>6. WillBeTold
  BY <1>2, <1>4, <1>5, SenderFinds
<1>7. \/ net["snd"].q = Just(r.cause) /\ r.cause \in Codes
      \/ net["snd"].q = Just("transferAck") /\ r.cause = "ok"
  BY <1>1, <1>6 DEF WillBeTold, Told, Sending
<1>8. \/ f = r.cause /\ r.cause \in Codes
      \/ f = "transferAck" /\ r.cause = "ok"
  <2>1. \A g : Head(Just(g)) = g
    BY ShortQueues
  <2> QED BY <1>7, <2>1
<1>9. c = r.cause /\ c \in Causes /\ c # "cancelled"
  BY <1>6, <1>8, NotCodes DEF c, mapPeerError, WillBeTold, Causes
<1>10. c # "readFailed"
  <2>1. net["snd"].q \in Seq(Frames) /\ ~Has(net["snd"].q, "readFailed")
    BY <1>0 DEF SessionTypeOK, SInv, AckCommitted, Sides
  <2>2. f # "readFailed"
    BY <1>2, <2>1, HasTail
  <2> QED BY <1>8, <1>9, <2>2
<1> QED BY <1>1, <1>2, <1>5, <1>9, <1>10, SendEndsTold

\* After a write that failed Send looks for the reason.
LEMMA SendChunkErrOut ==
  ASSUME SInv, OInv, Undisturbed', sendChunkErr
  PROVE  OInv'
<1>0. SessionTypeOK
  BY DEF SInv
<1>1. s.pc = "reason" /\ UNCHANGED <<opt, out, r, conn>> /\ s.pc \notin Ended /\ s.cause = "none"
  BY DEF sendChunkErr, Ended, SInv, CompleteSent
<1>2. s'.ctx = s.ctx /\ s'.late = s.late
  BY <1>0 DEF sendChunkErr, SendEnds, SessionTypeOK, Sender
<1>3. Undisturbed
  BY <1>1, <1>2, StillCalm
<1>4. out.err = "closed" /\ r.pc \in Left
  BY <1>1, <1>3, CalmRead DEF Clear
<1>5. HasFrame("snd") => WillBeTold /\ Head(net["snd"].q) = r.cause /\ r.cause \in Codes
  <2> SUFFICES ASSUME HasFrame("snd") PROVE WillBeTold /\ Head(net["snd"].q) = r.cause /\ r.cause \in Codes
    OBVIOUS
  <2>1. WillBeTold
    BY <1>1, <1>3, <1>4, SenderFinds DEF HasFrame
  <2>2. net["snd"].q = Just(r.cause) /\ r.cause \in Codes
    BY <1>1, <2>1 DEF WillBeTold, Told, Sending
  <2> QED BY <2>1, <2>2, ShortQueues
<1>6. CASE HasFrame("snd") /\ SendEnds(mapPeerError(Head(net["snd"].q)), Took("snd"))
  <2>1. r.cause # "cancelled"
    BY <1>5, <1>6 DEF WillBeTold
  <2>2. mapPeerError(Head(net["snd"].q)) = r.cause /\ r.cause \in Causes
    BY <1>5, <1>6, <2>1, SameError DEF Causes
  <2>3. r.cause # "readFailed"
    <3>1. net["snd"].q \in Seq(Frames) /\ ~Has(net["snd"].q, "readFailed") /\ net["snd"].q # <<>>
      BY <1>0, <1>6 DEF SessionTypeOK, SInv, AckCommitted, Sides, HasFrame
    <3> QED BY <1>5, <1>6, <3>1, HasTail
  <2>4. SendEnds(r.cause, Took("snd"))
    BY <1>6, <2>2
  <2> QED BY <1>1, <1>4, <1>6, <2>1, <2>2, <2>3, <2>4, SendEndsTold
<1>7. CASE ReadFails("snd") /\ SendEnds(out.err, net)
  <2>1. SinkGone
    BY <1>1, <1>3, <1>4, <1>7, SenderFinds DEF GaveUp
  <2>2. "closed" \in Causes /\ "closed" \in Transient
    BY DEF Causes, Transient
  <2>3. SendEnds("closed", net)
    BY <1>4, <1>7
  <2> QED BY <1>1, <1>4, <2>1, <2>2, <2>3, SendEndsTold
<1> QED BY <1>5, <1>6, <1>7 DEF sendChunkErr

-----------------------------------------------------------------------------
\* A step that neither engine sees of the other changes nobody's turn.
LEMMA SameView ==
  ASSUME UNCHANGED <<opt, r, net>>, s'.pc = s.pc, s'.cause = s.cause, s'.tries = s.tries, s'.rounds = s.rounds,
         s.next > Chunks => s'.next > Chunks
  PROVE  (Turn => Turn') /\ (Parted => Parted')
<1>1. Turn => Turn'
  BY DEF Turn, Greeting, Asking, Negotiating, Moving, Wire, Last
<1>2. Parted => Parted'
  BY DEF Parted, Agreed, BothFailed, SinkGone, WillBeTold, Told, GaveUp
<1> QED BY <1>1, <1>2

\* The next chunk, or a skip marker, goes to the packer.
LEMMA PackOut ==
  ASSUME SInv, OInv, Undisturbed', appendBytes \/ skipFile
  PROVE  OInv'
<1>0. SessionTypeOK
  BY DEF SInv
<1>1. /\ s.pc = "data" /\ s.next <= Chunks /\ UNCHANGED <<opt, r, net, data, conn>>
      /\ s'.pc = s.pc /\ s'.cause = s.cause /\ s'.tries = s.tries /\ s'.rounds = s.rounds /\ s'.ctx = s.ctx
      /\ s'.late = s.late /\ out'.err = out.err
  BY <1>0 DEF appendBytes, skipFile, Packs, SessionTypeOK, Sender
<1>2. s.pc \notin Ended /\ s'.pc # "reason" /\ s.cause = "none"
  BY <1>1 DEF Ended, SInv, CompleteSent
<1>3. Undisturbed
  BY <1>1, StillCalm
<1>4. s.next \in Nat
  BY <1>0, SessionAssumption DEF SessionTypeOK, Sender
<1>5. (Turn => Turn') /\ (Parted => Parted')
  <2>1. ~(s.next > Chunks)
    BY <1>1, <1>4, SessionAssumption
  <2> QED BY <1>1, <2>1, SameView
<1>6. s'.cause # "readFailed" /\ s'.pc \notin Ended
  BY <1>1, <1>2
<1>7. (r.pc \notin Left => Turn') /\ (r.pc \in Left => Parted')
  BY <1>3, <1>5 DEF OInv
<1> QED BY <1>1, <1>2, <1>6, <1>7, SendMoves

\* The packer's error turns Send to the reason.
LEMMA ToReasonOut ==
  ASSUME SInv, OInv, Undisturbed', s.pc \in {"data", "closing"}, s.cause = "none", out.err # "none",
         s' = [s EXCEPT !.pc = "reason"], UNCHANGED <<opt, out, r, net, data, conn>>
  PROVE  OInv'
<1>0. SessionTypeOK
  BY DEF SInv
<1>1. /\ s'.pc = "reason" /\ s'.cause = s.cause /\ s'.tries = s.tries /\ s'.rounds = s.rounds /\ s'.ctx = s.ctx
      /\ s'.late = s.late /\ s'.next = s.next
  BY <1>0 DEF SessionTypeOK, Sender
<1>2. Undisturbed
  BY <1>1, StillCalm
<1>3. r.pc \in Left
  BY <1>2, CalmRead DEF Clear
<1>4. Parted'
  <2>1. Parted
    BY <1>2, <1>3 DEF OInv
  <2> QED BY <1>1, <2>1 DEF Parted, Agreed, BothFailed, SinkGone, WillBeTold, Told, GaveUp, Sending, Ended
<1>5. s.pc \notin Ended /\ s'.pc \notin Ended /\ s'.cause # "readFailed"
  BY <1>1 DEF Ended
<1> QED BY <1>1, <1>3, <1>4, <1>5, SendMoves

\* Send sees it while it packs.
LEMMA ChunkErrorOut ==
  ASSUME SInv, OInv, Undisturbed', chunkError
  PROVE  OInv'
<1>1. s.cause = "none"
  BY DEF chunkError, SInv, CompleteSent
<1> QED BY <1>1, ToReasonOut DEF chunkError

\* The loop of Send ends.
LEMMA ClosePackerOut ==
  ASSUME SInv, OInv, Undisturbed', NEW c \in {"none", "readFailed", "cancelled"}, closePacker(c)
  PROVE  OInv'
<1>0. SessionTypeOK
  BY DEF SInv
<1>1. /\ s.pc = "data" /\ Leaves(c) /\ UNCHANGED <<opt, out, r, net, data, conn>>
      /\ s'.pc = "closing" /\ s'.cause = c /\ s'.tries = s.tries /\ s'.rounds = s.rounds /\ s'.ctx = s.ctx
      /\ s'.late = s.late /\ s'.next = s.next
  BY <1>0 DEF closePacker, SessionTypeOK, Sender
<1>2. Undisturbed /\ s.cause = "none" /\ s.pc \notin Ended /\ s'.pc \notin Ended /\ s'.pc # "reason"
  BY <1>1, StillCalm DEF SInv, CompleteSent, Ended
<1>3. c = "none" \/ (c = "readFailed" /\ opt.mode = "stream" /\ s.next <= Chunks)
  BY <1>1, <1>2 DEF Leaves, Undisturbed
<1>4. s.next \in Nat /\ Chunks \in Nat
  BY <1>0, SessionAssumption DEF SessionTypeOK, Sender
<1>5. ASSUME r.pc \notin Left PROVE Turn'
  <2>1. Turn
    BY <1>2, <1>5 DEF OInv
  <2>2. r.pc \in {"commit", "complete"} => s.next > Chunks
    BY <1>1, <2>1 DEF Turn, Moving
  <2>3. r.pc \in {"commit", "complete"} => c = "none"
    BY <1>3, <1>4, <2>2
  <2> QED BY <1>1, <2>1, <2>3 DEF Turn, Greeting, Asking, Negotiating, Moving, Wire, Last
<1>6. ASSUME r.pc \in Left PROVE Parted'
  <2>1. Parted
    BY <1>2, <1>6 DEF OInv
  <2>2. CASE c = "none"
    BY <1>1, <1>2, <2>1, <2>2 DEF Parted, Agreed, BothFailed, SinkGone, WillBeTold, Told, GaveUp, Sending, Ended
  <2>3. CASE c = "readFailed" /\ opt.mode = "stream"
    <3>1. WillBeTold
      BY <1>1, <1>2, <2>1, <2>3 DEF Parted, Agreed, BothFailed, SinkGone, GaveUp
    <3>2. r.cause \in FolderCodes
      BY <1>1, <2>3, <3>1 DEF WillBeTold, Told
    <3> QED BY <1>1, <2>3, <3>2 DEF Parted, BothFailed
  <2> QED BY <1>3, <2>2, <2>3
<1>7. s'.cause = "readFailed" => s'.next <= Chunks
  BY <1>1, <1>3
<1>8. s'.cause = s.cause \/ s'.cause = "readFailed"
  BY <1>1, <1>2, <1>3
<1> QED BY <1>1, <1>2, <1>5, <1>6, <1>7, <1>8, SendMoves

\* The packer is closed: the source was read to its end.
LEMMA CompleteOut ==
  ASSUME SInv, OInv, Undisturbed', s.pc = "closing", s.cause = "none", s' = [s EXCEPT !.pc = "acked"],
         net' = Post(net, "snd", "complete"), UNCHANGED <<opt, out, r, data, conn>>
  PROVE  OInv'
<1>0. SessionTypeOK
  BY DEF SInv
<1>1. /\ s'.pc = "acked" /\ s'.cause = s.cause /\ s'.tries = s.tries /\ s'.rounds = s.rounds /\ s'.ctx = s.ctx
      /\ s'.late = s.late /\ s'.next = s.next
  BY <1>0 DEF SessionTypeOK, Sender
<1>2. net'["snd"] = net["snd"] /\ net'["rcv"].fin = net["rcv"].fin /\ net'["rcv"].q = Append(net["rcv"].q, "complete")
  <2>1. "complete" \in Frames
    BY DEF Frames
  <2> QED BY <1>0, <2>1, QueuesRead
<1>3. Undisturbed /\ s.pc \notin Ended /\ s'.pc \notin Ended /\ s'.pc # "reason" /\ s'.cause # "readFailed"
  BY <1>1, StillCalm DEF Ended
<1>4. ASSUME r.pc \notin Left PROVE Turn'
  <2>1. Turn
    BY <1>3, <1>4 DEF OInv
  <2>2. r.pc \in AtWork
    BY <1>0, <1>4 DEF SessionTypeOK, Receiver, Left, AtWork
  <2>3. \A f, g : Append(<<>>, f) = Just(f) /\ Append(Just(f), g) = Both(f, g)
    BY ShortQueues
  <2>4. /\ r.pc \in {"verdict", "target", "data", "commit", "complete"} /\ net["snd"].q = <<>>
        /\ r.pc = "verdict" => net["rcv"].q = Just("verified") /\ opt.mode = "stream"
        /\ r.pc # "verdict" => net["rcv"].q = <<>>
        /\ r.pc \in {"commit", "complete"} => s.next > Chunks
        /\ r.pc = "target" => opt.mode = "stream"
        /\ s.rounds = r.rounds
    BY <2>1, <2>2 DEF AtWork, Turn, Greeting, Asking, Negotiating, Moving, Wire, Last
  <2>5. /\ r.pc = "verdict" => net'["rcv"].q = Both("verified", "complete")
        /\ r.pc # "verdict" => net'["rcv"].q = Just("complete")
    BY <1>2, <2>3, <2>4
  <2> QED BY <1>1, <1>2, <2>4, <2>5 DEF Turn, Greeting, Asking, Negotiating, Moving, Wire, Last
<1>5. ASSUME r.pc \in Left PROVE Parted'
  <2>1. Parted
    BY <1>3, <1>5 DEF OInv
  <2> QED BY <1>1, <1>2, <2>1 DEF Parted, Agreed, BothFailed, SinkGone, WillBeTold, Told, GaveUp, Sending, Ended
<1> QED BY <1>1, <1>2, <1>3, <1>4, <1>5, SendMoves

\* The packer is closed: the source could not be read to its end.
LEMMA ReadErrorOut ==
  ASSUME SInv, OInv, Undisturbed', s.pc = "closing", s.cause = "readFailed", SendEnds("readFailed", net),
         UNCHANGED <<opt, out, r, conn>>
  PROVE  OInv'
<1>0. SessionTypeOK
  BY DEF SInv
<1>1. "readFailed" \in Causes /\ net \in Net
  BY <1>0 DEF Causes, Codes, SessionTypeOK, Net
<1>2. /\ SameCounts /\ s'.late = s.late /\ s'.cause = "readFailed" /\ s'.pc = "notify"
      /\ net'["snd"] = net["snd"] /\ net'["rcv"].fin = TRUE /\ net'["rcv"].q = Append(net["rcv"].q, "readFailed")
      /\ data'.stop = data.stop
  BY <1>0, <1>1, SendEndsEffect
<1>3. Undisturbed
  BY <1>2, StillCalm DEF SameCounts
<1>4. Clear
  BY <1>3 DEF OInv
<1>5. s.next <= Chunks /\ s.pc \notin Ended
  BY <1>4 DEF Clear, Ended
<1>6. CASE r.pc \in Left
  <2>1. r.cause \in FolderCodes
    BY <1>3, <1>6 DEF OInv, Parted, Agreed, BothFailed, SinkGone, WillBeTold, GaveUp, Ended
  <2> QED BY <1>1, <1>5, <1>6, <2>1, SendEndsTold
<1>7. CASE r.pc \notin Left
  <2>1. Turn
    BY <1>3, <1>7 DEF OInv
  <2>2. r.pc \in AtWork
    BY <1>0, <1>7 DEF SessionTypeOK, Receiver, Left, AtWork
  <2>3. \A f, g : Append(<<>>, f) = Just(f) /\ Append(Just(f), g) = Both(f, g)
    BY ShortQueues
  <2>4. /\ r.pc \in {"verdict", "target", "data"} /\ net["snd"].q = <<>>
        /\ r.pc = "verdict" => net["rcv"].q = Just("verified") /\ opt.mode = "stream"
        /\ r.pc # "verdict" => net["rcv"].q = <<>>
        /\ r.pc = "target" => opt.mode = "stream"
        /\ s.rounds = r.rounds
    BY <2>1, <2>2 DEF AtWork, Turn, Greeting, Asking, Negotiating, Moving, Wire, Last
  <2>5. /\ r.pc = "verdict" => net'["rcv"].q = Both("verified", "readFailed")
        /\ r.pc # "verdict" => net'["rcv"].q = Just("readFailed")
    BY <1>2, <2>3, <2>4
  <2>6. Turn'
    BY <1>2, <2>4, <2>5 DEF Turn, Greeting, Asking, Negotiating, Moving, Wire, Last, SameCounts
  <2>7. Clear'
    BY <1>2, <1>4, <1>5 DEF Clear, SameCounts, Ended
  <2> QED BY <1>7, <2>6, <2>7 DEF OInv
<1> QED BY <1>6, <1>7

\* The packer is closed.
LEMMA PackerClosedOut ==
  ASSUME SInv, OInv, Undisturbed', packerClosed
  PROVE  OInv'
<1>0. SessionTypeOK
  BY DEF SInv
<1>1. s.pc = "closing" /\ UNCHANGED <<opt, out, r, conn>>
  BY DEF packerClosed
<1>2. s'.ctx = s.ctx /\ s'.late = s.late
  BY <1>0 DEF packerClosed, SendEnds, SessionTypeOK, Sender
<1>3. Undisturbed
  BY <1>1, <1>2, StillCalm
<1>4. s.cause \in {"none", "readFailed"}
  BY <1>1, <1>3, CalmRead DEF Clear, SInv, CompleteSent
<1>5. CASE s.cause = "readFailed"
  BY <1>1, <1>5, ReadErrorOut DEF packerClosed
<1>6. CASE s.cause = "none" /\ out.err # "none"
  BY <1>1, <1>6, ToReasonOut DEF packerClosed
<1>7. CASE s.cause = "none" /\ out.err = "none"
  BY <1>1, <1>7, CompleteOut DEF packerClosed
<1> QED BY <1>4, <1>5, <1>6, <1>7

\* Send has told its reason, and hears no more.
LEMMA NotifiedOut ==
  ASSUME SInv, OInv, Undisturbed', notified
  PROVE  OInv'
<1>0. SessionTypeOK
  BY DEF SInv
<1>1. /\ s.pc \in {"notify", "drain"} /\ ReadFails("snd") /\ UNCHANGED <<opt, out, r, conn>>
      /\ s'.pc = "over" /\ s'.cause = s.cause /\ s'.ctx = s.ctx /\ s'.late = s.late /\ s'.next = s.next
      /\ data'.stop = data.stop
  BY <1>0 DEF notified, SessionTypeOK, Sender
<1>2. net'["snd"] = net["snd"] /\ net'["rcv"].fin = TRUE
  BY <1>0, ShutEffect DEF notified, SessionTypeOK, Net
<1>3. Undisturbed
  BY <1>1, StillCalm
<1>4. Clear /\ r.pc \in Left
  BY <1>1, <1>3, CalmRead
<1>5. s.cause # "none"
  BY <1>1, <1>4 DEF Clear, SInv, CompleteSent
<1>6. Clear'
  BY <1>1, <1>2, <1>4 DEF Clear, Ended
<1>7. Parted'
  BY <1>1, <1>2, <1>3, <1>4, <1>5 DEF OInv, Parted, Agreed, BothFailed, SinkGone, WillBeTold, GaveUp, Ended
<1> QED BY <1>1, <1>4, <1>6, <1>7 DEF OInv

\* Send waits for the end of the stream, and reads past what is on it.
LEMMA DrainedOut ==
  ASSUME SInv, OInv, Undisturbed', drained
  PROVE  OInv'
<1>0. SessionTypeOK
  BY DEF SInv
<1>1. s.pc \in {"notify", "drain"} /\ HasFrame("snd") /\ net' = Took("snd") /\ UNCHANGED <<opt, s, out, r, data, conn>>
  BY DEF drained
<1>2. net'["rcv"] = net["rcv"] /\ net'["snd"].fin = net["snd"].fin /\ net["snd"].q # <<>>
  BY <1>0, <1>1, TookEffect DEF Sides, Other
<1>3. Undisturbed
  BY <1>1, StillCalm
<1>4. Clear
  BY <1>3 DEF OInv
<1>5. s.cause # "none"
  BY <1>1, <1>4 DEF Clear, SInv, CompleteSent
<1>6. r.pc \in Left
  <2> SUFFICES ASSUME r.pc \notin Left PROVE FALSE
    OBVIOUS
  <2>1. Turn
    BY <1>3 DEF OInv
  <2>2. r.pc \in AtWork
    BY <1>0 DEF SessionTypeOK, Receiver, Left, AtWork
  <2> QED BY <1>1, <1>2, <2>1, <2>2 DEF AtWork, Turn, Greeting, Asking, Negotiating, Moving, Wire
<1>7. Clear'
  BY <1>1, <1>2, <1>4 DEF Clear
<1>8. Parted'
  BY <1>1, <1>3, <1>5, <1>6 DEF OInv, Parted, Agreed, BothFailed, SinkGone, WillBeTold, GaveUp, Ended
<1> QED BY <1>1, <1>6, <1>7, <1>8 DEF OInv

\* The writer of the packer stops only when the receiver has.
LEMMA WriterOut ==
  ASSUME SInv, OInv, Undisturbed', UNCHANGED <<opt, s, r, net, conn>>, data'.stop = data.stop,
         \/ out'.err = out.err
         \/ out.err = "none" /\ out'.err = "closed" /\ (data.stop \/ conn["snd"] = "closed")
  PROVE  OInv'
<1>1. Undisturbed
  BY StillCalm
<1>2. Clear
  BY <1>1 DEF OInv
<1>3. Clear'
  BY <1>2 DEF Clear, Left
<1>4. (Turn => Turn') /\ (Parted => Parted')
  BY SameView
<1> QED BY <1>1, <1>3, <1>4 DEF OInv

\* writeLoop.
LEMMA WriterStepsOut ==
  ASSUME SInv, OInv, Undisturbed', WriterSteps
  PROVE  OInv'
<1>0. SessionTypeOK
  BY DEF SInv
<1>1. CASE writeChunk
  <2>1. /\ UNCHANGED <<opt, s, r, net, conn>> /\ data'.stop = data.stop /\ out'.err = out.err
    BY <1>0, <1>1 DEF writeChunk, SessionTypeOK
  <2> QED BY <2>1, WriterOut
<1>2. CASE takeChunk
  <2>1. /\ UNCHANGED <<opt, s, r, net, conn>> /\ data'.stop = data.stop /\ out'.err = out.err
    BY <1>0, <1>2 DEF takeChunk, SessionTypeOK
  <2> QED BY <2>1, WriterOut
<1>3. ASSUME NEW e \in {"closed", "cancelClose", "drop", "cancelled"}, NEW torn \in BOOLEAN, writeFails(e, torn)
      PROVE  OInv'
  <2>1. /\ UNCHANGED <<opt, s, r, net, conn>> /\ data'.stop = data.stop /\ out.err = "none" /\ Fails(e)
        /\ out'.err = IF s.ctx THEN "cancelled" ELSE e
    BY <1>0, <1>3 DEF writeFails, SessionTypeOK
  <2>2. Undisturbed
    BY <2>1, StillCalm
  <2>3. ~s.ctx /\ conn["snd"] \in {"open", "closed"}
    BY <2>2, CalmRead DEF Clear, Sides
  <2>4. out'.err = "closed" /\ (data.stop \/ conn["snd"] = "closed")
    BY <2>1, <2>3 DEF Fails
  <2> QED BY <2>1, <2>4, WriterOut
<1> QED BY <1>1, <1>2, <1>3 DEF WriterSteps

-----------------------------------------------------------------------------
\* Recv goes on.
LEMMA RecvMoves ==
  ASSUME SInv, OInv, Undisturbed', UNCHANGED <<opt, s, out, conn>>, r.pc \notin Left, r'.pc \notin Left,
         r'.ctx = r.ctx, r'.aborted = r.aborted,
         net'["snd"].fin = net["snd"].fin, net'["rcv"].fin = net["rcv"].fin, data'.stop = data.stop, Turn'
  PROVE  OInv'
<1>1. Undisturbed
  BY StillCalm
<1>2. Clear
  BY <1>1 DEF OInv
<1>3. Clear'
  BY <1>2 DEF Clear, Left
<1> QED BY <1>3 DEF OInv

\* Where Recv is while it is at work, and the turn that goes with it.
LEMMA RecvAtWork ==
  ASSUME SInv, OInv, Undisturbed, r.pc \notin Left
  PROVE  /\ Turn /\ Clear /\ SessionTypeOK
         /\ ~r.ctx /\ ~s.ctx /\ conn["rcv"] = "open" /\ conn["snd"] = "open" /\ s.pc # "over" /\ out.err = "none"
         /\ ~Aborted
         /\ r.pc # "verify" => s.rounds = r.rounds
         /\ HasFrame("rcv") <=> net["rcv"].q # <<>>
         /\ ReadFails("rcv") => net["rcv"].q = <<>> /\ s.pc \in {"notify", "drain"}
<1>1. Turn /\ Clear /\ SessionTypeOK
  BY DEF OInv, SInv
<1>2. ~r.ctx /\ ~s.ctx /\ conn["rcv"] = "open" /\ conn["snd"] = "open" /\ s.pc # "over" /\ out.err = "none"
  BY <1>1, CalmRead DEF Clear
<1>3. ReadFails("rcv") => net["rcv"].q = <<>> /\ s.pc \in {"notify", "drain"}
  BY <1>2, CalmRead DEF Ended
<1>4. ~Aborted
  BY <1>2 DEF Aborted
<1>5. r.pc # "verify" => s.rounds = r.rounds
  BY <1>1 DEF Turn, Negotiating
<1> QED BY <1>1, <1>2, <1>3, <1>4, <1>5 DEF HasFrame

\* Recv answers the hello, or asks its user.
LEMMA GateOut ==
  ASSUME SInv, OInv, Undisturbed', r.pc \in {"hello", "accept"}, s.pc = "ack", net["snd"].q = <<>>,
         NEW n, n = net \/ (HasFrame("rcv") /\ n = Took("rcv")), n["rcv"].q = <<>>,
         r' = Gate(r), net' = Post(n, "rcv", "ack"), UNCHANGED <<opt, s, out, data, conn>>
  PROVE  OInv'
<1>0. SessionTypeOK
  BY DEF SInv
<1>1. /\ Gate(r).pc = (IF opt.password THEN "challenge" ELSE Proceed(r).pc)
      /\ Gate(r).tries = r.tries /\ Gate(r).rounds = r.rounds /\ Gate(r).ctx = r.ctx /\ Gate(r).aborted = r.aborted
  BY <1>0, GateEffect DEF SessionTypeOK
<1>2. Proceed(r).pc = IF opt.mode = "stream" THEN "target" ELSE "listing"
  BY <1>0 DEF Proceed, SessionTypeOK, Receiver
<1>3. n \in Net /\ n["snd"] = net["snd"] /\ n["rcv"].fin = net["rcv"].fin
  BY <1>0, TookEffect DEF SessionTypeOK, Net, Sides, Other
<1>4. "ack" \in Frames
  BY DEF Frames
<1>5. net'["rcv"] = n["rcv"] /\ net'["snd"].q = Append(net["snd"].q, "ack") /\ net'["snd"].fin = net["snd"].fin
  BY <1>3, <1>4, PostEffect
<1>6. net'["rcv"].q = <<>> /\ net'["snd"].q = Just("ack")
  <2>1. Append(<<>>, "ack") = Just("ack")
    BY ShortQueues
  <2> QED BY <1>5, <2>1
<1>7. r.pc \notin Left /\ r'.ctx = r.ctx
  BY <1>1 DEF Left
<1>8. Undisturbed
  BY <1>7, StillCalm
<1>9. s.rounds = r.rounds
  BY <1>7, <1>8, RecvAtWork
<1>10. r'.pc = (IF opt.password THEN "challenge" ELSE IF opt.mode = "stream" THEN "target" ELSE "listing")
       /\ r'.tries = r.tries /\ r'.rounds = r.rounds /\ r'.aborted = r.aborted
  BY <1>1, <1>2
<1>11. Turn'
  BY <1>6, <1>9, <1>10 DEF Turn, Greeting, Asking, Negotiating, Moving, Wire
<1>12. r'.pc \notin Left
  BY <1>10 DEF Left
<1> QED BY <1>3, <1>5, <1>7, <1>10, <1>11, <1>12, RecvMoves

\* A Recv that answers with its last frame.
LEMMA RefusesOut ==
  ASSUME SInv, OInv, Undisturbed', NEW x, x = r \/ x = Refusing, NEW n, n = net \/ (HasFrame("rcv") /\ n = Took("rcv")),
         NEW f \in Frames, NEW cause \in {"incompatible", "declined", "ok"},
         Refuses(x, f, cause, n), UNCHANGED <<opt, s, out, conn>>, r.pc \notin Left,
         net["snd"].q = <<>>, s.cause = "none",
         \/ s.pc = "ack" /\ f = "foreign" /\ cause = "incompatible"
         \/ s.pc = "ack" /\ f = "nack" /\ cause = "declined"
         \/ s.pc = "acked" /\ f = "transferAck" /\ cause = "ok"
  PROVE  OInv'
<1>1. cause \in Causes /\ cause \notin Transient \cup {"cancelled", "cancelClose"}
  BY DEF Causes, Codes, Transient
<1>2. r' = [x EXCEPT !.cause = cause, !.pc = "drain"] /\ net' = Shut(Post(n, "rcv", f), "rcv") /\ data' = data
  BY DEF Refuses
<1>3. SameRecv /\ (r'.aborted => conn["rcv"] # "open") /\ r'.cause = cause /\ r'.pc = "drain"
  BY <1>1, <1>2, DrainRecord
<1>4. ASSUME net'["snd"].q = Append(net["snd"].q, f) PROVE Parted'
  <2>1. net'["snd"].q = Just(f)
    BY <1>4, ShortQueues
  <2>2. Told'
    BY <1>3, <2>1 DEF Told
  <2> QED BY <1>1, <1>3, <2>2 DEF Parted, WillBeTold, Ended
<1> QED BY <1>1, <1>2, <1>3, <1>4, LastWordTold DEF SameRecv

\* Recv reads the hello.
LEMMA ReadHelloOut ==
  ASSUME SInv, OInv, Undisturbed', readHello
  PROVE  OInv'
<1>0. SessionTypeOK
  BY DEF SInv
<1>1. r.pc = "hello" /\ HasFrame("rcv") /\ UNCHANGED <<opt, s, out, conn>> /\ r.pc \notin Left
  BY DEF readHello, Left
<1>2. /\ Gate(r).ctx = r.ctx
      /\ [r EXCEPT !.pc = "accept"].ctx = r.ctx
      /\ [r EXCEPT !.cause = "incompatible", !.pc = "drain"].ctx = r.ctx
  BY <1>0, GateEffect DEF SessionTypeOK, Receiver
<1>3. Undisturbed
  BY <1>1, <1>2, StillCalm DEF readHello, Refuses
<1>4. /\ s.pc = "ack" /\ net["snd"].q = <<>> /\ net["rcv"].q \in {Just("hello"), Just("foreign")}
      /\ s.cause = "none" /\ s.rounds = r.rounds
  <2>1. Turn /\ net["rcv"].q # <<>> /\ s.rounds = r.rounds
    BY <1>1, <1>3, RecvAtWork
  <2>2. s.pc = "ack" /\ net["snd"].q = <<>> /\ net["rcv"].q \in {Just("hello"), Just("foreign")}
    BY <1>1, <2>1 DEF Turn, Greeting, Wire
  <2> QED BY <2>1, <2>2 DEF SInv, CompleteSent
<1>5. Took("rcv")["rcv"].q = <<>> /\ Took("rcv")["snd"] = net["snd"] /\ Took("rcv")["rcv"].fin = net["rcv"].fin
  <2>1. Took("rcv")["rcv"].q = Tail(net["rcv"].q) /\ Took("rcv")["snd"] = net["snd"] /\ Took("rcv")["rcv"].fin = net["rcv"].fin
    BY <1>0, <1>1, TookEffect DEF Sides, Other
  <2>2. \A g : Tail(Just(g)) = <<>>
    BY ShortQueues
  <2> QED BY <1>4, <2>1, <2>2
<1>6. CASE Refuses(r, "foreign", "incompatible", Took("rcv"))
  <2>1. "foreign" \in Frames
    BY DEF Frames
  <2> QED BY <1>1, <1>4, <1>6, <2>1, RefusesOut
<1>7. CASE opt.mode = "stream" /\ r' = [r EXCEPT !.pc = "accept"] /\ net' = Took("rcv") /\ UNCHANGED data
  <2>1. r'.pc = "accept" /\ r'.tries = r.tries /\ r'.rounds = r.rounds /\ r'.ctx = r.ctx /\ r'.aborted = r.aborted
    BY <1>0, <1>7 DEF SessionTypeOK, Receiver
  <2>2. Turn'
    BY <1>1, <1>4, <1>5, <1>7, <2>1 DEF Turn, Greeting, Asking, Negotiating, Moving, Wire
  <2>3. r'.pc \notin Left
    BY <2>1 DEF Left
  <2> QED BY <1>1, <1>5, <1>7, <2>1, <2>2, <2>3, RecvMoves
<1>8. CASE r' = Gate(r) /\ net' = Post(Took("rcv"), "rcv", "ack") /\ UNCHANGED data
  BY <1>1, <1>4, <1>5, <1>8, GateOut
<1> QED BY <1>6, <1>7, <1>8 DEF readHello

\* The user accepts a stream or not.
LEMMA AcceptStreamOut ==
  ASSUME SInv, OInv, Undisturbed', NEW ok \in BOOLEAN, acceptStream(ok)
  PROVE  OInv'
<1>0. SessionTypeOK
  BY DEF SInv
<1>1. r.pc = "accept" /\ UNCHANGED <<opt, s, out, conn>> /\ r.pc \notin Left
  BY DEF acceptStream, Left
<1>2. CASE ok
  <2>1. r' = Gate(r) /\ net' = Post(net, "rcv", "ack") /\ UNCHANGED data
    BY <1>2 DEF acceptStream
  <2>2. r'.ctx = r.ctx
    BY <1>0, <2>1, GateEffect DEF SessionTypeOK
  <2>3. Undisturbed
    BY <1>1, <2>2, StillCalm
  <2>4. s.pc = "ack" /\ net["snd"].q = <<>> /\ net["rcv"].q = <<>>
    BY <1>1, <2>3 DEF OInv, Turn, Greeting, Wire
  <2> QED BY <1>1, <2>1, <2>4, GateOut
<1>3. CASE ~ok
  <2>1. Refuses(Refusing, "nack", "declined", net)
    BY <1>3 DEF acceptStream
  <2>2. r'.ctx = r.ctx
    <3>1. "declined" \in Causes
      BY DEF Causes, Codes
    <3> QED BY <2>1, <3>1, DrainRecord DEF Refuses, SameRecv
  <2>3. Undisturbed
    BY <1>1, <2>2, StillCalm
  <2>4. s.pc = "ack" /\ net["snd"].q = <<>> /\ net["rcv"].q = <<>>
    BY <1>1, <2>3 DEF OInv, Turn, Greeting, Wire
  <2>5. s.cause = "none" /\ "nack" \in Frames
    BY <2>4 DEF SInv, CompleteSent, Frames
  <2> QED BY <1>1, <2>1, <2>4, <2>5, RefusesOut
<1> QED BY <1>2, <1>3

\* A Recv that declines.
LEMMA DeclinesOut ==
  ASSUME SInv, OInv, Undisturbed', NEW x, x = r \/ x = Refusing, NEW n, n = net \/ (HasFrame("rcv") /\ n = Took("rcv")),
         NEW code \in {"declined", "passwordRequired", "targetExists", "writeFailed", "diskFull"},
         declineTransfer(x, code, n), UNCHANGED <<opt, s, out, conn>>, r.pc \notin Left,
         \/ s.cause = "readFailed" /\ code \in FolderCodes
         \/ s.cause = "none" /\ s.pc = "response" /\ net["snd"].q = <<>>
         \/ s.cause = "none" /\ s.pc = "negotiate" /\ net["snd"].q \in {<<>>, Just("nothing")}
         \/ /\ s.cause = "none" /\ s.pc \in {"data", "closing", "acked"} /\ net["snd"].q = <<>>
            /\ code \in FolderCodes
         \/ /\ s.cause = "none" /\ s.pc = "ack" /\ net["snd"].q = Just("ack")
            /\ code \in FolderCodes /\ opt.mode = "stream" /\ ~opt.password
  PROVE  OInv'
<1>1. code \in Causes /\ code \in Codes /\ code \in Frames /\ code \notin Transient \cup {"cancelled", "cancelClose"}
  BY DEF Causes, Codes, Frames, Transient
<1>2. r' = [x EXCEPT !.cause = code, !.pc = "drain"] /\ net' = Shut(Post(n, "rcv", code), "rcv")
  BY DEF declineTransfer
<1>3. SameRecv /\ (r'.aborted => conn["rcv"] # "open") /\ r'.cause = code /\ r'.pc = "drain"
  BY <1>1, <1>2, DrainRecord
<1>4. ASSUME net'["snd"].q = Append(net["snd"].q, code) PROVE Parted'
  <2>1. \A f, g : Append(<<>>, f) = Just(f) /\ Append(Just(f), g) = Both(f, g)
    BY ShortQueues
  <2>2. CASE s.cause = "readFailed" /\ code \in FolderCodes
    BY <1>3, <2>2 DEF Parted, BothFailed
  <2>3. CASE s.cause = "none" /\ s.pc = "response" /\ net["snd"].q = <<>>
    <3>1. net'["snd"].q = Just(code)
      BY <1>4, <2>1, <2>3
    <3> QED BY <1>1, <1>3, <2>3, <3>1 DEF Parted, WillBeTold, Told, Ended
  <2>4. CASE s.cause = "none" /\ s.pc = "negotiate" /\ net["snd"].q \in {<<>>, Just("nothing")}
    <3>1. opt.mode # "stream"
      BY <2>4 DEF SInv, Pending
    <3>2. net'["snd"].q = Just(code) \/ net'["snd"].q = Both("nothing", code)
      BY <1>4, <2>1, <2>4
    <3> QED BY <1>1, <1>3, <2>4, <3>1, <3>2 DEF Parted, WillBeTold, Told, Ended, Sending
  <2>5. CASE /\ s.cause = "none" /\ s.pc \in {"data", "closing", "acked"} /\ net["snd"].q = <<>>
             /\ code \in FolderCodes
    <3>1. net'["snd"].q = Just(code)
      BY <1>4, <2>1, <2>5
    <3> QED BY <1>1, <1>3, <2>5, <3>1 DEF Parted, WillBeTold, Told, Ended, Sending
  <2>6. CASE /\ s.cause = "none" /\ s.pc = "ack" /\ net["snd"].q = Just("ack")
             /\ code \in FolderCodes /\ opt.mode = "stream" /\ ~opt.password
    <3>1. net'["snd"].q = Both("ack", code)
      BY <1>4, <2>1, <2>6
    <3> QED BY <1>1, <1>3, <2>6, <3>1 DEF Parted, WillBeTold, Told, Ended
  <2> QED BY <2>2, <2>3, <2>4, <2>5, <2>6
<1> QED BY <1>1, <1>2, <1>3, <1>4, LastWordTold DEF SameRecv

\* Recv reads the challenge.
LEMMA ReadChallengeOut ==
  ASSUME SInv, OInv, Undisturbed', readChallenge
  PROVE  OInv'
<1>0. SessionTypeOK
  BY DEF SInv
<1>1. r.pc = "challenge" /\ HasFrame("rcv") /\ UNCHANGED <<opt, s, out, conn>> /\ r.pc \notin Left
  BY DEF readChallenge, Left
<1>2. r'.ctx = r.ctx
  BY <1>0 DEF readChallenge, declineTransfer, Returns, RecvEnds, RecvOver, SessionTypeOK, Receiver
<1>3. Undisturbed
  BY <1>1, <1>2, StillCalm
<1>4. /\ s.pc = "response" /\ net["snd"].q = <<>> /\ net["rcv"].q = Just("challenge") /\ s.tries = r.tries + 1
      /\ s.cause = "none" /\ s.rounds = r.rounds
  <2>1. Turn /\ net["rcv"].q # <<>> /\ s.rounds = r.rounds
    BY <1>1, <1>3, RecvAtWork
  <2>2. s.pc = "response" /\ net["snd"].q = <<>> /\ net["rcv"].q = Just("challenge") /\ s.tries = r.tries + 1
    BY <1>1, <2>1 DEF Turn, Asking, Wire
  <2> QED BY <2>1, <2>2 DEF SInv, CompleteSent
<1>5. Head(net["rcv"].q) = "challenge"
  BY <1>4, ShortQueues
<1>6. CASE declineTransfer(r, "passwordRequired", Took("rcv"))
  BY <1>1, <1>4, <1>6, DeclinesOut
<1>7. CASE r' = [r EXCEPT !.pc = "type", !.tries = @ + 1] /\ net' = Took("rcv") /\ UNCHANGED data
  <2>1. r'.pc = "type" /\ r'.tries = r.tries + 1 /\ r'.rounds = r.rounds /\ r'.aborted = r.aborted
    BY <1>0, <1>7 DEF SessionTypeOK, Receiver
  <2>2. net'["rcv"].q = Tail(net["rcv"].q) /\ net'["snd"] = net["snd"] /\ net'["rcv"].fin = net["rcv"].fin
    BY <1>0, <1>1, <1>7, TookEffect DEF Sides, Other
  <2>3. net'["rcv"].q = <<>>
    BY <1>4, <2>2, ShortQueues
  <2>4. Turn'
    BY <1>1, <1>4, <2>1, <2>2, <2>3 DEF Turn, Greeting, Asking, Negotiating, Moving, Wire
  <2>5. r'.pc \notin Left
    BY <2>1 DEF Left
  <2> QED BY <1>1, <1>2, <1>7, <2>1, <2>2, <2>4, <2>5, RecvMoves
<1> QED BY <1>5, <1>6, <1>7 DEF readChallenge

\* Recv answers the challenge.
LEMMA RespondOut ==
  ASSUME SInv, OInv, Undisturbed', NEW tag \in {"good", "bad"}, respond(tag)
  PROVE  OInv'
<1>0. SessionTypeOK
  BY DEF SInv
<1>1. /\ r.pc = "type" /\ net' = Post(net, "rcv", tag) /\ UNCHANGED <<opt, s, out, data, conn>> /\ r.pc \notin Left
      /\ r'.pc = "verdict" /\ r'.tries = r.tries /\ r'.rounds = r.rounds /\ r'.ctx = r.ctx /\ r'.aborted = r.aborted
  BY <1>0 DEF respond, Left, SessionTypeOK, Receiver
<1>2. Undisturbed
  BY <1>1, StillCalm
<1>3. s.pc = "response" /\ net["snd"].q = <<>> /\ net["rcv"].q = <<>> /\ s.tries = r.tries /\ s.rounds = r.rounds
  <2>1. Turn /\ s.rounds = r.rounds
    BY <1>1, <1>2, RecvAtWork
  <2> QED BY <1>1, <2>1 DEF Turn, Asking, Wire
<1>4. net'["rcv"] = net["rcv"] /\ net'["snd"].q = Append(net["snd"].q, tag) /\ net'["snd"].fin = net["snd"].fin
  <2>1. tag \in Frames
    BY DEF Frames
  <2> QED BY <1>0, <1>1, <2>1, QueuesRead
<1>5. net'["snd"].q = Just(tag)
  BY <1>3, <1>4, ShortQueues
<1>6. Turn'
  BY <1>1, <1>3, <1>4, <1>5 DEF Turn, Greeting, Asking, Negotiating, Moving, Wire
<1>7. r'.pc \notin Left
  BY <1>1 DEF Left
<1> QED BY <1>1, <1>4, <1>6, <1>7, RecvMoves

\* The prompt for the password is not left alone.
LEMMA PromptAbortsOut ==
  ASSUME SInv, OInv, Undisturbed', promptAborts
  PROVE  OInv'
<1>1. r.pc \notin Left /\ Aborted /\ Returns("cancelled", net) /\ UNCHANGED <<s, conn>>
  BY DEF promptAborts, Left
<1>2. r'.ctx = r.ctx
  BY <1>1 DEF SInv, Returns, RecvEnds, RecvOver, SessionTypeOK, Receiver
<1>3. Undisturbed
  BY <1>1, <1>2, StillCalm
<1> QED BY <1>1, <1>3, RecvAtWork

\* What Recv finds after its answer.
LEMMA VerdictFound ==
  ASSUME SInv, OInv, Undisturbed, r.pc = "verdict", HasFrame("rcv")
  PROVE  \/ /\ s.pc = "response" /\ s.tries = r.tries + 1 /\ net["snd"].q = <<>>
            /\ net["rcv"].q = Both("wrongPassword", "challenge")
         \/ /\ s.pc = "drain" /\ s.tries = r.tries /\ s.tries = PasswordAttempts /\ net["snd"].q = <<>>
            /\ net["rcv"].q = Just("wrongPassword") /\ s.cause = "wrongPassword"
         \/ /\ s.pc = "negotiate" /\ opt.mode # "stream" /\ net["snd"].q = <<>>
            /\ net["rcv"].q = Both("verified", "listing")
         \/ /\ s.pc \in {"data", "closing", "acked", "notify"} /\ opt.mode = "stream" /\ net["snd"].q = <<>>
            /\ net["rcv"].q = IF Last = <<>> THEN Just("verified") ELSE Both("verified", Head(Last))
<1>1. Turn /\ net["rcv"].q # <<>>
  BY RecvAtWork DEF Left
<1>2. s.pc = "drain" => s.cause = "wrongPassword"
  BY DEF SInv, CompleteSent
<1>3. s.pc = "negotiate" => opt.mode # "stream"
  BY DEF SInv, Pending
<1>4. /\ s.pc \in {"data", "closing"} => Last = <<>>
      /\ s.pc = "acked" => Last # <<>> /\ Head(Last) = "complete"
      /\ s.pc = "notify" => Last # <<>> /\ Head(Last) = "readFailed"
  <2>1. \A f : Just(f) # <<>> /\ Head(Just(f)) = f
    BY ShortQueues
  <2> QED BY <2>1 DEF Last
<1> QED BY <1>1, <1>2, <1>3, <1>4 DEF Turn, Asking, Wire

\* The gate is open.
LEMMA VerifiedOut ==
  ASSUME SInv, OInv, Undisturbed', r.pc = "verdict", HasFrame("rcv"), Head(net["rcv"].q) = "verified",
         r' = Proceed(r), net' = Took("rcv"), UNCHANGED <<opt, s, out, data, conn>>
  PROVE  OInv'
<1>0. SessionTypeOK
  BY DEF SInv
<1>1. /\ r'.pc = (IF opt.mode = "stream" THEN "target" ELSE "listing")
      /\ r'.tries = r.tries /\ r'.rounds = r.rounds /\ r'.ctx = r.ctx /\ r'.aborted = r.aborted
  BY <1>0 DEF Proceed, SessionTypeOK, Receiver
<1>2. r.pc \notin Left /\ r'.pc \notin Left
  BY <1>1 DEF Left
<1>3. Undisturbed
  BY <1>1, StillCalm
<1>4. s.rounds = r.rounds
  BY <1>2, <1>3, RecvAtWork
<1>5. net'["rcv"].q = Tail(net["rcv"].q) /\ net'["snd"] = net["snd"] /\ net'["rcv"].fin = net["rcv"].fin
  BY <1>0, TookEffect DEF Sides, Other
<1>6. \A f, g : Head(Just(f)) = f /\ Head(Both(f, g)) = f /\ Tail(Just(f)) = <<>> /\ Tail(Both(f, g)) = Just(g)
  BY ShortQueues
<1>7. \/ /\ s.pc = "negotiate" /\ opt.mode # "stream" /\ net["snd"].q = <<>>
         /\ net["rcv"].q = Both("verified", "listing")
      \/ /\ s.pc \in {"data", "closing", "acked", "notify"} /\ opt.mode = "stream" /\ net["snd"].q = <<>>
         /\ net["rcv"].q = IF Last = <<>> THEN Just("verified") ELSE Both("verified", Head(Last))
  <2>1. Head(net["rcv"].q) # "wrongPassword"
    OBVIOUS
  <2> QED BY <1>3, <1>6, <2>1, VerdictFound
<1>8. CASE s.pc = "negotiate"
  <2>1. opt.mode # "stream" /\ net["snd"].q = <<>> /\ net["rcv"].q = Both("verified", "listing")
    BY <1>7, <1>8
  <2>2. net'["rcv"].q = Just("listing")
    <3>1. Tail(net["rcv"].q) = Just("listing")
      BY <1>6, <2>1
    <3> QED BY <1>5, <3>1
  <2>3. Turn'
    BY <1>1, <1>4, <1>5, <1>8, <2>1, <2>2 DEF Turn, Greeting, Asking, Negotiating, Moving, Wire
  <2> QED BY <1>1, <1>2, <1>5, <2>3, RecvMoves
<1>9. CASE s.pc # "negotiate"
  <2>1. /\ s.pc \in {"data", "closing", "acked", "notify"} /\ opt.mode = "stream" /\ net["snd"].q = <<>>
        /\ net["rcv"].q = IF Last = <<>> THEN Just("verified") ELSE Both("verified", Head(Last))
    BY <1>7, <1>9
  <2>2. net'["rcv"].q = Last
    <3>1. Last = <<>> \/ Last = Just(Head(Last))
      BY <1>6 DEF Last
    <3>2. CASE Last = <<>>
      <4>1. Tail(net["rcv"].q) = <<>>
        BY <1>6, <2>1, <3>2
      <4> QED BY <1>5, <3>2, <4>1
    <3>3. CASE Last # <<>>
      <4>1. Tail(net["rcv"].q) = Just(Head(Last))
        BY <1>6, <2>1, <3>3
      <4> QED BY <1>5, <3>1, <3>3, <4>1
    <3> QED BY <3>2, <3>3
  <2>3. Last' = Last
    BY DEF Last
  <2>4. Turn'
    BY <1>1, <1>4, <1>5, <2>1, <2>2, <2>3 DEF Turn, Greeting, Asking, Negotiating, Moving, Wire
  <2> QED BY <1>1, <1>2, <1>5, <2>4, RecvMoves
<1> QED BY <1>8, <1>9

\* Recv reads the verdict on its password.
LEMMA ReadVerdictOut ==
  ASSUME SInv, OInv, Undisturbed', readVerdict
  PROVE  OInv'
<1>0. SessionTypeOK
  BY DEF SInv
<1>1. r.pc = "verdict" /\ HasFrame("rcv") /\ UNCHANGED <<opt, s, out, conn>> /\ r.pc \notin Left
  BY DEF readVerdict, Left
<1>2. r'.ctx = r.ctx
  BY <1>0 DEF readVerdict, Proceed, Returns, RecvEnds, RecvOver, SessionTypeOK, Receiver
<1>3. Undisturbed
  BY <1>1, <1>2, StillCalm
<1>4. \A f, g : Head(Just(f)) = f /\ Head(Both(f, g)) = f /\ Tail(Just(f)) = <<>> /\ Tail(Both(f, g)) = Just(g)
  BY ShortQueues
<1>5. Head(net["rcv"].q) \in {"wrongPassword", "verified"}
  BY <1>1, <1>3, <1>4, VerdictFound
<1>6. Head(net["rcv"].q) = "wrongPassword" =>
        \/ /\ s.pc = "response" /\ s.tries = r.tries + 1 /\ net["snd"].q = <<>>
           /\ net["rcv"].q = Both("wrongPassword", "challenge")
        \/ /\ s.pc = "drain" /\ s.tries = r.tries /\ s.tries = PasswordAttempts /\ net["snd"].q = <<>>
           /\ net["rcv"].q = Just("wrongPassword") /\ s.cause = "wrongPassword"
  BY <1>1, <1>3, <1>4, VerdictFound
<1>7. CASE Head(net["rcv"].q) = "verified" /\ r' = Proceed(r) /\ net' = Took("rcv") /\ UNCHANGED data
  BY <1>1, <1>7, VerifiedOut
<1>8. CASE /\ Head(net["rcv"].q) = "wrongPassword" /\ r.tries < PasswordAttempts
           /\ r' = [r EXCEPT !.pc = "challenge"] /\ net' = Took("rcv") /\ UNCHANGED data
  <2>1. r'.pc = "challenge" /\ r'.tries = r.tries /\ r'.rounds = r.rounds /\ r'.aborted = r.aborted
    BY <1>0, <1>8 DEF SessionTypeOK, Receiver
  <2>2. /\ s.pc = "response" /\ s.tries = r.tries + 1 /\ net["snd"].q = <<>>
        /\ net["rcv"].q = Both("wrongPassword", "challenge")
    <3>1. r.tries # PasswordAttempts
      BY <1>0, <1>8, SessionAssumption DEF SessionTypeOK, Receiver
    <3> QED BY <1>6, <1>8, <3>1
  <2>3. net'["rcv"].q = Tail(net["rcv"].q) /\ net'["snd"] = net["snd"] /\ net'["rcv"].fin = net["rcv"].fin
    BY <1>0, <1>1, <1>8, TookEffect DEF Sides, Other
  <2>4. net'["rcv"].q = Just("challenge")
    BY <1>4, <2>2, <2>3
  <2>5. s.rounds = r.rounds
    BY <1>1, <1>3, RecvAtWork
  <2>6. Turn'
    BY <1>1, <2>1, <2>2, <2>3, <2>4, <2>5 DEF Turn, Greeting, Asking, Negotiating, Moving, Wire
  <2>7. r'.pc \notin Left
    BY <2>1 DEF Left
  <2> QED BY <1>1, <1>2, <1>8, <2>1, <2>3, <2>6, <2>7, RecvMoves
<1>9. CASE Head(net["rcv"].q) = "wrongPassword" /\ Returns("wrongPassword", Took("rcv"))
  <2>1. r.tries > 0 /\ r.tries \in Nat
    BY <1>0, <1>1, SessionAssumption DEF SInv, Gated, SessionTypeOK, Receiver
  <2>2. \/ s.pc \in Ended /\ s.cause = "wrongPassword"
        \/ s.pc = "response" /\ s.tries > 1 /\ net["snd"].q = <<>>
    BY <1>6, <1>9, <2>1 DEF Ended
  <2>3. "wrongPassword" \in Causes /\ "wrongPassword" \notin Transient \cup {"cancelled", "cancelClose"}
    BY DEF Causes, Codes, Transient
  <2>4. r.pc \notin {"grace", "over"}
    BY <1>1
  <2> QED BY <1>1, <1>9, <2>2, <2>3, <2>4, ReturnsTold
<1>10. "verified" \notin Codes
  BY DEF Codes
<1> QED BY <1>5, <1>7, <1>8, <1>9, <1>10 DEF readVerdict

-----------------------------------------------------------------------------
\* Recv reads the listing.
LEMMA ReadListingOut ==
  ASSUME SInv, OInv, Undisturbed', readListing
  PROVE  OInv'
<1>0. SessionTypeOK
  BY DEF SInv
<1>1. r.pc = "listing" /\ HasFrame("rcv") /\ UNCHANGED <<opt, s, out, conn>> /\ r.pc \notin Left
  BY DEF readListing, Left
<1>2. r'.ctx = r.ctx
  BY <1>0 DEF readListing, Returns, RecvEnds, RecvOver, SessionTypeOK, Receiver
<1>3. Undisturbed
  BY <1>1, <1>2, StillCalm
<1>4. /\ s.pc = "negotiate" /\ net["snd"].q = <<>> /\ net["rcv"].q = Just("listing") /\ s.rounds = r.rounds
      /\ opt.mode # "stream"
  <2>1. Turn /\ net["rcv"].q # <<>> /\ s.rounds = r.rounds
    BY <1>1, <1>3, RecvAtWork
  <2> QED BY <1>1, <2>1 DEF Turn, Negotiating, Wire
<1>5. Head(net["rcv"].q) \notin Codes
  <2>1. "listing" \notin Codes
    BY DEF Codes
  <2> QED BY <1>4, <2>1, ShortQueues
<1>6. r' = [r EXCEPT !.pc = "decide"] /\ net' = Took("rcv") /\ UNCHANGED data
  BY <1>5 DEF readListing
<1>7. r'.pc = "decide" /\ r'.tries = r.tries /\ r'.rounds = r.rounds /\ r'.aborted = r.aborted
  BY <1>0, <1>6 DEF SessionTypeOK, Receiver
<1>8. net'["rcv"].q = Tail(net["rcv"].q) /\ net'["snd"] = net["snd"] /\ net'["rcv"].fin = net["rcv"].fin
  BY <1>0, <1>1, <1>6, TookEffect DEF Sides, Other
<1>9. net'["rcv"].q = <<>>
  BY <1>4, <1>8, ShortQueues
<1>10. Turn'
  BY <1>1, <1>4, <1>7, <1>8, <1>9 DEF Turn, Greeting, Asking, Negotiating, Moving, Wire
<1>11. r'.pc \notin Left
  BY <1>7 DEF Left
<1> QED BY <1>1, <1>2, <1>6, <1>7, <1>8, <1>10, <1>11, RecvMoves

\* Recv reads the answer to a verify request.
LEMMA ReadVerifyOut ==
  ASSUME SInv, OInv, Undisturbed', readVerify
  PROVE  OInv'
<1>0. SessionTypeOK
  BY DEF SInv
<1>1. r.pc = "verify" /\ HasFrame("rcv") /\ UNCHANGED <<opt, s, out, conn>> /\ r.pc \notin Left
  BY DEF readVerify, Left
<1>2. r'.ctx = r.ctx
  BY <1>0 DEF readVerify, Returns, RecvEnds, RecvOver, SessionTypeOK, Receiver
<1>3. Undisturbed
  BY <1>1, <1>2, StillCalm
<1>4. /\ s.pc = "negotiate" /\ net["snd"].q = <<>> /\ net["rcv"].q = Just("verifyResponse") /\ s.rounds = r.rounds
      /\ opt.mode # "stream"
  <2>1. Turn /\ net["rcv"].q # <<>>
    BY <1>1, <1>3, RecvAtWork
  <2> QED BY <1>1, <2>1 DEF Turn, Negotiating, Wire
<1>5. Head(net["rcv"].q) \notin Codes
  <2>1. "verifyResponse" \notin Codes
    BY DEF Codes
  <2> QED BY <1>4, <2>1, ShortQueues
<1>6. r' = [r EXCEPT !.pc = "decide"] /\ net' = Took("rcv") /\ UNCHANGED data
  BY <1>5 DEF readVerify
<1>7. r'.pc = "decide" /\ r'.tries = r.tries /\ r'.rounds = r.rounds /\ r'.aborted = r.aborted
  BY <1>0, <1>6 DEF SessionTypeOK, Receiver
<1>8. net'["rcv"].q = Tail(net["rcv"].q) /\ net'["snd"] = net["snd"] /\ net'["rcv"].fin = net["rcv"].fin
  BY <1>0, <1>1, <1>6, TookEffect DEF Sides, Other
<1>9. net'["rcv"].q = <<>>
  BY <1>4, <1>8, ShortQueues
<1>10. Turn'
  BY <1>1, <1>4, <1>7, <1>8, <1>9 DEF Turn, Greeting, Asking, Negotiating, Moving, Wire
<1>11. r'.pc \notin Left
  BY <1>7 DEF Left
<1> QED BY <1>1, <1>2, <1>6, <1>7, <1>8, <1>10, <1>11, RecvMoves

\* Recv asks for hashes.
LEMMA RequestVerifyOut ==
  ASSUME SInv, OInv, Undisturbed', requestVerify
  PROVE  OInv'
<1>0. SessionTypeOK
  BY DEF SInv
<1>1. /\ r.pc = "decide" /\ net' = Post(net, "rcv", "verifyRequest") /\ UNCHANGED <<opt, s, out, data, conn>>
      /\ r.pc \notin Left /\ r'.pc = "verify" /\ r'.tries = r.tries /\ r'.rounds = r.rounds + 1
      /\ r'.ctx = r.ctx /\ r'.aborted = r.aborted
  BY <1>0 DEF requestVerify, Left, SessionTypeOK, Receiver
<1>2. Undisturbed
  BY <1>1, StillCalm
<1>3. s.pc = "negotiate" /\ net["snd"].q = <<>> /\ net["rcv"].q = <<>> /\ s.rounds = r.rounds /\ opt.mode # "stream"
  <2>1. Turn /\ s.rounds = r.rounds
    BY <1>1, <1>2, RecvAtWork
  <2> QED BY <1>1, <2>1 DEF Turn, Negotiating, Wire
<1>4. net'["rcv"] = net["rcv"] /\ net'["snd"].q = Append(net["snd"].q, "verifyRequest") /\ net'["snd"].fin = net["snd"].fin
  <2>1. "verifyRequest" \in Frames
    BY DEF Frames
  <2> QED BY <1>0, <1>1, <2>1, QueuesRead
<1>5. net'["snd"].q = Just("verifyRequest")
  BY <1>3, <1>4, ShortQueues
<1>6. Turn'
  BY <1>1, <1>3, <1>4, <1>5 DEF Turn, Greeting, Asking, Negotiating, Moving, Wire
<1>7. r'.pc \notin Left
  BY <1>1 DEF Left
<1> QED BY <1>1, <1>4, <1>6, <1>7, RecvMoves

\* Recv decides.
LEMMA SendDecisionsOut ==
  ASSUME SInv, OInv, Undisturbed', NEW ask \in BOOLEAN, sendDecisions(ask)
  PROVE  OInv'
<1>0. SessionTypeOK
  BY DEF SInv
<1> DEFINE f == IF ask THEN "decisions" ELSE "nothing"
<1>1. /\ r.pc = "decide" /\ net' = Post(net, "rcv", f) /\ UNCHANGED <<opt, s, out, data, conn>>
      /\ r.pc \notin Left /\ r'.pc = (IF ask THEN "data" ELSE "commit") /\ r'.tries = r.tries /\ r'.rounds = r.rounds
      /\ r'.ctx = r.ctx /\ r'.aborted = r.aborted
  BY <1>0 DEF sendDecisions, Left, SessionTypeOK, Receiver
<1>f. f \in Frames /\ (ask => f = "decisions") /\ (~ask => f = "nothing")
  BY DEF Frames
<1> HIDE DEF f
<1>2. Undisturbed
  BY <1>1, StillCalm
<1>3. s.pc = "negotiate" /\ net["snd"].q = <<>> /\ net["rcv"].q = <<>> /\ s.rounds = r.rounds /\ opt.mode # "stream"
  <2>1. Turn /\ s.rounds = r.rounds
    BY <1>1, <1>2, RecvAtWork
  <2> QED BY <1>1, <2>1 DEF Turn, Negotiating, Wire
<1>4. net'["rcv"] = net["rcv"] /\ net'["snd"].q = Append(net["snd"].q, f) /\ net'["snd"].fin = net["snd"].fin
  BY <1>0, <1>1, <1>f, QueuesRead
<1>5. net'["snd"].q = Just(f)
  BY <1>3, <1>4, ShortQueues
<1>6. Turn'
  BY <1>f, <1>1, <1>3, <1>4, <1>5 DEF Turn, Greeting, Asking, Negotiating, Moving, Wire
<1>7. r'.pc \notin Left
  BY <1>1 DEF Left
<1> QED BY <1>1, <1>4, <1>6, <1>7, RecvMoves

\* Recv declines what it is offered.
LEMMA DeclineOut ==
  ASSUME SInv, OInv, Undisturbed', NEW code \in {"declined", "diskFull"}, decline(code)
  PROVE  OInv'
<1>1. r.pc = "decide" /\ UNCHANGED <<opt, s, out, conn>> /\ r.pc \notin Left
  BY DEF decline, Left
<1>2. PICK x : (x = r \/ x = Refusing) /\ declineTransfer(x, code, net)
  BY DEF decline
<1>3. r'.ctx = r.ctx
  <2>1. code \in Causes /\ r' = [x EXCEPT !.cause = code, !.pc = "drain"]
    BY <1>2 DEF Causes, Codes, declineTransfer
  <2> QED BY <1>2, <2>1, DrainRecord DEF SameRecv
<1>4. Undisturbed
  BY <1>1, <1>3, StillCalm
<1>5. s.pc = "negotiate" /\ net["snd"].q = <<>> /\ s.cause = "none"
  <2>1. s.pc = "negotiate" /\ net["snd"].q = <<>>
    BY <1>1, <1>4 DEF OInv, Turn, Negotiating, Wire
  <2> QED BY <2>1 DEF SInv, CompleteSent
<1> QED BY <1>1, <1>2, <1>5, DeclinesOut

-----------------------------------------------------------------------------
\* Where the sender is when the receiver has a chunk, or ends a folder.
LEMMA MovingFound ==
  ASSUME SInv, OInv, Undisturbed, r.pc \in {"target", "data", "commit"}
  PROVE  /\ s.cause \in {"none", "readFailed"}
         /\ \/ /\ s.pc = "ack" /\ r.pc # "commit" /\ Wire(Just("ack"), <<>>) /\ opt.mode = "stream" /\ ~opt.password
               /\ s.cause = "none" /\ data.q = <<>>
            \/ r.pc = "data" /\ s.pc = "negotiate" /\ Wire(Just("decisions"), <<>>) /\ s.cause = "none" /\ data.q = <<>>
            \/ r.pc = "commit" /\ s.pc = "negotiate" /\ Wire(Just("nothing"), <<>>) /\ s.cause = "none"
            \/ s.pc \in {"data", "closing", "acked"} /\ Wire(<<>>, Last)
            \/ s.pc = "notify" /\ Wire(<<>>, Last) /\ s.cause = "readFailed" /\ r.pc # "commit"
         /\ s.next > Chunks => s.cause = "none"
<1>1. Turn /\ Clear /\ SessionTypeOK /\ out.err = "none"
  BY RecvAtWork DEF Left
<1>2. s.cause = "readFailed" => s.next <= Chunks
  BY <1>1 DEF Clear
<1>3. s.next \in Nat /\ Chunks \in Nat
  BY <1>1, SessionAssumption DEF SessionTypeOK, Sender
<1>4. \/ s.pc = "ack" /\ r.pc # "commit" /\ Wire(Just("ack"), <<>>) /\ opt.mode = "stream"
      \/ r.pc = "data" /\ s.pc = "negotiate" /\ Wire(Just("decisions"), <<>>)
      \/ r.pc = "commit" /\ s.pc = "negotiate" /\ Wire(Just("nothing"), <<>>)
      \/ s.pc \in {"data", "closing", "acked"} /\ Wire(<<>>, Last)
      \/ s.pc = "notify" /\ Wire(<<>>, Last) /\ r.pc # "commit"
  BY <1>1 DEF Turn, Moving
<1>5. s.pc \in {"ack", "negotiate"} => s.cause = "none" /\ data.q = <<>>
  <2> SUFFICES ASSUME s.pc \in {"ack", "negotiate"} PROVE s.cause = "none" /\ data.q = <<>>
    OBVIOUS
  <2>1. s.cause = "none" /\ s.next = 1
    BY DEF SInv, CompleteSent
  <2>2. Len(r.got) + Len(data.q) + Len(out.q) + 1 = 1
    <3>1. s.next <= Chunks => Len(r.got) + Len(data.q) + Len(out.q) + 1 = s.next
      BY <1>1 DEF SInv, InOrder
    <3>2. 1 <= Chunks
      BY SessionAssumption
    <3> QED BY <2>1, <3>1, <3>2
  <2>3. Len(r.got) \in Nat /\ Len(data.q) \in Nat /\ Len(out.q) \in Nat
    BY <1>1, Lengths
  <2>4. Len(data.q) = 0 /\ data.q \in Seq(Chunk)
    BY <1>1, <2>2, <2>3 DEF SessionTypeOK
  <2> QED BY <2>1, <2>4
<1>6. s.pc = "ack" => ~opt.password
  BY DEF SInv, Gated, Asked, Left
<1>7. s.pc \in {"data", "closing", "acked"} => s.cause \in {"none", "readFailed"}
  BY <1>1 DEF Clear, Ended
<1>8. s.pc = "notify" => s.cause = "readFailed"
  BY <1>1 DEF Clear
<1>9. s.cause \in {"none", "readFailed"}
  BY <1>4, <1>5, <1>7, <1>8
<1>10. s.next > Chunks => s.cause = "none"
  BY <1>2, <1>3, <1>9
<1> QED BY <1>4, <1>5, <1>6, <1>8, <1>9, <1>10

\* The disk fails.
LEMMA DiskFailsOut ==
  ASSUME SInv, OInv, Undisturbed', NEW code \in FolderCodes, r.pc \in {"target", "data", "commit"},
         declineTransfer(r, code, net), UNCHANGED <<opt, s, out, conn>>,
         r.pc = "data" => data.q # <<>>
  PROVE  OInv'
<1>1. code \in {"declined", "passwordRequired", "targetExists", "writeFailed", "diskFull"} /\ r.pc \notin Left
  BY DEF FolderCodes, Left
<1>2. r'.ctx = r.ctx
  BY DEF SInv, SessionTypeOK, declineTransfer, Receiver
<1>3. Undisturbed
  BY <1>2, StillCalm
<1>4. \/ s.cause = "readFailed"
      \/ s.cause = "none" /\ s.pc = "negotiate" /\ net["snd"].q \in {<<>>, Just("nothing")}
      \/ s.cause = "none" /\ s.pc \in {"data", "closing", "acked"} /\ net["snd"].q = <<>>
      \/ s.cause = "none" /\ s.pc = "ack" /\ net["snd"].q = Just("ack") /\ opt.mode = "stream" /\ ~opt.password
  BY <1>3, MovingFound DEF Wire
<1> QED BY <1>1, <1>4, DeclinesOut

\* Recv opens its target, or takes a chunk, and the sender sees nothing of it.
LEMMA TargetOut ==
  ASSUME SInv, OInv, Undisturbed', NEW c \in {"none", "targetExists", "writeFailed"}, openTarget(c)
  PROVE  OInv'
<1>0. SessionTypeOK
  BY DEF SInv
<1>1. r.pc = "target" /\ UNCHANGED <<opt, s, out, conn>> /\ r.pc \notin Left
  BY DEF openTarget, Left
<1>2. CASE c # "none"
  BY <1>1, <1>2, DiskFailsOut DEF openTarget, FolderCodes
<1>3. CASE c = "none"
  <2>1. /\ UNCHANGED <<net, data>> /\ r'.pc = "data" /\ r'.tries = r.tries /\ r'.rounds = r.rounds /\ r'.ctx = r.ctx
        /\ r'.aborted = r.aborted
    BY <1>0, <1>3 DEF openTarget, SessionTypeOK, Receiver
  <2>2. Undisturbed
    BY <1>1, <2>1, StillCalm
  <2>3. Turn /\ s.rounds = r.rounds
    BY <1>1, <2>2, RecvAtWork
  <2>4. Turn'
    BY <1>1, <2>1, <2>3 DEF Turn, Greeting, Asking, Negotiating, Moving, Wire, Last
  <2>5. r'.pc \notin Left
    BY <2>1 DEF Left
  <2> QED BY <1>1, <2>1, <2>4, <2>5, RecvMoves
<1> QED BY <1>2, <1>3

\* What was read is whole: the sender has no error to tell.
LEMMA ToCommitOut ==
  ASSUME SInv, OInv, Undisturbed', r.pc = "data", data.q # <<>>, s.next > Chunks,
         r'.pc \in {"data", "commit"}, r'.tries = r.tries, r'.rounds = r.rounds, r'.ctx = r.ctx, r'.aborted = r.aborted,
         UNCHANGED <<opt, s, out, net, conn>>, data'.stop = data.stop
  PROVE  OInv'
<1>1. Undisturbed
  BY StillCalm
<1>2. r.pc \notin Left /\ r'.pc \notin Left
  BY DEF Left
<1>3. s.rounds = r.rounds
  BY <1>1, <1>2, RecvAtWork
<1>4. s.pc \in {"data", "closing", "acked"} /\ Wire(<<>>, Last) /\ s.cause = "none"
  <2>1. s.cause = "none"
    BY <1>1, MovingFound
  <2> QED BY <1>1, <2>1, MovingFound
<1>5. Turn'
  BY <1>2, <1>3, <1>4 DEF Turn, Greeting, Asking, Negotiating, Moving, Wire, Last
<1> QED BY <1>2, <1>5, RecvMoves

\* Recv takes a chunk.
LEMMA WriteDataOut ==
  ASSUME SInv, OInv, Undisturbed', writeData
  PROVE  OInv'
<1>0. SessionTypeOK
  BY DEF SInv
<1> DEFINE c == Head(data.q)
<1>1. /\ r.pc = "data" /\ data.q # <<>> /\ c \in 1..Chunks /\ UNCHANGED <<opt, s, out, net, conn>> /\ data'.stop = data.stop
      /\ r'.pc = (IF c = Chunks THEN "commit" ELSE "data") /\ r'.tries = r.tries /\ r'.rounds = r.rounds
      /\ r'.ctx = r.ctx /\ r'.aborted = r.aborted
  BY <1>0 DEF writeData, DataRead, SessionTypeOK, Receiver
<1>2. Undisturbed
  BY <1>1, StillCalm
<1>3. r.pc \notin Left /\ r'.pc \notin Left
  BY <1>1 DEF Left
<1>4. Turn /\ out.err = "none" /\ s.rounds = r.rounds
  BY <1>1, <1>2, <1>3, RecvAtWork
<1>5. CASE c = Chunks
  <2>1. c = Len(r.got) + 1
    BY <1>0, <1>1, HeadOfData DEF SInv
  <2>2. Len(data.q) \in Nat /\ Len(data.q) # 0 /\ Len(r.got) \in Nat /\ Len(out.q) \in Nat
    BY <1>0, <1>1, Lengths DEF SessionTypeOK
  <2>3. s.next > Chunks
    <3>1. s.next <= Chunks => Len(r.got) + Len(data.q) + Len(out.q) + 1 = s.next
      BY <1>4 DEF SInv, InOrder
    <3>2. s.next \in Nat /\ Chunks \in Nat
      BY <1>0, SessionAssumption DEF SessionTypeOK, Sender
    <3>3. Len(r.got) + 1 = Chunks
      BY <1>5, <2>1
    <3> DEFINE n == Len(r.got)
               m == Len(data.q)
               k == Len(out.q)
    <3>4. /\ n \in Nat /\ m \in Nat /\ m # 0 /\ k \in Nat /\ n + 1 = Chunks
          /\ s.next <= Chunks => n + m + k + 1 = s.next
      BY <2>2, <3>1, <3>3
    <3> HIDE DEF c, n, m, k
    <3> QED BY <3>2, <3>4
  <2> QED BY <1>1, <2>3, ToCommitOut
<1>6. CASE c # Chunks
  <2>1. r'.pc = "data"
    BY <1>1, <1>6
  <2>2. Turn'
    BY <1>1, <1>4, <2>1 DEF Turn, Greeting, Asking, Negotiating, Moving, Wire, Last
  <2> QED BY <1>1, <1>3, <2>2, RecvMoves
<1> QED BY <1>5, <1>6

\* Recv drops the file that the sender skips, or cannot.
LEMMA ReadSkipOut ==
  ASSUME SInv, OInv, NoSkips, Undisturbed', readSkip
  PROVE  OInv'
<1>0. SessionTypeOK
  BY DEF SInv
<1>1. /\ r.pc = "data" /\ data.q # <<>> /\ Head(data.q) = Skip /\ UNCHANGED <<opt, s, out, conn>> /\ r.pc \notin Left
  BY DEF readSkip, DataRead, Left
<1>2. s.next > Chunks
  BY <1>0, <1>1, HeadOfData DEF SInv
<1>3. CASE Drops
  <2>1. /\ r'.pc = "commit" /\ r'.tries = r.tries /\ r'.rounds = r.rounds /\ r'.ctx = r.ctx /\ r'.aborted = r.aborted
        /\ UNCHANGED net /\ data'.stop = data.stop
    BY <1>0, <1>3 DEF readSkip, SessionTypeOK, Receiver
  <2> QED BY <1>1, <1>2, <2>1, ToCommitOut
<1>4. CASE ~Drops
  <2>1. Returns("readFailed", net)
    BY <1>4 DEF readSkip
  <2>2. r'.ctx = r.ctx
    BY <1>0, <2>1 DEF Returns, RecvEnds, RecvOver, SessionTypeOK, Receiver
  <2>3. Undisturbed
    BY <1>1, <2>2, StillCalm
  <2>4. s.cause = "none" /\ s.pc \in {"data", "closing", "acked"} /\ net["snd"].q = <<>>
    <3>1. s.cause = "none"
      BY <1>1, <1>2, <2>3, MovingFound
    <3> QED BY <1>1, <2>3, <3>1, MovingFound DEF Wire
  <2>5. opt.mode # "stream"
    <3>1. data.q \in Seq(Chunk)
      BY <1>0 DEF SessionTypeOK
    <3>2. Has(data.q, Skip)
      BY <1>1, <3>1, HasTail
    <3> QED BY <3>2 DEF NoSkips
  <2>6. opt.mode \in {"raw", "tar"}
    BY <1>0, <1>4, <2>5, SessionAssumption DEF Drops, SessionTypeOK, Options
  <2>7. "readFailed" \in Causes /\ "readFailed" \notin Transient \cup {"cancelled", "cancelClose"}
    BY DEF Causes, Codes, Transient
  <2>8. r.pc \notin {"grace", "over"}
    BY <1>1
  <2> QED BY <1>1, <2>1, <2>4, <2>6, <2>7, <2>8, ReturnsTold
<1> QED BY <1>3, <1>4

\* The chunks of a cancelled sender are not read: nothing is torn.
LEMMA ReadTornOut ==
  ASSUME SInv, OInv, Undisturbed', readTorn
  PROVE  OInv'
<1>0. SessionTypeOK
  BY DEF SInv
<1>1. s.ctx
  <2>1. data.q # <<>> /\ Head(data.q) = Torn
    BY DEF readTorn, DataRead
  <2>2. Has(data.q, Torn)
    BY <1>0, <2>1, HeadOfData DEF SInv
  <2> QED BY <2>2 DEF SInv, Departure
<1>2. s' = s
  BY DEF readTorn
<1> QED BY <1>1, <1>2 DEF Undisturbed

\* The stream ends early: the sender has posted why.
LEMMA ReadEOFOut ==
  ASSUME SInv, OInv, Undisturbed', readEOF
  PROVE  OInv'
<1>0. SessionTypeOK
  BY DEF SInv
<1>1. /\ r.pc = "data" /\ data.fin /\ UNCHANGED <<opt, s, out, net, data, conn>> /\ r.pc \notin Left
      /\ r'.pc = "why" /\ r'.tries = r.tries /\ r'.rounds = r.rounds /\ r'.ctx = r.ctx /\ r'.aborted = r.aborted
  BY <1>0 DEF readEOF, Left, SessionTypeOK, Receiver
<1>2. Undisturbed
  BY <1>1, StillCalm
<1>3. Turn /\ s.pc # "over" /\ s.rounds = r.rounds
  BY <1>1, <1>2, RecvAtWork
<1>4. s.pc = "notify"
  BY <1>1, <1>3 DEF SInv, Departure, Leaving
<1>5. Wire(<<>>, Just("readFailed"))
  <2>1. Wire(<<>>, Last)
    BY <1>1, <1>3, <1>4 DEF Turn, Moving
  <2> QED BY <1>4, <2>1 DEF Last
<1>6. Turn'
  BY <1>1, <1>3, <1>4, <1>5 DEF Turn, Greeting, Asking, Negotiating, Moving, Wire
<1>7. r'.pc \notin Left
  BY <1>1 DEF Left
<1> QED BY <1>1, <1>6, <1>7, RecvMoves

\* Recv finds the reason.
LEMMA WhyOut ==
  ASSUME SInv, OInv, Undisturbed', tryReadPeerError
  PROVE  OInv'
<1>0. SessionTypeOK
  BY DEF SInv
<1>1. r.pc = "why" /\ UNCHANGED <<opt, s, out, conn>> /\ r.pc \notin Left
  BY DEF tryReadPeerError, Left
<1>2. r'.ctx = r.ctx
  BY <1>0 DEF tryReadPeerError, Returns, RecvEnds, RecvOver, SessionTypeOK, Receiver
<1>3. Undisturbed
  BY <1>1, <1>2, StillCalm
<1>4. s.pc = "notify" /\ net["rcv"].q = Just("readFailed") /\ s.cause = "readFailed"
  <2>1. Turn /\ Clear
    BY <1>1, <1>3, RecvAtWork
  <2> QED BY <1>1, <2>1 DEF Turn, Moving, Wire, Clear
<1>5. Head(net["rcv"].q) = "readFailed" /\ net["rcv"].q # <<>>
  BY <1>4, ShortQueues
<1>6. ~ReadFails("rcv")
  BY <1>1, <1>3, <1>5, RecvAtWork
<1>7. mapPeerError("readFailed") = "readFailed" /\ "readFailed" \in Codes
  BY SameError DEF Codes
<1>8. HasFrame("rcv") /\ Returns("readFailed", Took("rcv"))
  BY <1>5, <1>6, <1>7 DEF tryReadPeerError
<1>9. "readFailed" \in Causes /\ "readFailed" \notin Transient \cup {"cancelled", "cancelClose"}
  BY DEF Causes, Codes, Transient
<1>10. s.pc \in Ended /\ r.pc \notin {"grace", "over"}
  BY <1>1, <1>4 DEF Ended
<1> QED BY <1>1, <1>4, <1>8, <1>9, <1>10, ReturnsTold

\* Nothing else ends the data phase.
LEMMA DataFailsOut ==
  ASSUME SInv, OInv, Undisturbed', dataFails
  PROVE  OInv'
<1>1. r.pc \notin Left /\ (conn["rcv"] # "open" \/ r.ctx) /\ UNCHANGED <<s, conn>>
  BY DEF dataFails, Left
<1>2. r'.ctx = r.ctx
  BY DEF SInv, dataFails, Returns, RecvEnds, RecvOver, SessionTypeOK, Receiver
<1>3. Undisturbed
  BY <1>1, <1>2, StillCalm
<1> QED BY <1>1, <1>3, RecvAtWork

\* Recv renames what it has.
LEMMA CommitOut ==
  ASSUME SInv, OInv, Undisturbed', NEW c \in {"none", "writeFailed"}, commit(c)
  PROVE  OInv'
<1>0. SessionTypeOK
  BY DEF SInv
<1>1. r.pc = "commit" /\ UNCHANGED <<opt, s, out, conn>> /\ r.pc \notin Left
  BY DEF commit, Left
<1>2. CASE c # "none"
  BY <1>1, <1>2, DiskFailsOut DEF commit, FolderCodes
<1>3. CASE c = "none"
  <2>1. /\ UNCHANGED <<net, data>> /\ r'.pc = "complete" /\ r'.tries = r.tries /\ r'.rounds = r.rounds /\ r'.ctx = r.ctx
        /\ r'.aborted = r.aborted
    BY <1>0, <1>3 DEF commit, SessionTypeOK, Receiver
  <2>2. Undisturbed
    BY <1>1, <2>1, StillCalm
  <2>3. Turn /\ s.rounds = r.rounds
    BY <1>1, <2>2, RecvAtWork
  <2>4. Turn'
    BY <1>1, <2>1, <2>3 DEF Turn, Greeting, Asking, Negotiating, Moving, Wire, Last
  <2>5. r'.pc \notin Left
    BY <2>1 DEF Left
  <2> QED BY <1>1, <2>1, <2>4, <2>5, RecvMoves
<1> QED BY <1>2, <1>3

\* Recv reads COMPLETE.
LEMMA FinishRecvOut ==
  ASSUME SInv, OInv, Undisturbed', finishRecv
  PROVE  OInv'
<1>0. SessionTypeOK
  BY DEF SInv
<1>1. r.pc = "complete" /\ HasFrame("rcv") /\ UNCHANGED <<opt, s, out, conn>> /\ r.pc \notin Left
  BY DEF finishRecv, Left
<1>2. r'.ctx = r.ctx
  BY <1>0 DEF finishRecv, Refuses, Returns, RecvEnds, RecvOver, SessionTypeOK, Receiver
<1>3. Undisturbed
  BY <1>1, <1>2, StillCalm
<1>4. s.pc = "acked" /\ net["rcv"].q = Just("complete") /\ net["snd"].q = <<>> /\ s.cause = "none"
  <2>1. Turn /\ net["rcv"].q # <<>>
    BY <1>1, <1>3, RecvAtWork
  <2> QED BY <1>1, <2>1 DEF Turn, Moving, Wire, Last
<1>5. Head(net["rcv"].q) \notin Codes
  <2>1. "complete" \notin Codes
    BY DEF Codes
  <2> QED BY <1>4, <2>1, ShortQueues
<1>6. Refuses(r, "transferAck", "ok", Took("rcv")) /\ "transferAck" \in Frames
  BY <1>5 DEF finishRecv, Frames
<1> QED BY <1>1, <1>4, <1>6, RefusesOut

\* No read of Recv is cut.
LEMMA RecvFailsOut ==
  ASSUME SInv, OInv, Undisturbed', recvFails
  PROVE  OInv'
<1>0. SessionTypeOK
  BY DEF SInv
<1>1. /\ r.pc \in {"hello", "challenge", "verdict", "listing", "verify", "complete"} /\ ReadFails("rcv")
      /\ UNCHANGED <<s, conn>> /\ r.pc \notin Left
  BY DEF recvFails, Left
<1>2. r'.ctx = r.ctx
  BY <1>0 DEF recvFails, Returns, RecvEnds, RecvOver, SessionTypeOK, Receiver
<1>3. Undisturbed
  BY <1>1, <1>2, StillCalm
<1>4. Turn /\ net["rcv"].q = <<>> /\ s.pc \in {"notify", "drain"}
  BY <1>1, <1>3, RecvAtWork
<1>5. \A f, g : Just(f) # <<>> /\ Both(f, g) # <<>>
  BY ShortQueues
<1> QED BY <1>1, <1>4, <1>5 DEF Turn, Greeting, Asking, Negotiating, Moving, Wire

\* Recv waits for the end of the sender.
LEMMA DrainControlOut ==
  ASSUME SInv, OInv, Undisturbed', drainControl
  PROVE  OInv'
<1>0. SessionTypeOK
  BY DEF SInv
<1>1. r.pc = "drain" /\ UNCHANGED <<opt, s, out, conn>> /\ r.pc \in Left
  BY DEF drainControl, Left
<1>2. r'.ctx = r.ctx
  BY <1>0 DEF drainControl, RecvEnds, RecvOver, SessionTypeOK, Receiver
<1>3. Undisturbed
  BY <1>1, <1>2, StillCalm
<1>4. Clear /\ Parted
  BY <1>1, <1>3 DEF OInv
<1>5. CASE HasFrame("rcv") /\ net' = Took("rcv") /\ UNCHANGED <<r, data>>
  <2>1. net'["snd"] = net["snd"] /\ net'["rcv"].fin = net["rcv"].fin
    BY <1>0, <1>5, TookEffect DEF Sides, Other
  <2>2. Clear'
    BY <1>1, <1>4, <1>5, <2>1 DEF Clear
  <2>3. Parted'
    BY <1>1, <1>4, <1>5, <2>1 DEF Parted, Agreed, BothFailed, SinkGone, WillBeTold, Told, GaveUp
  <2> QED BY <1>1, <1>5, <2>2, <2>3 DEF OInv
<1>6. CASE ReadFails("rcv") /\ RecvEnds(r, net)
  <2>1. s.pc \in Ended
    BY <1>3, <1>6, CalmRead
  <2>2. \/ s.pc \in Ended /\ s.cause = r.cause
        \/ s.cause = "readFailed" /\ r.cause \in FolderCodes
    BY <1>1, <1>4, <2>1 DEF Parted, Agreed, BothFailed, SinkGone, WillBeTold, GaveUp
  <2>3. r.cause \in Causes /\ r.cause \notin Transient \cup {"cancelled", "cancelClose"}
    BY <1>0, <1>1, <1>4 DEF SInv, Doubted, Clear, SessionTypeOK, Receiver
  <2>4. Returns(r.cause, net)
    <3>1. [r EXCEPT !.cause = r.cause] = r
      BY <1>0 DEF SessionTypeOK, Receiver
    <3> QED BY <1>6, <3>1 DEF Returns
  <2>5. r.pc \notin {"grace", "over"}
    BY <1>1
  <2> QED BY <1>1, <2>2, <2>3, <2>4, <2>5, ReturnsTold
<1> QED BY <1>5, <1>6 DEF drainControl

\* A Recv that nothing disturbed is in no doubt.
LEMMA GraceOut ==
  ASSUME SInv, OInv, Undisturbed', grace
  PROVE  OInv'
<1>1. r.pc = "grace" /\ UNCHANGED <<s, conn>>
  BY DEF grace
<1>2. r'.ctx = r.ctx
  BY DEF SInv, grace, RecvOver, SessionTypeOK, Receiver
<1>3. Undisturbed
  BY <1>1, <1>2, StillCalm
<1>4. Clear
  BY <1>3 DEF OInv
<1> QED BY <1>1, <1>4 DEF Clear

\* The disk fails with a chunk in hand.
LEMMA WriteDataFailsOut ==
  ASSUME SInv, OInv, Undisturbed', NEW c \in {"writeFailed", "diskFull"}, writeDataFails(c)
  PROVE  OInv'
<1>1. /\ r.pc = "data" /\ data.q # <<>> /\ declineTransfer(r, c, net) /\ UNCHANGED <<opt, s, out, conn>>
      /\ c \in FolderCodes
  BY DEF writeDataFails, DataRead, FolderCodes
<1> QED BY <1>1, DiskFailsOut

-----------------------------------------------------------------------------
\* The close of a side arrives at the other.
LEMMA CloseOut ==
  ASSUME SInv, OInv, Undisturbed', NEW me \in Sides, closeArrives(me)
  PROVE  OInv'
<1>0. SessionTypeOK
  BY DEF SInv
<1>1. /\ conn[me] = "open" /\ conn[Other(me)] # "drop" /\ UNCHANGED <<opt, s, out, r, net, data>>
      /\ (IF me = "rcv" THEN s.pc = "over" ELSE r.pc = "over")
  BY DEF closeArrives
<1>2. conn[Other(me)] # "drop" /\ conn[me] # "drop" /\ ~s.ctx /\ ~r.ctx /\ ~s.late
  BY <1>1 DEF Undisturbed
<1>3. Undisturbed
  BY <1>2 DEF Undisturbed, Sides, Other
<1>4. conn' = [conn EXCEPT ![me] = "closed"]
  BY <1>2 DEF closeArrives
<1>5. Clear
  BY <1>3 DEF OInv
<1>6. conn'["snd"] = (IF me = "snd" THEN "closed" ELSE conn["snd"]) /\ conn'["rcv"] = (IF me = "rcv" THEN "closed" ELSE conn["rcv"])
  BY <1>0, <1>4 DEF SessionTypeOK, Sides
<1>7. Clear'
  BY <1>1, <1>5, <1>6 DEF Clear, Sides
<1>8. (Turn => Turn') /\ (Parted => Parted')
  BY <1>1, SameView
<1> QED BY <1>1, <1>3, <1>7, <1>8 DEF OInv

\* What disturbs the engines is not calm.
LEMMA DisturbedOut ==
  ASSUME SInv, Undisturbed', notifyTimesOut \/ cancelSend \/ cancelRecv \/ \E me \in Sides : idleTimeout(me)
  PROVE  FALSE
<1>0. SessionTypeOK
  BY DEF SInv
<1>1. CASE notifyTimesOut
  BY <1>0, <1>1 DEF notifyTimesOut, Undisturbed, SessionTypeOK, Sender
<1>2. CASE cancelSend
  BY <1>0, <1>2 DEF cancelSend, Undisturbed, SessionTypeOK, Sender
<1>3. CASE cancelRecv
  BY <1>0, <1>3 DEF cancelRecv, Undisturbed, SessionTypeOK, Receiver
<1>4. ASSUME NEW me \in Sides, idleTimeout(me) PROVE FALSE
  <2>1. conn'[me] = "drop"
    BY <1>0, <1>4 DEF idleTimeout, SessionTypeOK
  <2> QED BY <2>1 DEF Undisturbed
<1> QED BY <1>1, <1>2, <1>3, <1>4

-----------------------------------------------------------------------------
\* The steps that hand a chunk on leave no skip marker in a stream.
LEMMA NoSkipsChunks ==
  ASSUME SInv, NoSkips, \/ appendBytes \/ skipFile \/ WriterSteps \/ writeData \/ readSkip
  PROVE  NoSkips'
<1>0. /\ data \in Data /\ data.q \in Seq(Chunk) /\ out.q \in Seq(Skip..Chunks) /\ out \in [q : Seq(Skip..Chunks), err : Causes]
      /\ s.next \in 1..(Chunks + 1) /\ Chunks \in Nat /\ Skip = 0 /\ Torn = Chunks + 1
  BY SessionAssumption DEF SInv, SessionTypeOK, Sender, Skip, Torn, Data
<1> SUFFICES ASSUME opt'.mode = "stream" PROVE ~Has(out'.q, Skip) /\ ~Has(data'.q, Skip)
  BY DEF NoSkips
<1>1. opt' = opt /\ ~Has(out.q, Skip) /\ ~Has(data.q, Skip)
  <2>1. opt' = opt
    BY DEF appendBytes, skipFile, WriterSteps, writeChunk, takeChunk, writeFails, writeData, readSkip
  <2> QED BY <2>1 DEF NoSkips
<1>2. CASE appendBytes
  <2>1. out'.q = Append(out.q, s.next) /\ data' = data /\ s.next \in Skip..Chunks /\ s.next # Skip
    BY <1>0, <1>2 DEF appendBytes, Packs
  <2>2. ~Has(Append(out.q, s.next), Skip)
    BY <1>0, <1>1, <2>1, HasAppend
  <2> QED BY <1>1, <2>1, <2>2
<1>3. CASE skipFile
  BY <1>1, <1>3 DEF skipFile
<1>4. out.q # <<>> => ~Has(Tail(out.q), Skip) /\ Head(out.q) # Skip /\ Head(out.q) \in Chunk
  <2>1. out.q # <<>> => ~Has(Tail(out.q), Skip) /\ Head(out.q) # Skip
    BY <1>0, <1>1, HasTail
  <2>2. out.q # <<>> => Head(out.q) \in Skip..Chunks
    BY <1>0
  <2> QED BY <1>0, <2>1, <2>2 DEF Chunk
<1>5. CASE writeChunk
  <2>1. out.q # <<>> /\ out'.q = Tail(out.q) /\ data'.q = Append(data.q, Head(out.q))
    BY <1>0, <1>5 DEF writeChunk, Data
  <2>2. ~Has(Append(data.q, Head(out.q)), Skip)
    BY <1>0, <1>1, <1>4, <2>1, HasAppend
  <2> QED BY <1>4, <2>1, <2>2
<1>6. CASE takeChunk
  <2>1. out.q # <<>> /\ out'.q = Tail(out.q) /\ data' = data
    BY <1>0, <1>6 DEF takeChunk
  <2> QED BY <1>1, <1>4, <2>1
<1>7. ASSUME NEW e, NEW torn \in BOOLEAN, writeFails(e, torn) PROVE ~Has(out'.q, Skip) /\ ~Has(data'.q, Skip)
  <2>1. out.q # <<>> /\ out'.q = Tail(out.q) /\ data'.q = IF torn THEN Append(data.q, Torn) ELSE data.q
    BY <1>0, <1>7 DEF writeFails, Data
  <2>2. Torn \in Chunk /\ Torn # Skip
    BY <1>0 DEF Chunk
  <2>3. ~Has(Append(data.q, Torn), Skip)
    BY <1>0, <1>1, <2>2, HasAppend
  <2> QED BY <1>1, <1>4, <2>1, <2>3
<1>8. CASE writeData
  <2>1. data.q # <<>> /\ data'.q = Tail(data.q) /\ out' = out
    BY <1>0, <1>8 DEF writeData, DataRead, Data
  <2> QED BY <1>0, <1>1, <2>1, HasTail
<1>9. CASE readSkip
  <2>1. data.q # <<>> /\ Head(data.q) = Skip
    BY <1>9 DEF readSkip, DataRead
  <2> QED BY <1>0, <1>1, <2>1, HasTail
<1> QED BY <1>2, <1>3, <1>5, <1>6, <1>7, <1>8, <1>9 DEF WriterSteps

\* A stream that is not skipped stays so.
LEMMA NoSkipsNext ==
  ASSUME SInv, NoSkips, [Next]_vars
  PROVE  NoSkips'
<1> DEFINE Same == opt' = opt /\ out' = out /\ data'.q = data.q
<1>0. data \in Data /\ (Same => NoSkips')
  BY DEF SInv, SessionTypeOK, Data, NoSkips
<1>1. CASE \/ hello \/ readAck \/ readResponse \/ readDecisions \/ readFailed
           \/ chunkError \/ packerClosed \/ sendChunkErr \/ readTransferAck \/ notified \/ drained
           \/ \E c \in {"none", "readFailed", "cancelled"} : closePacker(c)
  BY <1>0, <1>1 DEF Data, hello, readAck, readResponse, readDecisions, readFailed, chunkError, packerClosed, sendChunkErr,
                    readTransferAck, notified, drained, closePacker, SendEnds
<1>2. CASE \/ readHello \/ readChallenge \/ readVerdict \/ readListing \/ requestVerify \/ readVerify \/ promptAborts
           \/ \E ok \in BOOLEAN : acceptStream(ok) \/ sendDecisions(ok)
           \/ \E tag \in {"good", "bad"} : respond(tag)
           \/ \E c \in {"declined", "diskFull"} : decline(c)
  BY <1>0, <1>2 DEF Data, readHello, readChallenge, readVerdict, readListing, requestVerify, readVerify, promptAborts,
                    acceptStream, sendDecisions, respond, decline, declineTransfer, Refuses, Returns, RecvEnds, RecvOver
<1>3. CASE \/ \E c \in {"none", "targetExists", "writeFailed"} : openTarget(c)
           \/ \E c \in {"none", "writeFailed"} : commit(c)
           \/ \E c \in {"writeFailed", "diskFull"} : writeDataFails(c)
           \/ readTorn \/ readEOF \/ tryReadPeerError \/ dataFails \/ finishRecv \/ recvFails \/ drainControl \/ grace
  BY <1>0, <1>3 DEF Data, openTarget, commit, writeDataFails, readTorn, readEOF, tryReadPeerError, dataFails, finishRecv,
                    recvFails, drainControl, grace, declineTransfer, Refuses, Returns, RecvEnds, RecvOver
<1>4. CASE notifyTimesOut \/ cancelSend \/ cancelRecv \/ \E me \in Sides : closeArrives(me) \/ idleTimeout(me)
  BY <1>0, <1>4 DEF notifyTimesOut, cancelSend, cancelRecv, closeArrives, idleTimeout
<1>5. CASE appendBytes \/ skipFile \/ WriterSteps \/ writeData \/ readSkip
  BY <1>5, NoSkipsChunks
<1>6. CASE UNCHANGED vars
  BY <1>0, <1>6 DEF vars
<1> QED BY <1>1, <1>2, <1>3, <1>4, <1>5, <1>6 DEF Next, SendSteps, RecvSteps

\* The engines start in step.
LEMMA InitOut == Init => OInv /\ NoSkips
<1> SUFFICES ASSUME Init PROVE OInv /\ NoSkips
  OBVIOUS
<1>1. /\ s.pc = "hello" /\ s.cause = "none" /\ s.tries = 0 /\ s.rounds = 0 /\ s.next = 1
      /\ r.pc = "hello" /\ r.cause = "none" /\ r.rounds = 0 /\ ~r.aborted /\ ~data.stop /\ out.err = "none"
      /\ out.q = <<>> /\ data.q = <<>>
  BY DEF Init
<1>2. /\ net["snd"].q = <<>> /\ net["rcv"].q = <<>> /\ ~net["rcv"].fin /\ ~net["snd"].fin
      /\ conn = [me \in Sides |-> "open"] /\ conn["snd"] = "open" /\ conn["rcv"] = "open"
  BY DEF Init, Sides
<1>3. Clear
  BY <1>1, <1>2 DEF Clear, Ended, Left
<1>4. Turn
  BY <1>1, <1>2 DEF Turn, Greeting, Asking, Negotiating, Moving, Wire
<1>5. NoSkips
  BY <1>1 DEF NoSkips, Has
<1> QED BY <1>1, <1>3, <1>4, <1>5 DEF OInv, Left

\* Every step keeps them in step.
LEMMA NextOut ==
  ASSUME SInv, OInv, NoSkips, [Next]_vars
  PROVE  OInv'
<1> SUFFICES ASSUME Undisturbed' PROVE OInv'
  BY DEF OInv
<1>1. CASE SendSteps
  <2>1. CASE hello \/ readAck \/ readResponse \/ readDecisions \/ readFailed
    BY <2>1, HelloOut, ReadAckOut, ReadResponseOut, ReadDecisionsOut, ReadFailedOut
  <2>2. CASE appendBytes \/ skipFile \/ chunkError \/ packerClosed \/ sendChunkErr \/ readTransferAck
    BY <2>2, PackOut, ChunkErrorOut, PackerClosedOut, SendChunkErrOut, ReadTransferAckOut
  <2>3. CASE \E c \in {"none", "readFailed", "cancelled"} : closePacker(c)
    BY <2>3, ClosePackerOut
  <2>4. CASE notified \/ drained
    BY <2>4, NotifiedOut, DrainedOut
  <2> QED BY <1>1, <2>1, <2>2, <2>3, <2>4 DEF SendSteps
<1>2. CASE WriterSteps
  BY <1>2, WriterStepsOut
<1>3. CASE RecvSteps
  <2>1. CASE readHello \/ readChallenge \/ readVerdict \/ readListing \/ requestVerify \/ readVerify
    BY <2>1, ReadHelloOut, ReadChallengeOut, ReadVerdictOut, ReadListingOut, RequestVerifyOut, ReadVerifyOut
  <2>2. CASE \E ok \in BOOLEAN : acceptStream(ok) \/ sendDecisions(ok)
    BY <2>2, AcceptStreamOut, SendDecisionsOut
  <2>3. CASE \E tag \in {"good", "bad"} : respond(tag)
    BY <2>3, RespondOut
  <2>4. CASE \E c \in {"declined", "diskFull"} : decline(c)
    BY <2>4, DeclineOut
  <2>5. CASE \E c \in {"none", "targetExists", "writeFailed"} : openTarget(c)
    BY <2>5, TargetOut
  <2>6. CASE \E c \in {"none", "writeFailed"} : commit(c)
    BY <2>6, CommitOut
  <2>7. CASE \E c \in {"writeFailed", "diskFull"} : writeDataFails(c)
    BY <2>7, WriteDataFailsOut
  <2>8. CASE writeData \/ readSkip \/ readTorn \/ readEOF \/ tryReadPeerError \/ dataFails
    BY <2>8, WriteDataOut, ReadSkipOut, ReadTornOut, ReadEOFOut, WhyOut, DataFailsOut
  <2>9. CASE finishRecv \/ recvFails \/ drainControl \/ grace \/ promptAborts
    BY <2>9, FinishRecvOut, RecvFailsOut, DrainControlOut, GraceOut, PromptAbortsOut
  <2> QED BY <1>3, <2>1, <2>2, <2>3, <2>4, <2>5, <2>6, <2>7, <2>8, <2>9 DEF RecvSteps
<1>4. CASE notifyTimesOut \/ cancelSend \/ cancelRecv \/ \E me \in Sides : idleTimeout(me)
  BY <1>4, DisturbedOut
<1>5. CASE \E me \in Sides : closeArrives(me)
  BY <1>5, CloseOut
<1>6. CASE UNCHANGED vars
  <2>1. /\ UNCHANGED <<opt, s, out, r, net, data, conn>>
    BY <1>6 DEF vars
  <2>2. Undisturbed
    BY <2>1 DEF Undisturbed
  <2>3. (Turn => Turn') /\ (Parted => Parted')
    BY <2>1, SameView
  <2>4. Clear /\ (Clear => Clear')
    BY <2>1, <2>2 DEF OInv, Clear
  <2> QED BY <2>1, <2>2, <2>3, <2>4 DEF OInv
<1> QED BY <1>1, <1>2, <1>3, <1>4, <1>5, <1>6 DEF Next

\* The two engines stay in step while nothing disturbs them.
THEOREM OutcomeInvariance == Spec => [](SInv /\ OInv /\ NoSkips)
<1>1. Init => SInv /\ OInv /\ NoSkips
  BY InitInv, InitOut
<1>2. SInv /\ OInv /\ NoSkips /\ [Next]_vars => (SInv /\ OInv /\ NoSkips)'
  BY NextInv, NextOut, NoSkipsNext
<1> QED BY <1>1, <1>2, PTL DEF Spec

\* While nobody cancels, the link holds and notifyPeer is not out of time, the
\* two ends report the same outcome; each keeps its own when both fail at once
\* (declineTransfer, sendChunkErr, tryReadPeerError, drainControl).
THEOREM OutcomeCorrect == Spec => []SameOutcome
<1>1. ASSUME OInv PROVE SameOutcome
  <2> SUFFICES ASSUME Undisturbed, s.pc = "over", r.pc = "over"
               PROVE  \/ s.cause = r.cause
                      \/ s.cause = "readFailed" /\ r.cause \in {"writeFailed", "diskFull", "targetExists"}
                      \/ r.cause = "readFailed" /\ opt.mode \in {"raw", "tar"} /\ s.cause \in Transient
    BY DEF SameOutcome
  <2>1. Parted
    BY <1>1 DEF OInv, Left
  <2> QED BY <2>1 DEF Parted, Agreed, BothFailed, SinkGone, WillBeTold, GaveUp, FolderCodes
<1> QED BY <1>1, OutcomeInvariance, PTL
=============================================================================
