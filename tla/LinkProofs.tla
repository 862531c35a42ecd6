------------------------------ MODULE LinkProofs ------------------------------
(***************************************************************************)
(* The invariants of setting up an internet path, for any number of        *)
(* candidates, faults and address changes.  LInv is inductive: what each   *)
(* side holds of its agent, what the relay and the datagrams under way     *)
(* know of its address, and what became of the sender's choice.            *)
(***************************************************************************)
EXTENDS Link, SequenceTheorems, TLAPS

Picks == {"ice", "relay"}
Undecided == {"new", "check", "publish"}   \* the sender before its choice is out

\* What a side holds of ICE at each of its steps.
IceShape ==
    \A s \in Sides :
        /\ side[s].pc = "new" => side[s].agent = "none" /\ side[s].check = "none"
        /\ side[s].pc \in {"check", "publish", "wind"} /\ side[s].check = "ok" => side[s].agent = "open"
        /\ side[s].path # "none" => side[s].pc = "up"
        /\ side[s].left + side[s].local <= MaxGather

\* No datagram, and no registration, is from an address the side has yet to get;
\* an answer is only to what the relay has recorded.
AddressShape ==
    \A s \in Sides :
        /\ \A m \in net : m.of = s =>
             m.addr <= side[s].addr /\ (m.t = "REGISTERED" => relay.at[s] # Unregistered)
        /\ relay.at[s] \in Addrs => relay.at[s] <= side[s].addr
        /\ relay.at[s] = Tcp => side[s].path = "tcp"
        /\ side[s].path = "udp" => relay.at[s] # Unregistered

\* The sender's choice is in its list once, and the receiver takes no other.
ChoiceShape ==
    LET S == side["sender"]
        R == side["receiver"]
        P == published["sender"]
    IN  /\ \A i \in 1..Len(P) : P[i] \in Picks => P[i] = S.choice /\ S.pc \notin Undecided
        /\ S.pc = "publish" => S.choice \in Picks
        /\ seen.choice # "none" => S.pc \notin Undecided
        /\ seen.choice = "stored" => S.choice \in Picks /\ \E i \in 1..Len(P) : P[i] = S.choice
        /\ seen.choice = "lost" => faults > 0
        /\ R.decision # "none" => R.decision = S.choice /\ S.pc \notin Undecided
        /\ R.since <= Len(P)
        /\ \A i \in 1..R.since : P[i] \in Picks => R.decision # "none"
        /\ seen.polled => seen.choice # "none" /\ R.agent # "none"
        /\ seen.polled /\ seen.choice = "stored" /\ R.pc = "check" => R.decision # "none"

\* While nothing fails, a sender that chose ICE is on its way to it, and a
\* receiver that is on ICE, or about to be, has such a sender.
PathShape ==
    LET S == side["sender"]
        R == side["receiver"]
    IN  /\ faults = 0 /\ S.choice = "ice" =>
             S.pc \in {"publish", "wind", "up"} /\ S.check = "ok" /\ S.path \in {"none", "ice"}
        /\ faults = 0 /\ seen.choice # "refused" /\ (R.path = "ice" \/ (R.pc = "wind" /\ R.check = "ok")) =>
             S.choice = "ice"

LInv ==
    /\ LinkTypeOK
    /\ IceShape
    /\ Released
    /\ AddressShape
    /\ ChoiceShape
    /\ PathShape

\* A side that makes its choice, has no agent, goes on over ICE or without it.
Chosen(x, r, c) == [x EXCEPT !.pc = "publish", !.check = r, !.choice = c]
Agentless(x, p, c) == [x EXCEPT !.pc = p, !.choice = c, !.check = "err", !.push = "done", !.pull = "done"]
OnIce(x) == [iceOver(x) EXCEPT !.pc = "up", !.path = "ice"]
OffIce(x, a) == [iceOver(x) EXCEPT !.pc = "fall", !.agent = a]

\* What happens to a side's record when it makes its choice, ...
LEMMA ChooseRecord ==
  ASSUME NEW x \in Side, NEW y, NEW r \in {"ok", "err"}, NEW c \in Choices, y = Chosen(x, r, c)
  PROVE  /\ y \in Side
         /\ y.pc = "publish" /\ y.check = r /\ y.choice = c
         /\ y.agent = x.agent /\ y.left = x.left /\ y.local = x.local /\ y.push = x.push /\ y.pull = x.pull /\ y.since = x.since
         /\ y.decision = x.decision /\ y.path = x.path /\ y.addr = x.addr
  BY DEF Side, Chosen

\* ... when it has no agent, ...
LEMMA NoAgentRecord ==
  ASSUME NEW x \in Side, NEW y, NEW p \in {"publish", "fall"}, NEW c \in Choices, y = Agentless(x, p, c)
  PROVE  /\ y \in Side
         /\ y.pc = p /\ y.check = "err" /\ y.choice = c /\ y.push = "done" /\ y.pull = "done"
         /\ y.agent = x.agent /\ y.left = x.left /\ y.local = x.local /\ y.since = x.since
         /\ y.decision = x.decision /\ y.path = x.path /\ y.addr = x.addr
  BY ZenonT(60) DEF Side, Agentless

\* ... when the work of ICE is over, ...
LEMMA OverRecord ==
  ASSUME NEW x \in Side
  PROVE  /\ iceOver(x) \in Side
         /\ iceOver(x).left = 0 /\ iceOver(x).local = 0 /\ iceOver(x).since = 0 /\ iceOver(x).decision = "none"
         /\ iceOver(x).pc = x.pc /\ iceOver(x).path = x.path /\ iceOver(x).agent = x.agent /\ iceOver(x).push = x.push
         /\ iceOver(x).pull = x.pull /\ iceOver(x).check = x.check /\ iceOver(x).choice = x.choice /\ iceOver(x).addr = x.addr
<1>1. 0 \in 0..MaxGather /\ 0 \in 0..maxCandidatesPerSide
  BY LinkAssumption
<1>2. PICK y : y = [x EXCEPT !.left = 0, !.local = 0, !.localClosed = TRUE, !.since = 0, !.decision = "none"]
  OBVIOUS
<1>3. y \in Side
  BY <1>1, <1>2 DEF Side, Choices
<1>4. /\ y.left = 0 /\ y.local = 0 /\ y.since = 0 /\ y.decision = "none"
      /\ y.pc = x.pc /\ y.path = x.path /\ y.agent = x.agent /\ y.push = x.push
      /\ y.pull = x.pull /\ y.check = x.check /\ y.choice = x.choice /\ y.addr = x.addr
  BY <1>2 DEF Side
<1>5. iceOver(x) = y
  BY <1>2 DEF iceOver
<1> QED BY <1>3, <1>4, <1>5

\* ... when it takes a path, ...
LEMMA UpRecord ==
  ASSUME NEW z \in Side, NEW y, NEW q \in {"ice", "udp", "tcp"}, y = [z EXCEPT !.pc = "up", !.path = q]
  PROVE  y \in Side
  BY ZenonT(60) DEF Side

\* ... when it falls back, ...
LEMMA FallRecord ==
  ASSUME NEW z \in Side, NEW y, NEW a \in {"none", "closed"}, y = [z EXCEPT !.pc = "fall", !.agent = a]
  PROVE  y \in Side
  BY DEF Side

\* ... and when it goes on, over ICE ...
LEMMA OnIceRecord ==
  ASSUME NEW x \in Side, NEW y, y = OnIce(x)
  PROVE  /\ y \in Side
         /\ y.pc = "up" /\ y.path = "ice" /\ y.agent = x.agent /\ y.left = 0 /\ y.local = 0 /\ y.since = 0 /\ y.decision = "none"
         /\ y.left + y.local <= MaxGather
         /\ y.push = x.push /\ y.pull = x.pull /\ y.check = x.check /\ y.choice = x.choice /\ y.addr = x.addr
<1>z. PICK z : z = iceOver(x)
  OBVIOUS
<1>0. z \in Side
  BY <1>z, OverRecord
<1>1. /\ z.left = 0 /\ z.local = 0 /\ z.since = 0 /\ z.decision = "none"
      /\ z.path = x.path /\ z.agent = x.agent /\ z.push = x.push
      /\ z.pull = x.pull /\ z.check = x.check /\ z.choice = x.choice /\ z.addr = x.addr
  BY <1>z, OverRecord
<1>e. y = [z EXCEPT !.pc = "up", !.path = "ice"]
  BY <1>z DEF OnIce
<1>2. y \in Side
  BY <1>0, <1>e, UpRecord
<1>3. /\ y.pc = "up" /\ y.path = "ice" /\ y.agent = z.agent /\ y.left = z.left /\ y.local = z.local /\ y.since = z.since
      /\ y.decision = z.decision /\ y.push = z.push /\ y.pull = z.pull /\ y.check = z.check /\ y.choice = z.choice /\ y.addr = z.addr
  BY <1>0, <1>e DEF Side
<1>4. y.left + y.local <= MaxGather
  BY <1>1, <1>3, LinkAssumption
<1> QED BY <1>1, <1>2, <1>3, <1>4

\* ... or without it.
LEMMA OffIceRecord ==
  ASSUME NEW x \in Side, NEW a \in {"none", "closed"}, NEW y, y = OffIce(x, a)
  PROVE  /\ y \in Side
         /\ y.pc = "fall" /\ y.agent = a /\ y.path = x.path /\ y.left = 0 /\ y.local = 0 /\ y.since = 0 /\ y.decision = "none"
         /\ y.left + y.local <= MaxGather
         /\ y.push = x.push /\ y.pull = x.pull /\ y.check = x.check /\ y.choice = x.choice /\ y.addr = x.addr
<1>z. PICK z : z = iceOver(x)
  OBVIOUS
<1>0. z \in Side
  BY <1>z, OverRecord
<1>1. /\ z.left = 0 /\ z.local = 0 /\ z.since = 0 /\ z.decision = "none"
      /\ z.path = x.path /\ z.agent = x.agent /\ z.push = x.push
      /\ z.pull = x.pull /\ z.check = x.check /\ z.choice = x.choice /\ z.addr = x.addr
  BY <1>z, OverRecord
<1>e. y = [z EXCEPT !.pc = "fall", !.agent = a]
  BY <1>z DEF OffIce
<1>2. y \in Side
  BY <1>0, <1>e, FallRecord
<1>3. /\ y.pc = "fall" /\ y.agent = a /\ y.path = z.path /\ y.left = z.left /\ y.local = z.local /\ y.since = z.since
      /\ y.decision = z.decision /\ y.push = z.push /\ y.pull = z.pull /\ y.check = z.check /\ y.choice = z.choice /\ y.addr = z.addr
  BY <1>0, <1>e DEF Side
<1>4. y.left + y.local <= MaxGather
  BY <1>1, <1>3, LinkAssumption
<1> QED BY <1>1, <1>2, <1>3, <1>4

-----------------------------------------------------------------------------
\* A side that keeps its place, its agent, its choice and its address; its
\* goroutines do not come back.
Steady(o) ==
    /\ side'[o].pc = side[o].pc /\ side'[o].agent = side[o].agent /\ side'[o].check = side[o].check
    /\ side'[o].decision = side[o].decision /\ side'[o].choice = side[o].choice /\ side'[o].since = side[o].since
    /\ side'[o].path = side[o].path /\ side'[o].addr = side[o].addr
    /\ side[o].push = "done" => side'[o].push = "done"
    /\ side[o].pull = "done" => side'[o].pull = "done"
    /\ side[o].left + side[o].local <= MaxGather => side'[o].left + side'[o].local <= MaxGather

\* What Set does.
LEMMA SetEffect ==
  ASSUME LinkTypeOK, NEW s \in Sides, NEW r \in Side, Set(s, r)
  PROVE  side' \in [Sides -> Side] /\ side'[s] = r /\ \A o \in Sides : o # s => side'[o] = side[o]
<1>1. side \in [Sides -> Side] /\ side' = [side EXCEPT ![s] = r]
  BY DEF LinkTypeOK, Set
<1> QED BY <1>1

\* The other side.
LEMMA OtherSide ==
  /\ "sender" \in Sides /\ "receiver" \in Sides /\ "sender" # "receiver"
  /\ \A s \in Sides : s = "sender" \/ s = "receiver"
  /\ \A s \in Sides : Other(s) \in Sides /\ Other(s) # s
  BY DEF Sides, Other

\* A fault is one more.
LEMMA FaultCounts ==
  ASSUME LinkTypeOK, Fault
  PROVE  faults' \in 0..MaxFaults /\ faults' > 0 /\ faults \in Nat
  BY LinkAssumption DEF LinkTypeOK, Fault

\* A list only grows, here by candidates.
Grown(P, Q) ==
    /\ Len(P) <= Len(Q)
    /\ \A i \in 1..Len(P) : Q[i] = P[i]
    /\ \A i \in 1..Len(Q) : i > Len(P) => Q[i] \notin Picks

\* While the sides keep still only the addresses and the candidates can change.
LEMMA GrownStep ==
  ASSUME LInv, LinkTypeOK', AddressShape', \A o \in Sides : Steady(o), UNCHANGED seen,
         Grown(published["sender"], published'["sender"]), faults' = faults \/ faults' > 0
  PROVE  LInv'
<1>0. faults' = 0 => faults = 0
  BY DEF LInv, LinkTypeOK
<1>1. IceShape'
  BY DEF LInv, IceShape, Steady
<1>2. Released'
  BY DEF LInv, Released, Steady
<1>3. ChoiceShape'
  <2> DEFINE S == side["sender"]
             R == side["receiver"]
             P == published["sender"]
             Q == published'["sender"]
  <2>1. Len(P) \in Nat /\ Len(Q) \in Nat /\ R.since \in Nat
    BY OtherSide, LinkAssumption, LenProperties DEF LInv, LinkTypeOK, Side
  <2>2. /\ \A i \in 1..Len(P) : P[i] \in Picks => P[i] = S.choice /\ S.pc \notin Undecided
        /\ seen.choice = "stored" => S.choice \in Picks /\ \E i \in 1..Len(P) : P[i] = S.choice
        /\ R.since <= Len(P)
        /\ \A i \in 1..R.since : P[i] \in Picks => R.decision # "none"
    BY DEF LInv, ChoiceShape
  <2>3. /\ side'["sender"].choice = S.choice /\ side'["sender"].pc = S.pc
        /\ side'["receiver"].since = R.since /\ side'["receiver"].decision = R.decision
    BY OtherSide DEF Steady
  <2>4. Len(P) <= Len(Q) /\ \A i \in 1..Len(P) : Q[i] = P[i]
    BY DEF Grown
  <2>5. \A i \in 1..Len(Q) : Q[i] \in Picks => Q[i] = S.choice /\ S.pc \notin Undecided
    BY <2>1, <2>2, <2>4 DEF Grown
  <2>6. seen.choice = "stored" => S.choice \in Picks /\ \E i \in 1..Len(Q) : Q[i] = S.choice
    BY <2>1, <2>2, <2>4
  <2>7. R.since <= Len(Q)
    BY <2>1, <2>2, <2>4
  <2>8. \A i \in 1..R.since : Q[i] \in Picks => R.decision # "none"
    BY <2>1, <2>2, <2>4
  <2> HIDE DEF P, Q
  <2>9. /\ S.pc = "publish" => S.choice \in Picks
        /\ seen.choice # "none" => S.pc \notin Undecided
        /\ seen.choice = "lost" => faults > 0
        /\ R.decision # "none" => R.decision = S.choice /\ S.pc \notin Undecided
        /\ seen.polled => seen.choice # "none" /\ R.agent # "none"
        /\ seen.polled /\ seen.choice = "stored" /\ R.pc = "check" => R.decision # "none"
    BY DEF LInv, ChoiceShape
  <2> QED BY <2>3, <2>5, <2>6, <2>7, <2>8, <2>9, <1>0, OtherSide DEF ChoiceShape, Steady, Q, LInv, LinkTypeOK
<1>4. PathShape'
  BY <1>0, OtherSide DEF LInv, PathShape, Steady
<1> QED BY <1>1, <1>2, <1>3, <1>4 DEF LInv

\* The same when the server keeps what it has.
LEMMA SteadyStep ==
  ASSUME LInv, LinkTypeOK', AddressShape', \A o \in Sides : Steady(o), UNCHANGED <<published, seen>>,
         faults' = faults \/ faults' > 0
  PROVE  LInv'
<1>1. Len(published["sender"]) \in Nat
  BY OtherSide, LenProperties DEF LInv, LinkTypeOK
<1>2. Grown(published["sender"], published'["sender"])
  BY <1>1 DEF Grown
<1> QED BY <1>2, GrownStep

\* No address changes and no datagram moves.
LEMMA SameAddresses ==
  ASSUME AddressShape, UNCHANGED <<relay, net>>,
         \A o \in Sides : side'[o].addr = side[o].addr /\ side'[o].path = side[o].path
  PROVE  AddressShape'
  BY DEF AddressShape

\* Gathering moves no other state.
LEMMA GatherStep ==
  ASSUME LInv, NEW s \in Sides, gather(s)
  PROVE  LInv'
<1> DEFINE x == side[s]
<1>0. LinkTypeOK /\ x \in Side /\ x.left + x.local <= MaxGather
  BY DEF LInv, LinkTypeOK, IceShape
<1>1. UNCHANGED <<faults, published, relay, net, seen>>
  BY DEF gather, Server
<1>2. PICK y : /\ Set(s, y)
               /\ \/ x.left > 0 /\ y = [x EXCEPT !.left = x.left - 1, !.local = x.local + 1]
                  \/ y = [x EXCEPT !.left = 0, !.localClosed = TRUE]
  BY DEF gather
<1> HIDE DEF x
<1>3. x.left \in 0..MaxGather /\ x.local \in 0..MaxGather /\ 0 \in 0..MaxGather
  BY <1>0, LinkAssumption DEF Side
<1>4. /\ y \in Side /\ y.pc = x.pc /\ y.agent = x.agent /\ y.check = x.check /\ y.decision = x.decision
      /\ y.choice = x.choice /\ y.since = x.since /\ y.path = x.path /\ y.addr = x.addr
      /\ y.push = x.push /\ y.pull = x.pull /\ y.left + y.local <= MaxGather
  <2>1. CASE x.left > 0 /\ y = [x EXCEPT !.left = x.left - 1, !.local = x.local + 1]
    <3>1. x.left - 1 \in 0..MaxGather /\ x.local + 1 \in 0..MaxGather /\ (x.left - 1) + (x.local + 1) <= MaxGather
      BY <1>0, <1>3, <2>1, LinkAssumption
    <3> QED BY <1>0, <2>1, <3>1 DEF Side
  <2>2. CASE y = [x EXCEPT !.left = 0, !.localClosed = TRUE]
    <3>1. 0 + x.local <= MaxGather
      BY <1>3, LinkAssumption
    <3> QED BY <1>0, <1>3, <2>2, <3>1 DEF Side
  <2> QED BY <1>2, <2>1, <2>2
<1>5. side' \in [Sides -> Side] /\ side'[s] = y /\ \A o \in Sides : o # s => side'[o] = side[o]
  BY <1>0, <1>2, <1>4, SetEffect
<1>6. \A o \in Sides : Steady(o)
  BY <1>4, <1>5 DEF Steady, x
<1>7. LinkTypeOK'
  BY <1>0, <1>1, <1>5 DEF LinkTypeOK
<1>8. AddressShape'
  BY <1>1, <1>6, SameAddresses DEF LInv, Steady
<1> QED BY <1>1, <1>6, <1>7, <1>8, SteadyStep

\* The pushing goroutine takes what is gathered.
LEMMA PushTakeStep ==
  ASSUME LInv, NEW s \in Sides, pushTake(s)
  PROVE  LInv'
<1> DEFINE x == side[s]
<1>0. LinkTypeOK /\ x \in Side /\ x.left + x.local <= MaxGather
  BY DEF LInv, LinkTypeOK, IceShape
<1>1. UNCHANGED <<faults, published, relay, net, seen>> /\ Set(s, [side[s] EXCEPT !.push = "busy", !.batch = side[s].local, !.local = 0]) /\ side[s].push = "idle"
  BY DEF pushTake, Server
<1> HIDE DEF x
<1>2. PICK y : y = [x EXCEPT !.push = "busy", !.batch = x.local, !.local = 0] /\ Set(s, y)
  BY <1>1 DEF x
<1>3. x.left \in 0..MaxGather /\ x.local \in 0..MaxGather /\ 0 \in 0..MaxGather
  BY <1>0, LinkAssumption DEF Side
<1>4. /\ y \in Side
      /\ y.pc = x.pc /\ y.agent = x.agent /\ y.left = x.left /\ y.pull = x.pull /\ y.since = x.since /\ y.check = x.check
      /\ y.decision = x.decision /\ y.choice = x.choice /\ y.path = x.path /\ y.addr = x.addr
      /\ y.push = "busy" /\ y.local = 0
  BY <1>0, <1>2, <1>3 DEF Side
<1>5. y.left + y.local <= MaxGather
  BY <1>0, <1>3, <1>4, LinkAssumption
<1>6. side' \in [Sides -> Side] /\ side'[s] = y /\ \A o \in Sides : o # s => side'[o] = side[o]
  BY <1>0, <1>2, <1>4, SetEffect
<1>7. \A o \in Sides : Steady(o)
  BY <1>1, <1>4, <1>5, <1>6 DEF Steady, x
<1>8. LinkTypeOK'
  BY <1>0, <1>1, <1>6 DEF LinkTypeOK
<1>9. AddressShape'
  BY <1>1, <1>7, SameAddresses DEF LInv, Steady
<1> QED BY <1>1, <1>7, <1>8, <1>9, SteadyStep

\* The pushing goroutine ends.
LEMMA PushEndsStep ==
  ASSUME LInv, NEW s \in Sides, pushEnds(s)
  PROVE  LInv'
<1> DEFINE x == side[s]
<1>0. LinkTypeOK /\ x \in Side /\ x.left + x.local <= MaxGather
  BY DEF LInv, LinkTypeOK, IceShape
<1>1. UNCHANGED <<faults, published, relay, net, seen>> /\ Set(s, [side[s] EXCEPT !.push = "done", !.local = 0]) /\ side[s].push = "idle"
  BY DEF pushEnds, Server
<1> HIDE DEF x
<1>2. PICK y : y = [x EXCEPT !.push = "done", !.local = 0] /\ Set(s, y)
  BY <1>1 DEF x
<1>3. x.left \in 0..MaxGather /\ x.local \in 0..MaxGather /\ 0 \in 0..MaxGather
  BY <1>0, LinkAssumption DEF Side
<1>4. /\ y \in Side
      /\ y.pc = x.pc /\ y.agent = x.agent /\ y.left = x.left /\ y.pull = x.pull /\ y.since = x.since /\ y.check = x.check
      /\ y.decision = x.decision /\ y.choice = x.choice /\ y.path = x.path /\ y.addr = x.addr
      /\ y.push = "done" /\ y.local = 0
  BY <1>0, <1>2, <1>3 DEF Side
<1>5. y.left + y.local <= MaxGather
  BY <1>0, <1>3, <1>4, LinkAssumption
<1>6. side' \in [Sides -> Side] /\ side'[s] = y /\ \A o \in Sides : o # s => side'[o] = side[o]
  BY <1>0, <1>2, <1>4, SetEffect
<1>7. \A o \in Sides : Steady(o)
  BY <1>1, <1>4, <1>5, <1>6 DEF Steady, x
<1>8. LinkTypeOK'
  BY <1>0, <1>1, <1>6 DEF LinkTypeOK
<1>9. AddressShape'
  BY <1>1, <1>7, SameAddresses DEF LInv, Steady
<1> QED BY <1>1, <1>7, <1>8, <1>9, SteadyStep

\* The pulling goroutine ends.
LEMMA PullEndsStep ==
  ASSUME LInv, NEW s \in Sides, pullEnds(s)
  PROVE  LInv'
<1> DEFINE x == side[s]
<1>0. LinkTypeOK /\ x \in Side /\ x.left + x.local <= MaxGather
  BY DEF LInv, LinkTypeOK, IceShape
<1>1. UNCHANGED <<faults, published, relay, net, seen>> /\ Set(s, [side[s] EXCEPT !.pull = "done"]) 
  BY DEF pullEnds, Server
<1> HIDE DEF x
<1>2. PICK y : y = [x EXCEPT !.pull = "done"] /\ Set(s, y)
  BY <1>1 DEF x
<1>3. x.left \in 0..MaxGather /\ x.local \in 0..MaxGather /\ 0 \in 0..MaxGather
  BY <1>0, LinkAssumption DEF Side
<1>4. /\ y \in Side
      /\ y.pc = x.pc /\ y.agent = x.agent /\ y.left = x.left /\ y.local = x.local /\ y.push = x.push /\ y.since = x.since
      /\ y.check = x.check /\ y.decision = x.decision /\ y.choice = x.choice /\ y.path = x.path /\ y.addr = x.addr
      /\ y.pull = "done"
  BY <1>0, <1>2, <1>3 DEF Side
<1>5. y.left + y.local <= MaxGather
  BY <1>0, <1>3, <1>4, LinkAssumption
<1>6. side' \in [Sides -> Side] /\ side'[s] = y /\ \A o \in Sides : o # s => side'[o] = side[o]
  BY <1>0, <1>2, <1>4, SetEffect
<1>7. \A o \in Sides : Steady(o)
  BY <1>1, <1>4, <1>5, <1>6 DEF Steady, x
<1>8. LinkTypeOK'
  BY <1>0, <1>1, <1>6 DEF LinkTypeOK
<1>9. AddressShape'
  BY <1>1, <1>7, SameAddresses DEF LInv, Steady
<1> QED BY <1>1, <1>7, <1>8, <1>9, SteadyStep

\* The checks find a pair.
LEMMA ConnectsStep ==
  ASSUME LInv, NEW s \in Sides, connects(s)
  PROVE  LInv'
<1> DEFINE x == side[s]
<1>0. LinkTypeOK /\ x \in Side /\ x.left + x.local <= MaxGather
  BY OtherSide DEF LInv, LinkTypeOK, IceShape
<1>1. /\ side[s].pc = "check" /\ side[s].agent = "open" /\ Set(s, [side[s] EXCEPT !.check = "ok"])
      /\ UNCHANGED <<faults, published, relay, net, seen>>
  BY DEF connects, Server
<1> HIDE DEF x
<1>2. PICK y : y = [x EXCEPT !.check = "ok"] /\ Set(s, y)
  BY <1>1 DEF x
<1>3. 0 \in 0..MaxGather /\ 0 \in 0..maxCandidatesPerSide
  BY LinkAssumption
<1>4. /\ y \in Side
      /\ y.pc = x.pc /\ y.agent = x.agent /\ y.left = x.left /\ y.local = x.local /\ y.push = x.push /\ y.pull = x.pull
      /\ y.since = x.since /\ y.decision = x.decision /\ y.choice = x.choice /\ y.path = x.path /\ y.addr = x.addr
      /\ y.check = "ok"
  BY <1>0, <1>1, <1>2, <1>3 DEF Side, Choices
<1>5. side' \in [Sides -> Side] /\ side'[s] = y /\ \A o \in Sides : o # s => side'[o] = side[o]
  BY <1>0, <1>2, <1>4, SetEffect, OtherSide
<1>6. faults' \in 0..MaxFaults /\ faults \in Nat /\ (faults' = 0 => UNCHANGED faults)
  BY <1>0, <1>1, FaultCounts DEF LinkTypeOK
<1>t. LinkTypeOK'
  BY <1>0, <1>1, <1>5, <1>6 DEF LinkTypeOK
<1>i. IceShape'
  BY <1>1, <1>4, <1>5 DEF LInv, IceShape, x
<1>r. Released'
  BY <1>1, <1>4, <1>5 DEF LInv, IceShape, Released, x
<1>a. AddressShape'
  BY <1>1, <1>4, <1>5, SameAddresses DEF LInv, x
<1>c. ChoiceShape'
  BY <1>1, <1>4, <1>5, <1>6, OtherSide DEF LInv, IceShape, ChoiceShape, Undecided, Picks, x
<1>p. PathShape'
  BY <1>1, <1>4, <1>5, <1>6, OtherSide DEF LInv, IceShape, ChoiceShape, PathShape, x
<1> QED BY <1>t, <1>i, <1>r, <1>a, <1>c, <1>p DEF LInv

\* The budget of the sender ends.
LEMMA DialTimesOutStep ==
  ASSUME LInv, dialTimesOut
  PROVE  LInv'
<1> DEFINE x == side["sender"]
<1>0. LinkTypeOK /\ x \in Side /\ x.left + x.local <= MaxGather
  BY OtherSide DEF LInv, LinkTypeOK, IceShape
<1>1. /\ side["sender"].pc = "check" /\ Set("sender", [side["sender"] EXCEPT !.check = "err"])
      /\ UNCHANGED <<faults, published, relay, net, seen>>
  BY DEF dialTimesOut, Server
<1> HIDE DEF x
<1>2. PICK y : y = [x EXCEPT !.check = "err"] /\ Set("sender", y)
  BY <1>1 DEF x
<1>3. 0 \in 0..MaxGather /\ 0 \in 0..maxCandidatesPerSide
  BY LinkAssumption
<1>4. /\ y \in Side
      /\ y.pc = x.pc /\ y.agent = x.agent /\ y.left = x.left /\ y.local = x.local /\ y.push = x.push /\ y.pull = x.pull
      /\ y.since = x.since /\ y.decision = x.decision /\ y.choice = x.choice /\ y.path = x.path /\ y.addr = x.addr
      /\ y.check = "err"
  BY <1>0, <1>1, <1>2, <1>3 DEF Side, Choices
<1>5. side' \in [Sides -> Side] /\ side'["sender"] = y /\ \A o \in Sides : o # "sender" => side'[o] = side[o]
  BY <1>0, <1>2, <1>4, SetEffect, OtherSide
<1>6. faults' \in 0..MaxFaults /\ faults \in Nat /\ (faults' = 0 => UNCHANGED faults)
  BY <1>0, <1>1, FaultCounts DEF LinkTypeOK
<1>t. LinkTypeOK'
  BY <1>0, <1>1, <1>5, <1>6 DEF LinkTypeOK
<1>i. IceShape'
  BY <1>1, <1>4, <1>5 DEF LInv, IceShape, x
<1>r. Released'
  BY <1>1, <1>4, <1>5 DEF LInv, IceShape, Released, x
<1>a. AddressShape'
  BY <1>1, <1>4, <1>5, SameAddresses DEF LInv, x
<1>c. ChoiceShape'
  BY <1>1, <1>4, <1>5, <1>6, OtherSide DEF LInv, IceShape, ChoiceShape, Undecided, Picks, x
<1>p. PathShape'
  BY <1>1, <1>4, <1>5, <1>6, OtherSide DEF LInv, IceShape, ChoiceShape, PathShape, x
<1> QED BY <1>t, <1>i, <1>r, <1>a, <1>c, <1>p DEF LInv

\* Accept fails on its own.
LEMMA AcceptFailsStep ==
  ASSUME LInv, acceptFails
  PROVE  LInv'
<1> DEFINE x == side["receiver"]
<1>0. LinkTypeOK /\ x \in Side /\ x.left + x.local <= MaxGather
  BY OtherSide DEF LInv, LinkTypeOK, IceShape
<1>1. /\ side["receiver"].pc = "check" /\ Fault /\ Set("receiver", [side["receiver"] EXCEPT !.check = "err"])
      /\ UNCHANGED <<published, relay, net, seen>>
  BY DEF acceptFails, Server
<1> HIDE DEF x
<1>2. PICK y : y = [x EXCEPT !.check = "err"] /\ Set("receiver", y)
  BY <1>1 DEF x
<1>3. 0 \in 0..MaxGather /\ 0 \in 0..maxCandidatesPerSide
  BY LinkAssumption
<1>4. /\ y \in Side
      /\ y.pc = x.pc /\ y.agent = x.agent /\ y.left = x.left /\ y.local = x.local /\ y.push = x.push /\ y.pull = x.pull
      /\ y.since = x.since /\ y.decision = x.decision /\ y.choice = x.choice /\ y.path = x.path /\ y.addr = x.addr
      /\ y.check = "err"
  BY <1>0, <1>1, <1>2, <1>3 DEF Side, Choices
<1>5. side' \in [Sides -> Side] /\ side'["receiver"] = y /\ \A o \in Sides : o # "receiver" => side'[o] = side[o]
  BY <1>0, <1>2, <1>4, SetEffect, OtherSide
<1>6. faults' \in 0..MaxFaults /\ faults \in Nat /\ (faults' = 0 => UNCHANGED faults) /\ faults' > 0
  BY <1>0, <1>1, FaultCounts DEF LinkTypeOK
<1>t. LinkTypeOK'
  BY <1>0, <1>1, <1>5, <1>6 DEF LinkTypeOK
<1>i. IceShape'
  BY <1>1, <1>4, <1>5 DEF LInv, IceShape, x
<1>r. Released'
  BY <1>1, <1>4, <1>5 DEF LInv, IceShape, Released, x
<1>a. AddressShape'
  BY <1>1, <1>4, <1>5, SameAddresses DEF LInv, x
<1>c. ChoiceShape'
  BY <1>1, <1>4, <1>5, <1>6, OtherSide DEF LInv, IceShape, ChoiceShape, Undecided, Picks, x
<1>p. PathShape'
  BY <1>1, <1>4, <1>5, <1>6, OtherSide DEF LInv, IceShape, ChoiceShape, PathShape, x
<1> QED BY <1>t, <1>i, <1>r, <1>a, <1>c, <1>p DEF LInv

\* The user cancels.
LEMMA CancelsStep ==
  ASSUME LInv, NEW s \in Sides, cancels(s)
  PROVE  LInv'
<1> DEFINE x == side[s]
<1>0. LinkTypeOK /\ x \in Side /\ x.left + x.local <= MaxGather
  BY OtherSide DEF LInv, LinkTypeOK, IceShape
<1>1. /\ side[s].pc = "check" /\ Fault /\ Set(s, [side[s] EXCEPT !.cancel = TRUE, !.check = "err", !.pc = "wind", !.stop = TRUE])
      /\ seen' = [seen EXCEPT !.choice = IF s = "sender" THEN "lost" ELSE seen.choice] /\ UNCHANGED <<published, relay, net>>
  BY DEF cancels
<1> HIDE DEF x
<1>2. PICK y : y = [x EXCEPT !.cancel = TRUE, !.check = "err", !.pc = "wind", !.stop = TRUE] /\ Set(s, y)
  BY <1>1 DEF x
<1>3. 0 \in 0..MaxGather /\ 0 \in 0..maxCandidatesPerSide
  BY LinkAssumption
<1>4. /\ y \in Side
      /\ y.agent = x.agent /\ y.left = x.left /\ y.local = x.local /\ y.push = x.push /\ y.pull = x.pull /\ y.since = x.since
      /\ y.decision = x.decision /\ y.choice = x.choice /\ y.path = x.path /\ y.addr = x.addr
      /\ y.check = "err" /\ y.pc = "wind"
  BY <1>0, <1>1, <1>2, <1>3, ZenonT(60) DEF Side, Choices
<1>5. side' \in [Sides -> Side] /\ side'[s] = y /\ \A o \in Sides : o # s => side'[o] = side[o]
  BY <1>0, <1>2, <1>4, SetEffect, OtherSide
<1>6. faults' \in 0..MaxFaults /\ faults \in Nat /\ (faults' = 0 => UNCHANGED faults) /\ faults' > 0
  BY <1>0, <1>1, FaultCounts DEF LinkTypeOK
<1>7. /\ seen' \in [choice : {"none", "stored", "lost", "refused"}, polled : BOOLEAN] /\ seen'.polled = seen.polled
      /\ seen'.choice = IF s = "sender" THEN "lost" ELSE seen.choice
  BY <1>0, <1>1 DEF LinkTypeOK
<1>t. LinkTypeOK'
  BY <1>0, <1>1, <1>5, <1>6, <1>7 DEF LinkTypeOK
<1>i. IceShape'
  BY <1>1, <1>4, <1>5 DEF LInv, IceShape, x
<1>r. Released'
  BY <1>1, <1>4, <1>5 DEF LInv, IceShape, Released, x
<1>a. AddressShape'
  BY <1>1, <1>4, <1>5, SameAddresses DEF LInv, x
<1>c. ChoiceShape'
  BY <1>1, <1>4, <1>5, <1>6, <1>7, OtherSide DEF LInv, IceShape, ChoiceShape, Undecided, Picks, x
<1>p. PathShape'
  BY <1>6 DEF PathShape
<1> QED BY <1>t, <1>i, <1>r, <1>a, <1>c, <1>p DEF LInv

\* The agent starts.
LEMMA IceNewStep ==
  ASSUME LInv, NEW s \in Sides, side[s].pc = "new", Set(s, [side[s] EXCEPT !.pc = "check", !.agent = "open"]), UNCHANGED <<faults, published, net, seen>>,
         relay' = [relay EXCEPT !.allocated = relay.allocated \/ relay.kind = "old"]
  PROVE  LInv'
<1> DEFINE x == side[s]
<1>0. LinkTypeOK /\ x \in Side /\ x.left + x.local <= MaxGather
  BY OtherSide DEF LInv, LinkTypeOK, IceShape
<1>1. /\ side[s].pc = "new" /\ relay'.at = relay.at
      /\ relay' \in [kind : {"full", "old", "stun"}, allocated : BOOLEAN, at : [Sides -> 0..Unregistered]]
  BY <1>0 DEF LinkTypeOK
<1> HIDE DEF x
<1>2. PICK y : y = [x EXCEPT !.pc = "check", !.agent = "open"] /\ Set(s, y)
  BY <1>1 DEF x
<1>3. 0 \in 0..MaxGather /\ 0 \in 0..maxCandidatesPerSide
  BY LinkAssumption
<1>4. /\ y \in Side
      /\ y.left = x.left /\ y.local = x.local /\ y.push = x.push /\ y.pull = x.pull /\ y.since = x.since /\ y.check = x.check
      /\ y.decision = x.decision /\ y.choice = x.choice /\ y.path = x.path /\ y.addr = x.addr
      /\ y.pc = "check" /\ y.agent = "open"
  BY <1>0, <1>1, <1>2, <1>3, ZenonT(60) DEF Side, Choices
<1>5. side' \in [Sides -> Side] /\ side'[s] = y /\ \A o \in Sides : o # s => side'[o] = side[o]
  BY <1>0, <1>2, <1>4, SetEffect, OtherSide
<1>6. faults' \in 0..MaxFaults /\ faults \in Nat /\ (faults' = 0 => UNCHANGED faults)
  BY <1>0, <1>1, FaultCounts DEF LinkTypeOK
<1>t. LinkTypeOK'
  BY <1>0, <1>1, <1>5, <1>6 DEF LinkTypeOK
<1>i. IceShape'
  BY <1>1, <1>4, <1>5 DEF LInv, IceShape, x
<1>r. Released'
  BY <1>1, <1>4, <1>5 DEF LInv, IceShape, Released, x
<1>a. AddressShape'
  BY <1>1, <1>4, <1>5 DEF LInv, AddressShape, x
<1>c. ChoiceShape'
  BY <1>1, <1>4, <1>5, <1>6, OtherSide, SMTT(30) DEF LInv, IceShape, ChoiceShape, Undecided, Picks, x
<1>p. PathShape'
  BY <1>1, <1>4, <1>5, <1>6, OtherSide DEF LInv, IceShape, ChoiceShape, PathShape, x
<1> QED BY <1>t, <1>i, <1>r, <1>a, <1>c, <1>p DEF LInv

\* The receiver has made up its mind.
LEMMA DecidesStep ==
  ASSUME LInv, NEW c \in {"ok", "err"}, c = "ok" => side["receiver"].check = "ok", side["receiver"].pc = "check", Decides(c),
         UNCHANGED <<published, relay, net, seen>>, Fault \/ UNCHANGED faults,
         faults = 0 /\ UNCHANGED faults /\ seen.choice # "refused" /\ c = "ok" => side["sender"].choice = "ice"
  PROVE  LInv'
<1> DEFINE x == side["receiver"]
<1>0. LinkTypeOK /\ x \in Side /\ x.left + x.local <= MaxGather
  BY OtherSide DEF LInv, LinkTypeOK, IceShape
<1>1. Set("receiver", [side["receiver"] EXCEPT !.pc = "wind", !.check = c, !.stop = TRUE])
  BY DEF Decides
<1> HIDE DEF x
<1>2. PICK y : y = [x EXCEPT !.pc = "wind", !.check = c, !.stop = TRUE] /\ Set("receiver", y)
  BY <1>1 DEF x
<1>3. 0 \in 0..MaxGather /\ 0 \in 0..maxCandidatesPerSide
  BY LinkAssumption
<1>4. /\ y \in Side
      /\ y.agent = x.agent /\ y.left = x.left /\ y.local = x.local /\ y.push = x.push /\ y.pull = x.pull /\ y.since = x.since
      /\ y.decision = x.decision /\ y.choice = x.choice /\ y.path = x.path /\ y.addr = x.addr
      /\ y.pc = "wind" /\ y.check = c
  BY <1>0, <1>1, <1>2, <1>3, ZenonT(60) DEF Side, Choices
<1>5. side' \in [Sides -> Side] /\ side'["receiver"] = y /\ \A o \in Sides : o # "receiver" => side'[o] = side[o]
  BY <1>0, <1>2, <1>4, SetEffect, OtherSide
<1>6. faults' \in 0..MaxFaults /\ faults \in Nat /\ (faults' = 0 => UNCHANGED faults)
  BY <1>0, <1>1, FaultCounts DEF LinkTypeOK
<1>t. LinkTypeOK'
  BY <1>0, <1>1, <1>5, <1>6 DEF LinkTypeOK
<1>i. IceShape'
  BY <1>1, <1>4, <1>5 DEF LInv, IceShape, x
<1>r. Released'
  BY <1>1, <1>4, <1>5 DEF LInv, IceShape, Released, x
<1>a. AddressShape'
  BY <1>1, <1>4, <1>5, SameAddresses DEF LInv, x
<1>c. ChoiceShape'
  BY <1>1, <1>4, <1>5, <1>6, OtherSide DEF LInv, IceShape, ChoiceShape, Undecided, Picks, x
<1>p. PathShape'
  BY <1>1, <1>4, <1>5, <1>6, OtherSide DEF LInv, IceShape, ChoiceShape, PathShape, x
<1> QED BY <1>t, <1>i, <1>r, <1>a, <1>c, <1>p DEF LInv

\* A side moves on in the fallback.
LEMMA FallStep ==
  ASSUME LInv, NEW s \in Sides, side[s].pc \in {"fall", "alloc", "udp", "tcp"}, NEW p \in {"alloc", "udp", "tcp", "failed"},
         Set(s, [side[s] EXCEPT !.pc = p]), UNCHANGED <<published, net, seen>>, Fault \/ UNCHANGED faults,
         relay' = relay \/ relay' = [relay EXCEPT !.allocated = TRUE]
  PROVE  LInv'
<1> DEFINE x == side[s]
<1>0. LinkTypeOK /\ x \in Side /\ x.left + x.local <= MaxGather
  BY OtherSide DEF LInv, LinkTypeOK, IceShape
<1>1. /\ relay'.at = relay.at
      /\ relay' \in [kind : {"full", "old", "stun"}, allocated : BOOLEAN, at : [Sides -> 0..Unregistered]]
  BY <1>0 DEF LinkTypeOK
<1> HIDE DEF x
<1>2. PICK y : y = [x EXCEPT !.pc = p] /\ Set(s, y)
  BY <1>1 DEF x
<1>3. 0 \in 0..MaxGather /\ 0 \in 0..maxCandidatesPerSide
  BY LinkAssumption
<1>4. /\ y \in Side
      /\ y.agent = x.agent /\ y.left = x.left /\ y.local = x.local /\ y.push = x.push /\ y.pull = x.pull /\ y.since = x.since
      /\ y.check = x.check /\ y.decision = x.decision /\ y.choice = x.choice /\ y.path = x.path /\ y.addr = x.addr
      /\ y.pc = p
  BY <1>0, <1>1, <1>2, <1>3 DEF Side, Choices
<1>5. side' \in [Sides -> Side] /\ side'[s] = y /\ \A o \in Sides : o # s => side'[o] = side[o]
  BY <1>0, <1>2, <1>4, SetEffect, OtherSide
<1>6. faults' \in 0..MaxFaults /\ faults \in Nat /\ (faults' = 0 => UNCHANGED faults)
  BY <1>0, <1>1, FaultCounts DEF LinkTypeOK
<1>t. LinkTypeOK'
  BY <1>0, <1>1, <1>5, <1>6 DEF LinkTypeOK
<1>i. IceShape'
  BY <1>1, <1>4, <1>5 DEF LInv, IceShape, x
<1>r. Released'
  BY <1>1, <1>4, <1>5 DEF LInv, IceShape, Released, x
<1>a. AddressShape'
  BY <1>1, <1>4, <1>5 DEF LInv, AddressShape, x
<1>c. ChoiceShape'
  BY <1>1, <1>4, <1>5, <1>6, OtherSide, SMTT(30) DEF LInv, ChoiceShape, Undecided, Picks, x
<1>p. PathShape'
  BY <1>1, <1>4, <1>5, <1>6, OtherSide DEF LInv, IceShape, ChoiceShape, PathShape, x
<1> QED BY <1>t, <1>i, <1>r, <1>a, <1>c, <1>p DEF LInv

\* Dial returns, and the sender makes its choice.
LEMMA DialEndsStep ==
  ASSUME LInv, NEW y \in Side, Set("sender", y),
         y.agent = side["sender"].agent, y.left = side["sender"].left, y.local = side["sender"].local, y.push = side["sender"].push, y.pull = side["sender"].pull, y.since = side["sender"].since,
          y.decision = side["sender"].decision, y.path = side["sender"].path, y.addr = side["sender"].addr,
         NEW r \in {"ok", "err"}, NEW c \in {"ice", "relay"}, c = "ice" => r = "ok", y.pc = "publish", y.check = r, y.choice = c,
         UNCHANGED <<published, relay, net, seen>>, side["sender"].pc = "check", (r = "ok" => side["sender"].check = "ok"),
         r # side["sender"].check => Fault, r = side["sender"].check => UNCHANGED faults
  PROVE  LInv'
<1>0. LinkTypeOK
  BY DEF LInv
<1>1. TRUE
  OBVIOUS
<1>5. side' \in [Sides -> Side] /\ side'["sender"] = y /\ \A o \in Sides : o # "sender" => side'[o] = side[o]
  BY <1>0, SetEffect, OtherSide
<1>6. faults' \in 0..MaxFaults /\ faults \in Nat /\ (faults' = 0 => UNCHANGED faults)
  BY <1>0, FaultCounts DEF LinkTypeOK
<1>t. LinkTypeOK'
  BY <1>0, <1>1, <1>5, <1>6 DEF LinkTypeOK
<1>i. IceShape'
  BY <1>1, <1>5 DEF LInv, IceShape
<1>r. Released'
  BY <1>1, <1>5 DEF LInv, IceShape, Released
<1>a. AddressShape'
  BY <1>5, SameAddresses DEF LInv
<1>c. ChoiceShape'
  BY <1>1, <1>5, <1>6, OtherSide DEF LInv, IceShape, ChoiceShape, Undecided, Picks
<1>p. PathShape'
  BY <1>1, <1>5, <1>6, OtherSide DEF LInv, IceShape, ChoiceShape, PathShape
<1> QED BY <1>t, <1>i, <1>r, <1>a, <1>c, <1>p DEF LInv

\* There is no agent, and the relay is next.
LEMMA NoAgentStep ==
  ASSUME LInv, NEW s \in Sides, NEW y \in Side, Set(s, y),
         y.agent = side[s].agent, y.left = side[s].left, y.local = side[s].local, y.since = side[s].since, y.decision = side[s].decision, y.path = side[s].path,
          y.addr = side[s].addr,
         y.pc = IF s = "sender" THEN "publish" ELSE "fall", y.choice = IF s = "sender" THEN "relay" ELSE "none",
         y.check = "err", y.push = "done", y.pull = "done",
         UNCHANGED <<published, net, seen>>, side[s].pc = "new", Fault,
         relay' \in [kind : {"full", "old", "stun"}, allocated : BOOLEAN, at : [Sides -> 0..Unregistered]], relay'.at = relay.at
  PROVE  LInv'
<1>0. LinkTypeOK
  BY DEF LInv
<1>1. TRUE
  OBVIOUS
<1>5. side' \in [Sides -> Side] /\ side'[s] = y /\ \A o \in Sides : o # s => side'[o] = side[o]
  BY <1>0, SetEffect, OtherSide
<1>6. faults' \in 0..MaxFaults /\ faults \in Nat /\ (faults' = 0 => UNCHANGED faults) /\ faults' > 0
  BY <1>0, FaultCounts DEF LinkTypeOK
<1>t. LinkTypeOK'
  BY <1>0, <1>1, <1>5, <1>6 DEF LinkTypeOK
<1>i. IceShape'
  BY <1>1, <1>5 DEF LInv, IceShape
<1>r. Released'
  BY <1>1, <1>5 DEF LInv, IceShape, Released
<1>a. AddressShape'
  BY <1>5 DEF LInv, AddressShape
<1>c. ChoiceShape'
  BY <1>1, <1>5, <1>6, OtherSide DEF LInv, IceShape, ChoiceShape, Undecided, Picks
<1>p. PathShape'
  BY <1>6 DEF PathShape
<1> QED BY <1>t, <1>i, <1>r, <1>a, <1>c, <1>p DEF LInv

\* A side goes on over ICE.
LEMMA OnIceStep ==
  ASSUME LInv, NEW s \in Sides, NEW y \in Side, Set(s, y),
         y.agent = side[s].agent, y.push = side[s].push, y.pull = side[s].pull, y.check = side[s].check, y.choice = side[s].choice, y.addr = side[s].addr,
         y.pc = "up", y.path = "ice", y.left + y.local <= MaxGather, y.since = 0, y.decision = "none",
         UNCHANGED <<faults, published, relay, net, seen>>, side[s].pc = "wind", side[s].check = "ok", side[s].push = "done", side[s].pull = "done"
  PROVE  LInv'
<1>0. LinkTypeOK
  BY DEF LInv
<1>1. side[s].agent = "open" /\ side[s].path = "none"
  BY DEF LInv, LinkTypeOK, Side, IceShape
<1>5. side' \in [Sides -> Side] /\ side'[s] = y /\ \A o \in Sides : o # s => side'[o] = side[o]
  BY <1>0, SetEffect, OtherSide
<1>6. faults' \in 0..MaxFaults /\ faults \in Nat /\ (faults' = 0 => UNCHANGED faults)
  BY <1>0, FaultCounts DEF LinkTypeOK
<1>t. LinkTypeOK'
  BY <1>0, <1>1, <1>5, <1>6 DEF LinkTypeOK
<1>i. IceShape'
  BY <1>1, <1>5 DEF LInv, IceShape
<1>r. Released'
  BY <1>1, <1>5 DEF LInv, IceShape, Released
<1>a. AddressShape'
  BY <1>1, <1>5 DEF LInv, AddressShape
<1>c. ChoiceShape'
  BY <1>1, <1>5, <1>6, OtherSide DEF LInv, IceShape, ChoiceShape, Undecided, Picks
<1>p. PathShape'
  BY <1>1, <1>5, <1>6, OtherSide DEF LInv, IceShape, ChoiceShape, PathShape
<1> QED BY <1>t, <1>i, <1>r, <1>a, <1>c, <1>p DEF LInv

\* A side leaves ICE.
LEMMA OffIceStep ==
  ASSUME LInv, NEW s \in Sides, NEW y \in Side, Set(s, y),
         y.push = side[s].push, y.pull = side[s].pull, y.check = side[s].check, y.choice = side[s].choice, y.path = side[s].path, y.addr = side[s].addr,
         NEW a \in {"none", "closed"}, side[s].agent # "none" => a # "none",
         y.pc = "fall", y.agent = a, y.left + y.local <= MaxGather, y.since = 0, y.decision = "none",
         UNCHANGED <<published, relay, net, seen>>, side[s].pc = "wind", side[s].push = "done", side[s].pull = "done",
         side[s].check = "ok" => Fault, side[s].check # "ok" => UNCHANGED faults
  PROVE  LInv'
<1>0. LinkTypeOK
  BY DEF LInv
<1>1. side[s].path = "none" /\ (faults' = 0 => side[s].check # "ok")
  BY <1>0, FaultCounts, SMTT(30) DEF LInv, LinkTypeOK, Side, IceShape
<1>5. side' \in [Sides -> Side] /\ side'[s] = y /\ \A o \in Sides : o # s => side'[o] = side[o]
  BY <1>0, SetEffect, OtherSide
<1>6. faults' \in 0..MaxFaults /\ faults \in Nat /\ (faults' = 0 => UNCHANGED faults)
  BY <1>0, FaultCounts DEF LinkTypeOK
<1>t. LinkTypeOK'
  BY <1>0, <1>1, <1>5, <1>6 DEF LinkTypeOK
<1>i. IceShape'
  BY <1>1, <1>5 DEF LInv, IceShape
<1>r. Released'
  BY <1>1, <1>5 DEF LInv, IceShape, Released
<1>a. AddressShape'
  BY <1>5, SameAddresses DEF LInv
<1>c. ChoiceShape'
  BY <1>1, <1>5, <1>6, OtherSide DEF LInv, IceShape, ChoiceShape, Undecided, Picks
<1>p. PathShape'
  BY <1>1, <1>5, <1>6, OtherSide DEF LInv, IceShape, ChoiceShape, PathShape
<1> QED BY <1>t, <1>i, <1>r, <1>a, <1>c, <1>p DEF LInv

\* iceNew: with an agent or without one.
LEMMA IceNewCase ==
  ASSUME LInv, NEW s \in Sides, iceNew(s)
  PROVE  LInv'
<1>0. /\ side[s].pc = "new" /\ relay' = [relay EXCEPT !.allocated = relay.allocated \/ relay.kind = "old"]
      /\ UNCHANGED <<published, net, seen>>
  BY DEF iceNew
<1>1. CASE Set(s, [side[s] EXCEPT !.pc = "check", !.agent = "open"]) /\ UNCHANGED faults
  BY <1>0, <1>1, IceNewStep
<1>2. CASE Fault /\ Set(s, [side[s] EXCEPT !.pc = IF s = "sender" THEN "publish" ELSE "fall",
                                           !.choice = IF s = "sender" THEN "relay" ELSE "none",
                                           !.check = "err", !.push = "done", !.pull = "done"])
  <2>1. PICK x, p, c, y : /\ x = side[s] /\ p = IF s = "sender" THEN "publish" ELSE "fall"
                          /\ c = IF s = "sender" THEN "relay" ELSE "none"
                          /\ y = Agentless(x, p, c)
                          /\ Set(s, y)
    BY <1>2 DEF Agentless
  <2>2. x \in Side /\ p \in {"publish", "fall"} /\ c \in Choices
    BY <2>1 DEF LInv, LinkTypeOK, Choices
  <2>3. /\ y \in Side
        /\ y.pc = p /\ y.check = "err" /\ y.choice = c /\ y.push = "done" /\ y.pull = "done"
        /\ y.agent = x.agent /\ y.left = x.left /\ y.local = x.local /\ y.since = x.since
        /\ y.decision = x.decision /\ y.path = x.path /\ y.addr = x.addr
    BY <2>1, <2>2, NoAgentRecord
  <2>4. /\ relay' \in [kind : {"full", "old", "stun"}, allocated : BOOLEAN, at : [Sides -> 0..Unregistered]]
        /\ relay'.at = relay.at
    BY <1>0 DEF LInv, LinkTypeOK
  <2> QED BY <1>0, <1>2, <2>1, <2>3, <2>4, NoAgentStep
<1> QED BY <1>1, <1>2 DEF iceNew

\* dialEnds: what Dial returned, or an error instead.
LEMMA DialEndsCase ==
  ASSUME LInv, dialEnds
  PROVE  LInv'
<1>1. PICK r \in {side["sender"].check, "err"} :
         /\ IF r = side["sender"].check THEN UNCHANGED faults ELSE Fault
         /\ Set("sender", [side["sender"] EXCEPT !.pc = "publish", !.check = r, !.choice = IF r = "ok" THEN "ice" ELSE "relay"])
  BY DEF dialEnds
<1>2. PICK x, c, y : /\ x = side["sender"] /\ c = IF r = "ok" THEN "ice" ELSE "relay"
                     /\ y = Chosen(x, r, c) /\ Set("sender", y)
  BY <1>1 DEF Chosen
<1>3. /\ side["sender"].pc = "check" /\ side["sender"].check # "none" /\ UNCHANGED <<published, relay, net, seen>>
  BY DEF dialEnds, Server
<1>4. x \in Side
  BY <1>2, OtherSide DEF LInv, LinkTypeOK
<1>5. r \in {"ok", "err"} /\ c \in {"ice", "relay"} /\ c \in Choices /\ (c = "ice" => r = "ok") /\ (r = "ok" => side["sender"].check = "ok")
  BY <1>1, <1>2, <1>3, <1>4 DEF Side, Choices
<1>6. /\ y \in Side
      /\ y.pc = "publish" /\ y.check = r /\ y.choice = c
      /\ y.agent = x.agent /\ y.left = x.left /\ y.local = x.local /\ y.push = x.push /\ y.pull = x.pull /\ y.since = x.since
      /\ y.decision = x.decision /\ y.path = x.path /\ y.addr = x.addr
  BY <1>2, <1>4, <1>5, ChooseRecord
<1> QED BY <1>1, <1>2, <1>3, <1>5, <1>6, DialEndsStep

\* iceEstablish: over ICE, or without it.
LEMMA IceEstablishCase ==
  ASSUME LInv, NEW s \in Sides, iceEstablish(s)
  PROVE  LInv'
<1>0. /\ side[s].pc = "wind" /\ side[s].push = "done" /\ side[s].pull = "done" /\ UNCHANGED <<published, relay, net, seen>>
  BY DEF iceEstablish, Server
<1>1. PICK x : x = side[s]
  OBVIOUS
<1>2. x \in Side
  BY <1>1 DEF LInv, LinkTypeOK
<1>3. CASE side[s].check = "ok" /\ Set(s, [iceOver(side[s]) EXCEPT !.pc = "up", !.path = "ice"]) /\ UNCHANGED faults
  <2>1. PICK y : y = OnIce(x) /\ Set(s, y)
    BY <1>1, <1>3 DEF OnIce
  <2>2. /\ y \in Side
        /\ y.pc = "up" /\ y.path = "ice" /\ y.agent = x.agent /\ y.since = 0 /\ y.decision = "none"
        /\ y.left + y.local <= MaxGather
        /\ y.push = x.push /\ y.pull = x.pull /\ y.check = x.check /\ y.choice = x.choice /\ y.addr = x.addr
    BY <1>1, <1>2, <2>1, OnIceRecord
  <2> QED BY <1>0, <1>1, <1>3, <2>1, <2>2, OnIceStep
<1>4. CASE /\ IF side[s].check = "ok" THEN Fault ELSE UNCHANGED faults
           /\ Set(s, [iceOver(side[s]) EXCEPT !.pc = "fall", !.agent = closedAgent(side[s])])
  <2>1. PICK a, y : a = closedAgent(x) /\ y = OffIce(x, a) /\ Set(s, y)
    BY <1>1, <1>4 DEF OffIce
  <2>2. a \in {"none", "closed"} /\ (side[s].agent # "none" => a # "none")
    BY <1>1, <1>2, <2>1 DEF closedAgent, Side
  <2>3. /\ y \in Side
        /\ y.pc = "fall" /\ y.agent = a /\ y.path = x.path /\ y.since = 0 /\ y.decision = "none"
        /\ y.left + y.local <= MaxGather
        /\ y.push = x.push /\ y.pull = x.pull /\ y.check = x.check /\ y.choice = x.choice /\ y.addr = x.addr
    BY <1>1, <1>2, <2>1, <2>2, OffIceRecord
  <2> QED BY <1>0, <1>1, <1>4, <2>1, <2>2, <2>3, OffIceStep
<1> QED BY <1>3, <1>4 DEF iceEstablish

\* The fallback: no relay, a relay, or its TCP form.
LEMMA FallCase ==
  ASSUME LInv, NEW s \in Sides, fallBack(s) \/ allocateRelay(s) \/ udpTimesOut(s)
  PROVE  LInv'
<1>1. CASE fallBack(s)
  <2>1. PICK p : p = (IF side[s].cancel \/ relay.kind = "stun" THEN "failed" ELSE "alloc") /\ Set(s, [side[s] EXCEPT !.pc = p])
    BY <1>1 DEF fallBack
  <2> QED BY <1>1, <2>1, FallStep DEF fallBack, Server
<1>2. CASE allocateRelay(s)
  BY <1>2, FallStep DEF allocateRelay
<1>3. CASE udpTimesOut(s)
  <2>1. PICK p : p = (IF relay.kind = "full" THEN "tcp" ELSE "failed") /\ Set(s, [side[s] EXCEPT !.pc = p])
    BY <1>3 DEF udpTimesOut
  <2> QED BY <1>3, <2>1, FallStep DEF udpTimesOut, Server
<1> QED BY <1>1, <1>2, <1>3

\* acceptFollowingSender and its timeout: without a fault the receiver is on ICE
\* only when the sender chose it.
LEMMA AcceptCase ==
  ASSUME LInv, acceptFollowingSender \/ acceptTimesOut
  PROVE  LInv'
<1> DEFINE R == side["receiver"]
<1>0. R.pc = "check" /\ UNCHANGED <<published, relay, net, seen>>
  BY DEF acceptFollowingSender, acceptTimesOut, Server
<1>1. CASE acceptFollowingSender
  <2>1. UNCHANGED faults
    BY <1>1 DEF acceptFollowingSender
  <2>2. CASE R.decision = "ice" /\ R.check = "ok" /\ Decides("ok")
    <3>1. side["sender"].choice = "ice"
      BY <2>2 DEF LInv, ChoiceShape
    <3> QED BY <1>0, <2>1, <2>2, <3>1, DecidesStep
  <2>3. CASE Decides("err")
    BY <1>0, <2>1, <2>3, DecidesStep
  <2> QED BY <1>1, <2>2, <2>3 DEF acceptFollowingSender
<1>2. CASE acceptTimesOut
  <2>1. PICK c : c = (IF R.check = "ok" THEN "ok" ELSE "err") /\ Decides(c)
    BY <1>2 DEF acceptTimesOut
  <2>2. (seen.polled /\ R.decision # "relay" /\ UNCHANGED faults) \/ Fault
    BY <1>2 DEF acceptTimesOut
  <2>3. faults = 0 /\ UNCHANGED faults /\ seen.choice # "refused" => side["sender"].choice = "ice"
    <3>1. SUFFICES ASSUME faults = 0, UNCHANGED faults, seen.choice # "refused" PROVE side["sender"].choice = "ice"
      OBVIOUS
    <3>2. seen.polled /\ R.decision # "relay"
      BY <2>2, <3>1, FaultCounts DEF LInv
    <3>3. seen.choice = "stored"
      BY <3>1, <3>2 DEF LInv, LinkTypeOK, ChoiceShape
    <3>4. R.decision # "none" /\ R.decision = side["sender"].choice
      BY <1>0, <3>2, <3>3 DEF LInv, ChoiceShape
    <3>5. R.decision \in {"none", "ice", "relay"}
      BY OtherSide DEF LInv, LinkTypeOK, Side, Choices
    <3> QED BY <3>2, <3>4, <3>5
  <2> QED BY <1>0, <2>1, <2>2, <2>3, DecidesStep
<1> QED BY <1>1, <1>2

\* What the server keeps of a batch: all of it, or nothing.
LEMMA StoredEffect ==
  ASSUME LinkTypeOK, NEW s \in Sides, NEW items \in Seq(Items), published' = Stored(s, items)
  PROVE  /\ published' \in [Sides -> Seq(Items)]
         /\ \A o \in Sides : Len(published'[o]) <= maxCandidatesPerSide
         /\ \A o \in Sides : o # s => published'[o] = published[o]
         /\ published' = published \/ published'[s] = published[s] \o items
<1> DEFINE P == published[s]
<1>1. P \in Seq(Items) /\ Len(P) \in Nat /\ Len(items) \in Nat
  BY LenProperties DEF LinkTypeOK
<1>2. P \o items \in Seq(Items) /\ Len(P \o items) = Len(P) + Len(items)
  BY <1>1, ConcatProperties
<1>3. CASE Len(P) + Len(items) > maxCandidatesPerSide
  BY <1>3 DEF LinkTypeOK, Stored
<1>4. CASE ~(Len(P) + Len(items) > maxCandidatesPerSide)
  <2>1. published' = [published EXCEPT ![s] = P \o items]
    BY <1>4 DEF Stored
  <2>2. Len(P) + Len(items) <= maxCandidatesPerSide
    BY <1>1, <1>4, LinkAssumption
  <2> QED BY <1>2, <2>1, <2>2 DEF LinkTypeOK
<1> QED BY <1>3, <1>4

\* What is appended comes last.
LEMMA Appended ==
  ASSUME NEW P \in Seq(Items), NEW b \in Seq(Items), NEW Q, Q = P \o b
  PROVE  /\ Q \in Seq(Items) /\ Len(P) \in Nat /\ Len(Q) \in Nat /\ Len(Q) = Len(P) + Len(b)
         /\ \A i \in 1..Len(P) : Q[i] = P[i]
         /\ \A i \in 1..Len(Q) : i > Len(P) => i - Len(P) \in 1..Len(b) /\ Q[i] = b[i - Len(P)]
<1> DEFINE m == Len(P)
           n == Len(b)
<1>1. m \in Nat /\ n \in Nat
  BY LenProperties
<1>2. /\ Q \in Seq(Items) /\ Len(Q) = m + n
      /\ \A i \in 1..(m + n) : Q[i] = IF i <= m THEN P[i] ELSE b[i - m]
  BY ConcatProperties
<1> HIDE DEF m, n
<1>3. \A i \in 1..m : i \in 1..(m + n) /\ i <= m
  BY <1>1
<1>4. \A i \in 1..(m + n) : i > m => ~(i <= m) /\ i - m \in 1..n
  BY <1>1
<1>5. (\A i \in 1..m : Q[i] = P[i]) /\ (\A i \in 1..(m + n) : i > m => i - m \in 1..n /\ Q[i] = b[i - m])
  BY <1>2, <1>3, <1>4
<1> QED BY <1>1, <1>2, <1>5 DEF m, n

\* A side whose request came back.
Returned(x) == [x EXCEPT !.push = "idle", !.batch = 0]

\* What remains of a side whose request came back.
LEMMA ReturnedRecord ==
  ASSUME NEW x \in Side, NEW y, y = Returned(x)
  PROVE  /\ y \in Side
         /\ y.pc = x.pc /\ y.agent = x.agent /\ y.left = x.left /\ y.local = x.local /\ y.pull = x.pull /\ y.since = x.since
         /\ y.check = x.check /\ y.decision = x.decision /\ y.choice = x.choice /\ y.path = x.path /\ y.addr = x.addr
<1>1. 0 \in 0..MaxGather
  BY LinkAssumption
<1>2. y \in Side
  BY <1>1 DEF Side, Returned
<1>3. /\ y.pc = x.pc /\ y.agent = x.agent /\ y.left = x.left /\ y.local = x.local /\ y.pull = x.pull /\ y.since = x.since
      /\ y.check = x.check /\ y.decision = x.decision /\ y.choice = x.choice /\ y.path = x.path /\ y.addr = x.addr
  BY DEF Side, Returned
<1> QED BY <1>2, <1>3

\* A request of the pushing goroutine comes back.
LEMMA PushCandidatesStep ==
  ASSUME LInv, NEW s \in Sides, pushCandidates(s)
  PROVE  LInv'
<1> DEFINE P == published["sender"]
           Q == published'["sender"]
<1>0. LinkTypeOK /\ side[s] \in Side
  BY DEF LInv, LinkTypeOK
<1>1. UNCHANGED <<relay, net, seen>> /\ side[s].push = "busy"
  BY DEF pushCandidates
<1>2. PICK x, y : x = side[s] /\ y = Returned(x) /\ Set(s, y)
  BY DEF pushCandidates, Returned
<1>3. x \in Side
  BY <1>0, <1>2
<1>4. /\ y \in Side
      /\ y.pc = x.pc /\ y.agent = x.agent /\ y.left = x.left /\ y.local = x.local /\ y.pull = x.pull /\ y.since = x.since
      /\ y.check = x.check /\ y.decision = x.decision /\ y.choice = x.choice /\ y.path = x.path /\ y.addr = x.addr
  BY <1>2, <1>3, ReturnedRecord
<1>5. side' \in [Sides -> Side] /\ side'[s] = y /\ \A o \in Sides : o # s => side'[o] = side[o]
  BY <1>0, <1>2, <1>4, SetEffect
<1>6. \A o \in Sides : Steady(o)
  BY <1>1, <1>2, <1>4, <1>5 DEF Steady
<1>7. faults' \in 0..MaxFaults /\ (faults' = faults \/ faults' > 0)
  BY <1>0, FaultCounts DEF pushCandidates, LinkTypeOK
<1>8. PICK n \in Nat : n = side[s].batch
  BY <1>0, LinkAssumption DEF Side
<1>9. /\ Batch(n) \in Seq(Items) /\ Len(Batch(n)) = n /\ \A i \in 1..n : Batch(n)[i] \notin Picks
  <2>1. \A i \in 1..n : "candidate" \in Items
    BY DEF Items
  <2>2. Batch(n) \in Seq(Items)
    BY <1>8, <2>1, IsASeq DEF Batch
  <2>3. Len(Batch(n)) = n
    BY <1>8, <2>2, LenProperties DEF Batch
  <2> QED BY <2>2, <2>3 DEF Batch, Picks
<1>10. /\ published' \in [Sides -> Seq(Items)]
       /\ \A o \in Sides : Len(published'[o]) <= maxCandidatesPerSide
       /\ Q = P \/ Q = P \o Batch(n)
  <2>1. CASE UNCHANGED published
    BY <1>0, <2>1 DEF LinkTypeOK
  <2>2. CASE published' = Stored(s, Batch(n))
    BY <1>0, <1>9, <2>2, StoredEffect, OtherSide
  <2> QED BY <1>8, <2>1, <2>2 DEF pushCandidates
<1>11. Grown(P, Q)
  <2>1. P \in Seq(Items) /\ Len(P) \in Nat
    BY <1>0, OtherSide, LenProperties DEF LinkTypeOK
  <2>2. CASE Q = P
    BY <2>1, <2>2 DEF Grown
  <2>3. CASE Q = P \o Batch(n)
    <3>1. PICK b : b = Batch(n)
      OBVIOUS
    <3>0. b \in Seq(Items)
      BY <1>9, <3>1
    <3>2. Len(b) = n /\ \A i \in 1..n : b[i] \notin Picks
      BY <1>9, <3>1
    <3>3. Q = P \o b
      BY <2>3, <3>1
    <3> HIDE DEF P, Q
    <3>4. /\ Len(Q) \in Nat /\ Len(Q) = Len(P) + Len(b)
          /\ \A i \in 1..Len(P) : Q[i] = P[i]
          /\ \A i \in 1..Len(Q) : i > Len(P) => i - Len(P) \in 1..Len(b) /\ Q[i] = b[i - Len(P)]
      BY <2>1, <3>0, <3>3, Appended
    <3>5. \A i \in 1..Len(Q) : i > Len(P) => Q[i] \notin Picks
      BY <3>2, <3>4
    <3>6. Len(P) <= Len(Q)
      BY <2>1, <3>2, <3>4
    <3> QED BY <3>4, <3>5, <3>6 DEF Grown
  <2> QED BY <1>10, <2>2, <2>3
<1>t. LinkTypeOK'
  BY <1>0, <1>1, <1>5, <1>7, <1>10 DEF LinkTypeOK
<1>a. AddressShape'
  BY <1>1, <1>6, SameAddresses DEF LInv, Steady
<1> QED BY <1>1, <1>6, <1>7, <1>11, <1>t, <1>a, GrownStep

\* A side whose choice is out, and one that has pulled.
Published(x) == [x EXCEPT !.pc = "wind", !.stop = TRUE]
Pulled(x, n, k, d) == [x EXCEPT !.since = n, !.knows = k, !.decision = d]

\* What remains of a side whose choice is out, ...
LEMMA PublishedRecord ==
  ASSUME NEW x \in Side, NEW y, y = Published(x)
  PROVE  /\ y \in Side
         /\ y.pc = "wind" /\ y.agent = x.agent /\ y.left = x.left /\ y.local = x.local /\ y.push = x.push /\ y.pull = x.pull
         /\ y.since = x.since /\ y.check = x.check /\ y.decision = x.decision /\ y.choice = x.choice /\ y.path = x.path /\ y.addr = x.addr
  BY DEF Side, Published

\* ... and of one that has pulled.
LEMMA PulledRecord ==
  ASSUME NEW x \in Side, NEW n \in 0..maxCandidatesPerSide, NEW k \in BOOLEAN, NEW d \in Choices, NEW y, y = Pulled(x, n, k, d)
  PROVE  /\ y \in Side
         /\ y.pc = x.pc /\ y.agent = x.agent /\ y.left = x.left /\ y.local = x.local /\ y.push = x.push /\ y.pull = x.pull
         /\ y.since = n /\ y.check = x.check /\ y.decision = d /\ y.choice = x.choice /\ y.path = x.path /\ y.addr = x.addr
  BY DEF Side, Pulled

\* The choice of the sender is out: stored, refused by a full list, or lost.
LEMMA PublishPathChoiceStep ==
  ASSUME LInv, publishPathChoice
  PROVE  LInv'
<1> DEFINE S == side["sender"]
           P == published["sender"]
           Q == published'["sender"]
<1>0. LinkTypeOK /\ S \in Side /\ P \in Seq(Items) /\ Len(P) \in Nat
  BY OtherSide, LenProperties DEF LInv, LinkTypeOK
<1>1. UNCHANGED <<relay, net>> /\ S.pc = "publish"
  BY DEF publishPathChoice
<1>2. PICK y : y = Published(S) /\ Set("sender", y)
  BY DEF publishPathChoice, Published
<1> DEFINE c == S.choice
<1>4. c \in Picks /\ <<c>> \in Seq(Items) /\ Len(<<c>>) = 1 /\ <<c>>[1] = c
  <2>1. c \in Picks
    BY <1>1 DEF LInv, ChoiceShape
  <2> QED BY <2>1 DEF Picks, Items
<1>5. \/ /\ published' = Stored("sender", <<side["sender"].choice>>) /\ UNCHANGED faults
         /\ seen' = [seen EXCEPT !.choice = IF Stored("sender", <<side["sender"].choice>>) = published THEN "refused" ELSE "stored"]
      \/ Fault /\ UNCHANGED published /\ seen' = [seen EXCEPT !.choice = "lost"]
  BY DEF publishPathChoice
<1>6. /\ y \in Side
      /\ y.pc = "wind" /\ y.agent = S.agent /\ y.left = S.left /\ y.local = S.local /\ y.push = S.push /\ y.pull = S.pull
      /\ y.since = S.since /\ y.check = S.check /\ y.decision = S.decision /\ y.choice = S.choice /\ y.path = S.path /\ y.addr = S.addr
  BY <1>0, <1>2, PublishedRecord
<1>7. side' \in [Sides -> Side] /\ side'["sender"] = y /\ \A o \in Sides : o # "sender" => side'[o] = side[o]
  BY <1>0, <1>2, <1>6, SetEffect, OtherSide
<1>8. faults' \in 0..MaxFaults /\ faults \in Nat /\ (faults' = 0 => UNCHANGED faults)
  BY <1>0, <1>5, FaultCounts DEF LinkTypeOK
<1>9. /\ seen' \in [choice : {"none", "stored", "lost", "refused"}, polled : BOOLEAN] /\ seen'.polled = seen.polled
      /\ seen'.choice # "none" /\ (seen'.choice = "stored" => published' # published)
      /\ (seen'.choice = "lost" => Fault)
  <2>1. CASE /\ published' = Stored("sender", <<side["sender"].choice>>)
             /\ seen' = [seen EXCEPT !.choice = IF Stored("sender", <<side["sender"].choice>>) = published THEN "refused" ELSE "stored"]
    <3>1. PICK h : /\ h = IF Stored("sender", <<side["sender"].choice>>) = published THEN "refused" ELSE "stored"
                   /\ seen' = [seen EXCEPT !.choice = h]
      BY <2>1
    <3>2. h \in {"refused", "stored"} /\ (h = "stored" => published' # published)
      BY <2>1, <3>1
    <3> QED BY <1>0, <3>1, <3>2 DEF LinkTypeOK
  <2>2. CASE Fault /\ seen' = [seen EXCEPT !.choice = "lost"]
    BY <1>0, <2>2 DEF LinkTypeOK
  <2> QED BY <1>5, <2>1, <2>2
<1>10. /\ published' \in [Sides -> Seq(Items)]
       /\ \A o \in Sides : Len(published'[o]) <= maxCandidatesPerSide
       /\ published' = published \/ Q = P \o <<c>>
  <2>1. CASE published' = Stored("sender", <<c>>)
    BY <1>0, <1>4, <2>1, StoredEffect, OtherSide
  <2>2. CASE UNCHANGED published
    BY <1>0, <2>2 DEF LinkTypeOK
  <2> QED BY <1>5, <2>1, <2>2
<1>11. /\ \A i \in 1..Len(P) : P[i] \notin Picks
       /\ side["receiver"].decision = "none" /\ seen.choice = "none" /\ ~seen.polled
       /\ side["receiver"].since <= Len(P) /\ side["receiver"].since \in Nat
  BY <1>0, <1>1, OtherSide, LinkAssumption DEF LInv, ChoiceShape, Undecided, LinkTypeOK, Side
<1>12. /\ Len(Q) \in Nat /\ Len(P) <= Len(Q)
       /\ \A i \in 1..Len(P) : Q[i] = P[i]
       /\ \A i \in 1..Len(Q) : i > Len(P) => Q[i] = c
       /\ published' # published => Q[Len(Q)] = c /\ Len(Q) \in 1..Len(Q)
  <2>1. CASE published' = published
    BY <1>0, <2>1
  <2>2. CASE published' # published
    <3>1. PICK b : b = <<c>>
      OBVIOUS
    <3>0. b \in Seq(Items) /\ P \in Seq(Items)
      BY <1>0, <1>4, <3>1
    <3>2. Len(b) = 1 /\ b[1] = c
      BY <1>4, <3>1
    <3>3. Q = P \o b
      BY <1>10, <2>2, <3>1
    <3> HIDE DEF P, Q
    <3>4. /\ Len(Q) \in Nat /\ Len(Q) = Len(P) + Len(b)
          /\ \A i \in 1..Len(P) : Q[i] = P[i]
          /\ \A i \in 1..Len(Q) : i > Len(P) => i - Len(P) \in 1..Len(b) /\ Q[i] = b[i - Len(P)]
      BY <3>0, <3>3, Appended
    <3>5. Len(P) <= Len(Q) /\ Len(Q) \in 1..Len(Q) /\ Len(Q) > Len(P)
      BY <1>0, <3>2, <3>4
    <3>6. \A i \in 1..Len(Q) : i > Len(P) => i - Len(P) = 1
      BY <1>0, <3>2, <3>4
    <3>7. \A i \in 1..Len(Q) : i > Len(P) => Q[i] = c
      BY <3>2, <3>4, <3>6
    <3> QED BY <3>4, <3>5, <3>7
  <2> QED BY <2>1, <2>2
<1>t. LinkTypeOK'
  BY <1>0, <1>1, <1>7, <1>8, <1>9, <1>10 DEF LinkTypeOK
<1>i. IceShape'
  BY <1>1, <1>6, <1>7 DEF LInv, IceShape
<1>r. Released'
  BY <1>1, <1>6, <1>7 DEF LInv, Released
<1>a. AddressShape'
  BY <1>1, <1>6, <1>7, SameAddresses DEF LInv
<1>c. ChoiceShape'
  <2>1. side'["sender"].choice = c /\ side'["sender"].pc = "wind" /\ side'["receiver"] = side["receiver"]
    BY <1>6, <1>7, OtherSide
  <2>2. \A i \in 1..Len(Q) : Q[i] \in Picks => Q[i] = c
    BY <1>0, <1>11, <1>12
  <2>3. seen'.choice = "stored" => \E i \in 1..Len(Q) : Q[i] = c
    BY <1>9, <1>12
  <2>4. side["receiver"].since <= Len(Q) /\ \A i \in 1..side["receiver"].since : Q[i] \notin Picks
    BY <1>0, <1>11, <1>12
  <2>5. seen'.choice = "lost" => faults' > 0
    BY <1>0, <1>9, FaultCounts
  <2> HIDE DEF P, Q
  <2> QED BY <1>4, <1>9, <1>11, <2>1, <2>2, <2>3, <2>4, <2>5 DEF ChoiceShape, Undecided, Q
<1>p. PathShape'
  <2>1. faults' = 0 => faults = 0
    BY <1>8
  <2>2. /\ side'["sender"].choice = S.choice /\ side'["sender"].pc = "wind" /\ side'["sender"].check = S.check
        /\ side'["sender"].path = S.path /\ side'["receiver"] = side["receiver"]
    BY <1>6, <1>7, OtherSide
  <2> QED BY <1>11, <2>1, <2>2 DEF LInv, PathShape
<1> QED BY <1>t, <1>i, <1>r, <1>a, <1>c, <1>p DEF LInv

\* What a pull takes from the server.
Picked(s) == {Fresh(s)[j] : j \in 1..Len(Fresh(s))}

\* A pull reads everything after the index the side has reached.
LEMMA FreshItems ==
  ASSUME LinkTypeOK, NEW s \in Sides, NEW P, P = published[Other(s)], side[s].since <= Len(P)
  PROVE  /\ P \in Seq(Items) /\ Len(P) \in 0..maxCandidatesPerSide /\ side[s].since \in Nat
         /\ \A e : e \in Picked(s) <=> \E i \in 1..Len(P) : i > side[s].since /\ P[i] = e
<1> DEFINE n == side[s].since
           F == Fresh(s)
<1>1. P \in Seq(Items) /\ Len(P) \in Nat /\ Len(P) <= maxCandidatesPerSide /\ n \in Nat
  BY OtherSide, LenProperties, LinkAssumption DEF LinkTypeOK, Side
<1>2. \A i \in (n + 1)..Len(P) : P[i] \in Items
  BY <1>1, LenProperties
<1>3. F = SubSeq(P, n + 1, Len(P))
  BY DEF Fresh
<1>4. /\ Len(F) = (IF n + 1 <= Len(P) THEN Len(P) - (n + 1) + 1 ELSE 0)
      /\ \A j \in 1..(Len(P) - (n + 1) + 1) : F[j] = P[(n + 1) + j - 1]
  <2>1. n + 1 \in Int /\ Len(P) \in Int
    BY <1>1
  <2> HIDE DEF n, F
  <2> QED BY <1>2, <1>3, <2>1, SubSeqProperties
<1> HIDE DEF n, F
<1>5. Len(F) = Len(P) - n
  BY <1>1, <1>4 DEF n
<1>6. \A j \in 1..(Len(P) - n) : j + n \in 1..Len(P) /\ j + n > n /\ (n + 1) + j - 1 = j + n
  BY <1>1
<1>7. Len(P) - (n + 1) + 1 = Len(P) - n
  BY <1>1
<1>8. \A j \in 1..(Len(P) - n) : F[j] = P[j + n]
  BY <1>4, <1>6, <1>7
<1>9. \A i \in 1..Len(P) : i > n => i - n \in 1..(Len(P) - n) /\ (i - n) + n = i
  BY <1>1
<1>10. \A i \in 1..Len(P) : i > n => F[i - n] = P[i]
  BY <1>8, <1>9
<1>11. \A e : e \in {F[j] : j \in 1..Len(F)} <=> \E i \in 1..Len(P) : i > n /\ P[i] = e
  <2> SUFFICES ASSUME NEW e PROVE e \in {F[j] : j \in 1..Len(F)} <=> \E i \in 1..Len(P) : i > n /\ P[i] = e
    OBVIOUS
  <2>1. ASSUME NEW j \in 1..Len(F), F[j] = e PROVE \E i \in 1..Len(P) : i > n /\ P[i] = e
    BY <1>5, <1>6, <1>8, <2>1
  <2>2. ASSUME NEW i \in 1..Len(P), i > n, P[i] = e PROVE \E j \in 1..Len(F) : F[j] = e
    BY <1>5, <1>9, <1>10, <2>2
  <2> QED BY <2>1, <2>2
<1>12. Len(P) \in 0..maxCandidatesPerSide
  BY <1>1, LinkAssumption
<1> QED BY <1>1, <1>11, <1>12, Zenon DEF n, F, Picked

\* A pull: the receiver's decision becomes the choice that is in the list.
LEMMA PullStep ==
  ASSUME LInv, NEW s \in Sides, pull(s)
  PROVE  LInv'
<1> DEFINE O == published[Other(s)]
           P == published["sender"]
           S == side["sender"]
           R == side["receiver"]
           picks == Picked(s)
           dec == IF side[s].decision # "none" THEN side[s].decision
                  ELSE IF "relay" \in picks THEN "relay" ELSE IF "ice" \in picks THEN "ice" ELSE side[s].decision
           kn == side[s].knows \/ "candidate" \in picks
<1>0. LinkTypeOK /\ side[s] \in Side
  BY DEF LInv, LinkTypeOK
<1>1. /\ UNCHANGED <<published, relay, net, faults>> /\ side[s].agent # "none" /\ ~side[s].stop
      /\ seen' = [seen EXCEPT !.polled = seen.polled \/ (s = "receiver" /\ seen.choice \in {"stored", "lost", "refused"})]
  BY DEF pull
<1>2. Set(s, [side[s] EXCEPT !.since = NextSince(s), !.knows = kn, !.decision = dec])
  BY DEF pull, Picked
<1>3. PICK x, n, k, d, y : /\ x = side[s] /\ n = Len(O) /\ k = kn /\ d = dec
                           /\ y = Pulled(x, n, k, d) /\ Set(s, y)
  BY <1>2 DEF NextSince, Pulled
<1>y. y = Pulled(x, n, k, d)
  BY <1>3
<1>4. x \in Side /\ k \in BOOLEAN /\ d \in Choices
  BY <1>0, <1>3 DEF Side, Choices
<1>5. n \in Nat /\ n \in 0..maxCandidatesPerSide
  <2>1. O \in Seq(Items) /\ Len(O) <= maxCandidatesPerSide
    BY <1>0, OtherSide DEF LinkTypeOK
  <2>2. n \in Nat /\ n <= maxCandidatesPerSide
    BY <1>3, <2>1, LenProperties
  <2> QED BY <2>2, LinkAssumption
<1>6. /\ y \in Side
      /\ y.pc = x.pc /\ y.agent = x.agent /\ y.left = x.left /\ y.local = x.local /\ y.push = x.push /\ y.pull = x.pull
      /\ y.since = n /\ y.check = x.check /\ y.decision = d /\ y.choice = x.choice /\ y.path = x.path /\ y.addr = x.addr
  BY <1>4, <1>5, <1>y, PulledRecord
<1>7. side' \in [Sides -> Side] /\ side'[s] = y /\ \A o \in Sides : o # s => side'[o] = side[o]
  BY <1>0, <1>3, <1>6, SetEffect
<1>8. /\ seen' \in [choice : {"none", "stored", "lost", "refused"}, polled : BOOLEAN] /\ seen'.choice = seen.choice
      /\ seen'.polled => seen.polled \/ (s = "receiver" /\ seen.choice # "none")
  BY <1>0, <1>1 DEF LinkTypeOK
<1>9. s = "receiver" =>
        /\ d # "none" => d = S.choice /\ S.pc \notin Undecided
        /\ \A i \in 1..Len(P) : P[i] \in Picks => d # "none"
        /\ n = Len(P)
  <2>1. SUFFICES ASSUME s = "receiver"
                 PROVE  /\ d # "none" => d = S.choice /\ S.pc \notin Undecided
                        /\ \A i \in 1..Len(P) : P[i] \in Picks => d # "none"
                        /\ n = Len(P)
    OBVIOUS
  <2>2. O = P /\ n = Len(P)
    BY <1>3, <2>1 DEF Other
  <2>3. R.since <= Len(P) /\ x = R
    BY <1>3, <2>1 DEF LInv, ChoiceShape
  <2>4. /\ Len(P) \in Nat /\ R.since \in Nat
        /\ \A e : e \in picks <=> \E i \in 1..Len(P) : i > R.since /\ P[i] = e
    <3>1. PICK p : p = P
      OBVIOUS
    <3>2. p = published[Other(s)] /\ side[s].since <= Len(p)
      BY <1>3, <2>2, <2>3, <3>1
    <3>3. /\ Len(p) \in 0..maxCandidatesPerSide /\ side[s].since \in Nat
          /\ \A e : e \in picks <=> \E i \in 1..Len(p) : i > side[s].since /\ p[i] = e
      BY <1>0, <3>2, FreshItems
    <3>4. Len(p) \in Nat
      BY <3>3, LinkAssumption
    <3> QED BY <1>3, <2>3, <3>1, <3>3, <3>4
  <2>5. /\ \A i \in 1..Len(P) : P[i] \in Picks => P[i] = S.choice /\ S.pc \notin Undecided
        /\ R.decision # "none" => R.decision = S.choice /\ S.pc \notin Undecided
        /\ \A i \in 1..R.since : P[i] \in Picks => R.decision # "none"
    BY DEF LInv, ChoiceShape
  <2>6. /\ d = IF R.decision # "none" THEN R.decision
               ELSE IF "relay" \in picks THEN "relay" ELSE IF "ice" \in picks THEN "ice" ELSE R.decision
    BY <1>3, <2>1
  <2> HIDE DEF picks, P, R, S, dec
  <2>7. \A e \in picks : e \in Picks => e = S.choice /\ S.pc \notin Undecided
    BY <2>4, <2>5
  <2>8. d # "none" => d = S.choice /\ S.pc \notin Undecided
    BY <2>5, <2>6, <2>7 DEF Picks
  <2>9. ASSUME NEW i \in 1..Len(P), P[i] \in Picks PROVE d # "none"
    <3>1. CASE i > R.since
      <4>1. P[i] \in picks
        BY <2>4, <3>1
      <4> QED BY <2>6, <2>9, <4>1 DEF Picks
    <3>2. CASE ~(i > R.since)
      <4>1. i \in 1..R.since
        BY <2>4, <3>2
      <4> QED BY <2>5, <2>6, <2>9, <4>1
    <3> QED BY <3>1, <3>2
  <2> QED BY <2>2, <2>8, <2>9
<1> HIDE DEF dec, kn, picks
<1>t. LinkTypeOK'
  BY <1>0, <1>1, <1>7, <1>8 DEF LinkTypeOK
<1>i. IceShape'
  BY <1>3, <1>6, <1>7 DEF LInv, IceShape
<1>r. Released'
  BY <1>3, <1>6, <1>7 DEF LInv, Released
<1>a. AddressShape'
  BY <1>1, <1>3, <1>6, <1>7, SameAddresses DEF LInv
<1>p. PathShape'
  <2>1. \A o \in Sides : /\ side'[o].choice = side[o].choice /\ side'[o].pc = side[o].pc /\ side'[o].check = side[o].check
                         /\ side'[o].path = side[o].path
    BY <1>3, <1>6, <1>7
  <2> QED BY <1>1, <1>8, <2>1, OtherSide DEF LInv, PathShape
<1>c. ChoiceShape'
  <2>1. /\ \A i \in 1..Len(P) : P[i] \in Picks => P[i] = S.choice /\ S.pc \notin Undecided
        /\ S.pc = "publish" => S.choice \in Picks
        /\ seen.choice # "none" => S.pc \notin Undecided
        /\ seen.choice = "stored" => S.choice \in Picks /\ \E i \in 1..Len(P) : P[i] = S.choice
        /\ seen.choice = "lost" => faults > 0
        /\ seen.polled => seen.choice # "none" /\ R.agent # "none"
    BY DEF LInv, ChoiceShape
  <2>2. /\ R.decision # "none" => R.decision = S.choice /\ S.pc \notin Undecided
        /\ R.since <= Len(P)
        /\ \A i \in 1..R.since : P[i] \in Picks => R.decision # "none"
        /\ seen.polled /\ seen.choice = "stored" /\ R.pc = "check" => R.decision # "none"
    BY DEF LInv, ChoiceShape
  <2>3. side'["sender"].choice = S.choice /\ side'["sender"].pc = S.pc
    BY <1>3, <1>6, <1>7, OtherSide
  <2>4. /\ side'["receiver"].agent = R.agent /\ side'["receiver"].pc = R.pc
    BY <1>3, <1>6, <1>7, OtherSide
  <2>5. CASE s = "receiver"
    <3>1. side'["receiver"].since = Len(P) /\ side'["receiver"].decision = d /\ R.agent # "none" /\ Len(P) \in Nat
      BY <1>1, <1>5, <1>6, <1>7, <1>9, <2>5
    <3>2. \A i \in 1..Len(P) : P[i] \in Picks => d # "none"
      BY <1>9, <2>5
    <3>3. d # "none" => d = S.choice /\ S.pc \notin Undecided
      BY <1>9, <2>5
    <3>4. seen.choice = "stored" => d # "none"
      BY <2>1, <3>2
    <3>5. seen'.polled => seen.choice # "none"
      BY <1>8, <2>1
    <3> QED BY <1>1, <1>8, <2>1, <2>3, <2>4, <3>1, <3>2, <3>3, <3>4, <3>5 DEF ChoiceShape
  <2>6. CASE s = "sender"
    <3>1. side'["receiver"] = R
      BY <1>7, <2>6, OtherSide
    <3>2. seen'.polled => seen.polled
      BY <1>8, <2>6, OtherSide
    <3> QED BY <1>1, <1>8, <2>1, <2>2, <2>3, <3>1, <3>2 DEF ChoiceShape
  <2> QED BY <2>5, <2>6, OtherSide
<1> QED BY <1>t, <1>i, <1>r, <1>a, <1>c, <1>p DEF LInv

\* The addresses of a side's socket are not those of a WebSocket, nor of nobody.
LEMMA AddressKinds ==
  /\ \A a \in Addrs : a \in Nat /\ a # Tcp /\ a # Unregistered /\ a \in 0..Unregistered
  /\ Tcp # Unregistered /\ Tcp \in 0..Unregistered /\ Unregistered \in 0..Unregistered /\ Tcp \notin Addrs /\ Unregistered \notin Addrs
  /\ 0 \in Addrs /\ \A a \in 0..Unregistered : a \in Nat /\ (a \in Addrs \/ a = Tcp \/ a = Unregistered)
  BY LinkAssumption DEF Addrs, Tcp, Unregistered

\* Only addresses, and what is under way, change.
LEMMA RelayOnlyStep ==
  ASSUME LInv, AddressShape', UNCHANGED <<side, published, seen>>, faults' \in 0..MaxFaults, faults' = faults \/ faults' > 0,
         net' \subseteq Datagram, relay' \in [kind : {"full", "old", "stun"}, allocated : BOOLEAN, at : [Sides -> 0..Unregistered]]
  PROVE  LInv'
<1>1. LinkTypeOK'
  BY DEF LInv, LinkTypeOK
<1>2. \A o \in Sides : Steady(o)
  BY DEF Steady
<1> QED BY <1>1, <1>2, SteadyStep

\* A side sends a datagram from its address.
LEMMA SentStep ==
  ASSUME LInv, NEW s \in Sides, NEW t \in {"HELLO", "CHALLENGE", "REGISTER"}, net' = Sent(D(t, s, side[s].addr)),
         UNCHANGED <<side, published, relay, faults, seen>>
  PROVE  LInv'
<1>0. side[s].addr \in Addrs
  BY DEF LInv, LinkTypeOK, Side
<1>1. PICK m : m = D(t, s, side[s].addr)
  OBVIOUS
<1>2. m \in Datagram /\ m.of = s /\ m.t = t /\ m.addr = side[s].addr
  BY <1>0, <1>1 DEF Datagram, Types, D
<1>3. net' \subseteq net \cup {m}
  BY <1>1 DEF Sent
<1>4. net' \subseteq Datagram
  BY <1>2, <1>3 DEF LInv, LinkTypeOK
<1>5. AddressShape'
  BY <1>0, <1>2, <1>3, AddressKinds DEF LInv, AddressShape
<1> QED BY <1>4, <1>5, RelayOnlyStep DEF LInv, LinkTypeOK

\* register and keepalive say who is there.
LEMMA RegisterStep ==
  ASSUME LInv, NEW s \in Sides, register(s) \/ keepalive(s)
  PROVE  LInv'
<1>1. CASE register(s)
  <2>1. PICK t : t = (IF side[s].hello THEN "HELLO" ELSE "REGISTER") /\ net' = Sent(D(t, s, side[s].addr))
    BY <1>1 DEF register
  <2>2. t \in {"HELLO", "CHALLENGE", "REGISTER"}
    BY <2>1
  <2> QED BY <1>1, <2>1, <2>2, SentStep DEF register
<1>2. CASE keepalive(s) /\ side[s].path # "tcp"
  <2>1. net' = Sent(D("HELLO", s, side[s].addr)) /\ UNCHANGED <<side, published, relay, faults, seen>>
    BY <1>2 DEF keepalive
  <2> QED BY <2>1, SentStep
<1>3. CASE keepalive(s) /\ side[s].path = "tcp"
  <2>1. relay' = [relay EXCEPT !.at = [relay.at EXCEPT ![s] = Tcp]] /\ UNCHANGED <<side, published, net, faults, seen>>
    BY <1>3 DEF keepalive
  <2>2. /\ relay' \in [kind : {"full", "old", "stun"}, allocated : BOOLEAN, at : [Sides -> 0..Unregistered]]
        /\ relay'.at[s] = Tcp /\ \A o \in Sides : o # s => relay'.at[o] = relay.at[o]
    BY <2>1, AddressKinds DEF LInv, LinkTypeOK
  <2>3. AddressShape'
    BY <1>3, <2>1, <2>2, AddressKinds DEF LInv, AddressShape
  <2> QED BY <2>1, <2>2, <2>3, RelayOnlyStep DEF LInv, LinkTypeOK
<1> QED BY <1>1, <1>2, <1>3

\* A datagram of the network.
LEMMA InFlight ==
  ASSUME LInv, NEW m \in net
  PROVE  /\ m \in Datagram /\ m.of \in Sides /\ m.addr \in Addrs /\ m.addr <= side[m.of].addr
         /\ m.t \in Types /\ (m.t = "REGISTERED" => relay.at[m.of] # Unregistered)
  BY DEF LInv, LinkTypeOK, Datagram, AddressShape

\* The relay answers, and records a registration.
LEMMA RelayGetsStep ==
  ASSUME LInv, NEW m \in net, relayGets(m)
  PROVE  LInv'
<1>0. /\ m \in Datagram /\ m.of \in Sides /\ m.addr \in Addrs /\ m.addr <= side[m.of].addr
      /\ m.t \in {"HELLO", "REGISTER"} /\ UNCHANGED <<side, published, faults, seen>>
  BY InFlight DEF relayGets
<1>1. PICK a : /\ a = D(IF m.t = "HELLO" THEN "CHALLENGE" ELSE "REGISTERED", m.of, m.addr)
               /\ net' = (net \ {m}) \cup {a}
  BY DEF relayGets
<1>2. a \in Datagram /\ a.of = m.of /\ a.addr = m.addr /\ (a.t = "REGISTERED" => m.t = "REGISTER")
  BY <1>0, <1>1 DEF Datagram, Types, D
<1>3. net' \subseteq Datagram
  BY <1>1, <1>2 DEF LInv, LinkTypeOK
<1>4. CASE m.t = "REGISTER"
  <2>1. relay' = [relay EXCEPT !.at = [relay.at EXCEPT ![m.of] = m.addr]]
    BY <1>4 DEF relayGets
  <2>2. /\ relay' \in [kind : {"full", "old", "stun"}, allocated : BOOLEAN, at : [Sides -> 0..Unregistered]]
        /\ relay'.at[m.of] = m.addr /\ \A o \in Sides : o # m.of => relay'.at[o] = relay.at[o]
    BY <1>0, <2>1, AddressKinds DEF LInv, LinkTypeOK
  <2>3. AddressShape'
    BY <1>0, <1>1, <1>2, <2>2, AddressKinds DEF LInv, AddressShape
  <2> QED BY <1>0, <1>3, <2>2, <2>3, RelayOnlyStep DEF LInv, LinkTypeOK
<1>5. CASE m.t # "REGISTER"
  <2>1. UNCHANGED relay
    BY <1>5 DEF relayGets
  <2>2. AddressShape'
    BY <1>0, <1>1, <1>2, <1>5, <2>1 DEF LInv, AddressShape
  <2> QED BY <1>0, <1>3, <2>1, <2>2, RelayOnlyStep DEF LInv, LinkTypeOK
<1> QED BY <1>4, <1>5

\* The network loses a datagram.
LEMMA LosesStep ==
  ASSUME LInv, NEW m \in net, loses(m)
  PROVE  LInv'
<1>1. net' \subseteq net /\ UNCHANGED <<side, published, relay, seen>> /\ Fault
  BY DEF loses
<1>2. AddressShape'
  BY <1>1 DEF LInv, AddressShape
<1>3. faults' \in 0..MaxFaults /\ faults' > 0
  BY <1>1, FaultCounts DEF LInv
<1> QED BY <1>1, <1>2, <1>3, RelayOnlyStep DEF LInv, LinkTypeOK

\* A side that is on the relay, one that has heard from its peer or from the
\* relay, and one with another address.
Up(x, q) == [x EXCEPT !.pc = "up", !.path = q]
Heard(x) == [x EXCEPT !.inbound = TRUE]
Challenged(x) == [x EXCEPT !.hello = FALSE]
Rebound(x, a) == [x EXCEPT !.addr = a]

\* What remains of a side that is on the relay, ...
LEMMA UpRelayRecord ==
  ASSUME NEW x \in Side, NEW q \in {"udp", "tcp"}, NEW y, y = Up(x, q)
  PROVE  /\ y \in Side /\ y.pc = "up" /\ y.path = q
         /\ y.agent = x.agent /\ y.left = x.left /\ y.local = x.local /\ y.push = x.push /\ y.pull = x.pull /\ y.since = x.since
         /\ y.check = x.check /\ y.decision = x.decision /\ y.choice = x.choice /\ y.addr = x.addr
  BY ZenonT(60) DEF Side, Up

\* ... that has heard from its peer, ...
LEMMA HeardRecord ==
  ASSUME NEW x \in Side, NEW y, y = Heard(x)
  PROVE  /\ y \in Side
         /\ y.pc = x.pc /\ y.agent = x.agent /\ y.left = x.left /\ y.local = x.local /\ y.push = x.push /\ y.pull = x.pull
         /\ y.since = x.since /\ y.check = x.check /\ y.decision = x.decision /\ y.choice = x.choice /\ y.path = x.path /\ y.addr = x.addr
  BY DEF Side, Heard

\* ... that was challenged, ...
LEMMA ChallengedRecord ==
  ASSUME NEW x \in Side, NEW y, y = Challenged(x)
  PROVE  /\ y \in Side
         /\ y.pc = x.pc /\ y.agent = x.agent /\ y.left = x.left /\ y.local = x.local /\ y.push = x.push /\ y.pull = x.pull
         /\ y.since = x.since /\ y.check = x.check /\ y.decision = x.decision /\ y.choice = x.choice /\ y.path = x.path /\ y.addr = x.addr
  BY DEF Side, Challenged

\* ... and that has another address.
LEMMA ReboundRecord ==
  ASSUME NEW x \in Side, NEW a \in Addrs, NEW y, y = Rebound(x, a)
  PROVE  /\ y \in Side /\ y.addr = a
         /\ y.pc = x.pc /\ y.agent = x.agent /\ y.left = x.left /\ y.local = x.local /\ y.push = x.push /\ y.pull = x.pull
         /\ y.since = x.since /\ y.check = x.check /\ y.decision = x.decision /\ y.choice = x.choice /\ y.path = x.path
  BY DEF Side, Rebound

\* A side is on the relay.
LEMMA UpStep ==
  ASSUME LInv, NEW s \in Sides, NEW y \in Side, Set(s, y),
         y.agent = side[s].agent, y.left = side[s].left, y.local = side[s].local, y.push = side[s].push, y.pull = side[s].pull, y.since = side[s].since,
          y.check = side[s].check, y.decision = side[s].decision, y.choice = side[s].choice, y.addr = side[s].addr,
         NEW q \in {"udp", "tcp"}, y.pc = "up", y.path = q,
         side[s].pc \in {"udp", "tcp"}, UNCHANGED <<published, faults, seen>>,
         AddressShape', net' \subseteq Datagram,
         relay' \in [kind : {"full", "old", "stun"}, allocated : BOOLEAN, at : [Sides -> 0..Unregistered]]
  PROVE  LInv'
<1>0. LinkTypeOK
  BY DEF LInv
<1>1. TRUE
  OBVIOUS
<1>5. side' \in [Sides -> Side] /\ side'[s] = y /\ \A o \in Sides : o # s => side'[o] = side[o]
  BY <1>0, SetEffect, OtherSide
<1>6. faults' \in 0..MaxFaults /\ faults \in Nat /\ (faults' = 0 => UNCHANGED faults)
  BY <1>0, FaultCounts DEF LinkTypeOK
<1>t. LinkTypeOK'
  BY <1>0, <1>1, <1>5, <1>6 DEF LinkTypeOK
<1>i. IceShape'
  BY <1>1, <1>5 DEF LInv, IceShape
<1>r. Released'
  BY <1>1, <1>5 DEF LInv, IceShape, Released
<1>a. AddressShape'
  OBVIOUS
<1>c. ChoiceShape'
  BY <1>1, <1>5, <1>6, OtherSide DEF LInv, IceShape, ChoiceShape, Undecided, Picks
<1>p. PathShape'
  BY <1>1, <1>5, <1>6, OtherSide DEF LInv, IceShape, ChoiceShape, PathShape
<1> QED BY <1>t, <1>i, <1>r, <1>a, <1>c, <1>p DEF LInv

\* Its address changes.
LEMMA ReboundStep ==
  ASSUME LInv, NEW s \in Sides, NEW y \in Side, Set(s, y),
         y.pc = side[s].pc, y.agent = side[s].agent, y.left = side[s].left, y.local = side[s].local, y.push = side[s].push, y.pull = side[s].pull,
          y.since = side[s].since, y.check = side[s].check, y.decision = side[s].decision, y.choice = side[s].choice, y.path = side[s].path,
         y.addr > side[s].addr,
         UNCHANGED <<published, relay, net, seen>>, Fault
  PROVE  LInv'
<1>0. LinkTypeOK
  BY DEF LInv
<1>1. side[s].addr \in Nat /\ y.addr \in Nat
  BY AddressKinds DEF LInv, LinkTypeOK, Side
<1>5. side' \in [Sides -> Side] /\ side'[s] = y /\ \A o \in Sides : o # s => side'[o] = side[o]
  BY <1>0, SetEffect, OtherSide
<1>6. faults' \in 0..MaxFaults /\ faults \in Nat /\ (faults' = 0 => UNCHANGED faults) /\ faults' > 0
  BY <1>0, FaultCounts DEF LinkTypeOK
<1>t. LinkTypeOK'
  BY <1>0, <1>1, <1>5, <1>6 DEF LinkTypeOK
<1>i. IceShape'
  BY <1>1, <1>5 DEF LInv, IceShape
<1>r. Released'
  BY <1>1, <1>5 DEF LInv, IceShape, Released
<1>a. AddressShape'
  <2>1. \A o \in Sides : /\ side'[o].path = side[o].path /\ side[o].addr \in Nat /\ side'[o].addr \in Nat
                         /\ side[o].addr <= side'[o].addr
    <3>1. \A o \in Sides : side[o].addr \in Nat
      BY <1>0, AddressKinds DEF LinkTypeOK, Side
    <3>2. side'[s].addr > side[s].addr /\ side'[s].addr \in Nat /\ side'[s].path = side[s].path
      BY <1>1, <1>5
    <3>3. \A o \in Sides : o # s => side'[o] = side[o]
      BY <1>5
    <3>4. \A a, b \in Nat : a > b => b <= a
      OBVIOUS
    <3>5. \A a \in Nat : a <= a
      OBVIOUS
    <3> QED BY <3>1, <3>2, <3>3, <3>4, <3>5
  <2>2. /\ \A m \in net : m.addr \in Nat
        /\ \A o \in Sides : relay.at[o] \in Nat
    BY <1>0, AddressKinds DEF LinkTypeOK, Datagram
  <2> QED BY <2>1, <2>2 DEF LInv, AddressShape
<1>c. ChoiceShape'
  BY <1>1, <1>5, <1>6, OtherSide DEF LInv, IceShape, ChoiceShape, Undecided, Picks
<1>p. PathShape'
  BY <1>6 DEF PathShape
<1> QED BY <1>t, <1>i, <1>r, <1>a, <1>c, <1>p DEF LInv

\* What the side's socket receives.
LEMMA ClientGetsStep ==
  ASSUME LInv, NEW m \in net, NEW s \in Sides, clientGets(s, m)
  PROVE  LInv'
<1>0. LinkTypeOK /\ AddressShape /\ side[s] \in Side /\ side[s].addr \in Addrs
  BY DEF LInv, LinkTypeOK, Side
<1>1. m.of = s /\ m.t \in {"CHALLENGE", "REGISTERED"} /\ UNCHANGED <<published, relay, faults, seen>>
  BY DEF clientGets
<1>2. /\ m \in Datagram /\ m.addr \in Addrs /\ m.addr <= side[s].addr
      /\ (m.t = "REGISTERED" => relay.at[s] # Unregistered)
  BY <1>1, InFlight
<1>3. CASE net' = net \ {m} /\ UNCHANGED side
  <2>1. AddressShape'
    BY <1>0, <1>1, <1>3 DEF AddressShape
  <2> QED BY <1>0, <1>1, <1>3, <2>1, RelayOnlyStep DEF LinkTypeOK
<1>4. CASE /\ m.addr = side[s].addr
           /\ net' = (net \ {m}) \cup {D("REGISTER", s, m.addr)}
           /\ side' = [side EXCEPT ![s].hello = FALSE]
  <2>1. PICK x, y : x = side[s] /\ y = Challenged(x) /\ Set(s, y)
    BY <1>4 DEF Set, Challenged
  <2>2. x \in Side
    BY <1>0, <2>1
  <2>3. /\ y \in Side
        /\ y.pc = x.pc /\ y.agent = x.agent /\ y.left = x.left /\ y.local = x.local /\ y.push = x.push /\ y.pull = x.pull
        /\ y.since = x.since /\ y.check = x.check /\ y.decision = x.decision /\ y.choice = x.choice /\ y.path = x.path /\ y.addr = x.addr
    BY <2>1, <2>2, ChallengedRecord
  <2>4. side' \in [Sides -> Side] /\ side'[s] = y /\ \A o \in Sides : o # s => side'[o] = side[o]
    BY <1>0, <2>1, <2>3, SetEffect
  <2>5. \A o \in Sides : Steady(o)
    BY <2>1, <2>3, <2>4 DEF Steady
  <2>6. PICK d : d = D("REGISTER", s, m.addr)
    OBVIOUS
  <2>7. d \in Datagram /\ d.of = s /\ d.addr = m.addr /\ d.t = "REGISTER"
    BY <1>2, <2>6 DEF D, Datagram, Types
  <2>8. net' = (net \ {m}) \cup {d}
    BY <1>4, <2>6
  <2>9. \A o \in Sides : side'[o].addr = side[o].addr /\ side'[o].path = side[o].path
    BY <2>5 DEF Steady
  <2>10. LinkTypeOK'
    BY <1>0, <1>1, <2>4, <2>7, <2>8 DEF LinkTypeOK
  <2>11. AddressShape'
    BY <1>0, <1>1, <1>2, <2>7, <2>8, <2>9 DEF AddressShape
  <2> QED BY <1>1, <2>5, <2>10, <2>11, SteadyStep
<1>5. CASE /\ m.t = "REGISTERED" /\ side[s].pc = "udp" /\ net' = net \ {m}
           /\ side' = [side EXCEPT ![s] = [side[s] EXCEPT !.pc = "up", !.path = "udp"]]
  <2>1. PICK x, y : x = side[s] /\ y = Up(x, "udp") /\ Set(s, y)
    BY <1>5 DEF Set, Up
  <2>2. x \in Side
    BY <1>0, <2>1
  <2>3. /\ y \in Side /\ y.pc = "up" /\ y.path = "udp"
        /\ y.agent = x.agent /\ y.left = x.left /\ y.local = x.local /\ y.push = x.push /\ y.pull = x.pull
        /\ y.since = x.since /\ y.check = x.check /\ y.decision = x.decision /\ y.choice = x.choice /\ y.addr = x.addr
    BY <2>1, <2>2, UpRelayRecord
  <2>4. side' \in [Sides -> Side] /\ side'[s] = y /\ \A o \in Sides : o # s => side'[o] = side[o]
    BY <1>0, <2>1, <2>3, SetEffect
  <2>5. relay.at[s] # Unregistered /\ relay.at[s] # Tcp
    BY <1>2, <1>5 DEF LInv, IceShape, AddressShape
  <2>6. AddressShape'
    BY <1>0, <1>1, <1>5, <2>1, <2>3, <2>4, <2>5 DEF AddressShape
  <2> QED BY <1>0, <1>1, <1>5, <2>1, <2>3, <2>6, UpStep, ZenonT(60) DEF LinkTypeOK
<1>6. \/ net' = net \ {m} /\ UNCHANGED side
      \/ /\ m.addr = side[s].addr
         /\ net' = (net \ {m}) \cup {D("REGISTER", s, m.addr)}
         /\ side' = [side EXCEPT ![s].hello = FALSE]
      \/ /\ m.t = "REGISTERED" /\ net' = net \ {m}
         /\ side' = IF side[s].pc = "udp" THEN [side EXCEPT ![s] = [side[s] EXCEPT !.pc = "up", !.path = "udp"]] ELSE side
  <2>1. CASE ~Listens(s) \/ m.addr # side[s].addr
    BY <2>1 DEF clientGets
  <2>2. CASE Listens(s) /\ m.addr = side[s].addr /\ m.t = "CHALLENGE"
    BY <2>2 DEF clientGets
  <2>3. CASE Listens(s) /\ m.addr = side[s].addr /\ m.t # "CHALLENGE"
    <3>1. m.t = "REGISTERED"
      BY <1>1, <2>3
    <3> QED BY <2>3, <3>1 DEF clientGets
  <2> QED BY <2>1, <2>2, <2>3
<1> QED BY <1>3, <1>4, <1>5, <1>6

\* DialWS registers at once, or fails.
LEMMA DialWSStep ==
  ASSUME LInv, NEW s \in Sides, dialWS(s)
  PROVE  LInv'
<1>0. LinkTypeOK /\ AddressShape /\ side[s] \in Side
  BY DEF LInv, LinkTypeOK
<1>1. side[s].pc = "tcp" /\ UNCHANGED <<published, net, seen>>
  BY DEF dialWS
<1>2. CASE Fault /\ Set(s, [side[s] EXCEPT !.pc = "failed"]) /\ UNCHANGED relay
  BY <1>1, <1>2, FallStep
<1>3. CASE /\ Set(s, [side[s] EXCEPT !.pc = "up", !.path = "tcp"])
           /\ relay' = [relay EXCEPT !.at[s] = Tcp] /\ UNCHANGED faults
  <2>1. PICK x, y : x = side[s] /\ y = Up(x, "tcp") /\ Set(s, y)
    BY <1>3 DEF Up
  <2>2. x \in Side
    BY <1>0, <2>1
  <2>3. /\ y \in Side /\ y.pc = "up" /\ y.path = "tcp"
        /\ y.agent = x.agent /\ y.left = x.left /\ y.local = x.local /\ y.push = x.push /\ y.pull = x.pull
        /\ y.since = x.since /\ y.check = x.check /\ y.decision = x.decision /\ y.choice = x.choice /\ y.addr = x.addr
    BY <2>1, <2>2, UpRelayRecord
  <2>4. side' \in [Sides -> Side] /\ side'[s] = y /\ \A o \in Sides : o # s => side'[o] = side[o]
    BY <1>0, <2>1, <2>3, SetEffect
  <2>5. relay' = [relay EXCEPT !.at = [relay.at EXCEPT ![s] = Tcp]]
    BY <1>3
  <2>6. /\ relay' \in [kind : {"full", "old", "stun"}, allocated : BOOLEAN, at : [Sides -> 0..Unregistered]]
        /\ relay'.at[s] = Tcp /\ \A o \in Sides : o # s => relay'.at[o] = relay.at[o]
    BY <1>0, <2>5, AddressKinds DEF LinkTypeOK
  <2>7. AddressShape'
    BY <1>0, <1>1, <2>1, <2>3, <2>4, <2>6, AddressKinds DEF AddressShape
  <2> QED BY <1>0, <1>1, <1>3, <2>1, <2>3, <2>6, <2>7, UpStep DEF LinkTypeOK
<1> QED BY <1>2, <1>3 DEF dialWS

\* A packet: forwarded to the peer, or its source is challenged.
LEMMA DataStep ==
  ASSUME LInv, NEW s \in Sides, data(s)
  PROVE  LInv'
<1>0. LinkTypeOK /\ AddressShape /\ Other(s) \in Sides /\ side[Other(s)] \in Side
  BY OtherSide DEF LInv, LinkTypeOK
<1>1. UNCHANGED <<published, relay, faults, seen>>
  BY DEF data
<1>2. CASE UNCHANGED <<side, net>>
  BY <1>0, <1>1, <1>2, RelayOnlyStep DEF LinkTypeOK, AddressShape
<1>3. CASE UNCHANGED side /\ net' = Sent(D("CHALLENGE", s, side[s].addr))
  BY <1>1, <1>3, SentStep
<1>4. CASE UNCHANGED net /\ side' = [side EXCEPT ![Other(s)].inbound = TRUE]
  <2>1. PICK o, x, y : o = Other(s) /\ x = side[o] /\ y = Heard(x) /\ Set(o, y)
    BY <1>4 DEF Set, Heard
  <2>2. o \in Sides /\ x \in Side
    BY <1>0, <2>1
  <2>3. /\ y \in Side
        /\ y.pc = x.pc /\ y.agent = x.agent /\ y.left = x.left /\ y.local = x.local /\ y.push = x.push /\ y.pull = x.pull
        /\ y.since = x.since /\ y.check = x.check /\ y.decision = x.decision /\ y.choice = x.choice /\ y.path = x.path /\ y.addr = x.addr
    BY <2>1, <2>2, HeardRecord
  <2>4. side' \in [Sides -> Side] /\ side'[o] = y /\ \A r \in Sides : r # o => side'[r] = side[r]
    BY <1>0, <2>1, <2>2, <2>3, SetEffect
  <2>5. \A r \in Sides : Steady(r)
    BY <2>1, <2>2, <2>3, <2>4 DEF Steady
  <2>6. LinkTypeOK'
    BY <1>0, <1>1, <1>4, <2>4 DEF LinkTypeOK
  <2>7. AddressShape'
    BY <1>0, <1>1, <1>4, <2>5, SameAddresses DEF Steady
  <2> QED BY <1>1, <2>5, <2>6, <2>7, SteadyStep
<1> QED BY <1>2, <1>3, <1>4 DEF data

\* The NAT in front of a side gives it another address.
LEMMA RebindsStep ==
  ASSUME LInv, NEW s \in Sides, rebinds(s)
  PROVE  LInv'
<1>0. LinkTypeOK /\ side[s] \in Side /\ side[s].addr \in Addrs
  BY DEF LInv, LinkTypeOK, Side
<1>1. side[s].addr < MaxRebinds /\ Fault /\ UNCHANGED <<published, relay, net, seen>>
  BY DEF rebinds, Server
<1>2. PICK x, a, y : x = side[s] /\ a = side[s].addr + 1 /\ y = Rebound(x, a) /\ Set(s, y)
  BY DEF rebinds, Rebound
<1>3. x \in Side /\ a \in Addrs /\ a > side[s].addr
  BY <1>0, <1>1, <1>2, LinkAssumption DEF Addrs
<1>4. /\ y \in Side /\ y.addr = a
      /\ y.pc = x.pc /\ y.agent = x.agent /\ y.left = x.left /\ y.local = x.local /\ y.push = x.push /\ y.pull = x.pull
      /\ y.since = x.since /\ y.check = x.check /\ y.decision = x.decision /\ y.choice = x.choice /\ y.path = x.path
  BY <1>2, <1>3, ReboundRecord
<1> QED BY <1>1, <1>2, <1>3, <1>4, ReboundStep

\* LInv holds at the start.
LEMMA InitInv ==
  ASSUME Init
  PROVE  LInv
<1>1. \A s \in Sides : side[s] = NewSide
  BY DEF Init
<1>2. NewSide \in Side
  <2>1. 0 \in 0..MaxGather /\ MaxGather \in 0..MaxGather /\ 0 \in 0..maxCandidatesPerSide /\ 0 \in Addrs
    BY LinkAssumption DEF Addrs
  <2> QED BY <2>1 DEF NewSide, Side, Choices
<1>3. LinkTypeOK
  <2>1. \A s \in Sides : published[s] = <<>> /\ Len(published[s]) <= maxCandidatesPerSide
    BY LinkAssumption DEF Init
  <2>2. relay \in [kind : {"full", "old", "stun"}, allocated : BOOLEAN, at : [Sides -> 0..Unregistered]]
    BY AddressKinds DEF Init
  <2>3. published \in [Sides -> Seq(Items)] /\ side \in [Sides -> Side]
    BY <1>2 DEF Init
  <2>4. faults \in 0..MaxFaults /\ net \subseteq Datagram
    BY LinkAssumption DEF Init
  <2> QED BY <2>1, <2>2, <2>3, <2>4 DEF Init, LinkTypeOK
<1>4. /\ NewSide.pc = "new" /\ NewSide.agent = "none" /\ NewSide.check = "none" /\ NewSide.path = "none"
      /\ NewSide.decision = "none" /\ NewSide.since = 0 /\ NewSide.choice = "none"
      /\ NewSide.left = MaxGather /\ NewSide.local = 0
  BY DEF NewSide
<1>5. IceShape
  <2>1. MaxGather + 0 <= MaxGather
    BY LinkAssumption
  <2> QED BY <1>1, <1>4, <2>1 DEF IceShape
<1>6. Released
  BY <1>1, <1>4 DEF Released
<1>7. AddressShape
  BY <1>1, <1>4, AddressKinds DEF Init, AddressShape
<1>8. ChoiceShape
  <2>1. published["sender"] = <<>> /\ side["sender"] = NewSide /\ side["receiver"] = NewSide
    BY <1>1, OtherSide DEF Init
  <2>2. seen.choice = "none" /\ ~seen.polled
    BY DEF Init
  <2> QED BY <1>4, <2>1, <2>2 DEF ChoiceShape
<1>9. PathShape
  BY <1>1, <1>4, OtherSide DEF PathShape
<1> QED BY <1>3, <1>5, <1>6, <1>7, <1>8, <1>9 DEF LInv

\* Every step keeps LInv.
LEMMA NextInv ==
  ASSUME LInv, [Next]_vars
  PROVE  LInv'
<1>1. CASE Chooses
  BY <1>1, DialTimesOutStep, DialEndsCase, PublishPathChoiceStep, AcceptCase, AcceptFailsStep DEF Chooses
<1>2. ASSUME NEW s \in Sides, Agent(s)
      PROVE  LInv'
  BY <1>2, IceNewCase, ConnectsStep, GatherStep DEF Agent
<1>3. ASSUME NEW s \in Sides, Pumps(s)
      PROVE  LInv'
  BY <1>3, PushTakeStep, PushCandidatesStep, PushEndsStep, PullStep, PullEndsStep DEF Pumps
<1>4. ASSUME NEW s \in Sides, cancels(s) \/ iceEstablish(s)
      PROVE  LInv'
  BY <1>4, CancelsStep, IceEstablishCase
<1>5. ASSUME NEW s \in Sides, Relays(s)
      PROVE  LInv'
  BY <1>5, FallCase, RegisterStep, DialWSStep, DataStep, RebindsStep DEF Relays
<1>6. ASSUME NEW m \in net, relayGets(m) \/ loses(m) \/ \E s \in Sides : clientGets(s, m)
      PROVE  LInv'
  BY <1>6, RelayGetsStep, LosesStep, ClientGetsStep
<1>7. CASE UNCHANGED vars
  <2>1. UNCHANGED <<side, published, relay, net, faults, seen>>
    BY <1>7 DEF vars
  <2> QED BY <2>1, RelayOnlyStep DEF LInv, LinkTypeOK, AddressShape
<1> QED BY <1>1, <1>2, <1>3, <1>4, <1>5, <1>6, <1>7 DEF Next

\* LInv is an invariant of the link.
THEOREM Invariance == Spec => []LInv
<1>1. Init => LInv
  BY InitInv
<1>2. LInv /\ [Next]_vars => LInv'
  BY NextInv
<1> QED BY <1>1, <1>2, PTL DEF Spec

\* The link's state is well typed: no side stores, gathers or pushes more than
\* its bounds (LinkTypeOK; PushCandidates of internal/server, sendLocal).
THEOREM LinkTypeCorrect == Spec => []LinkTypeOK
<1>1. LInv => LinkTypeOK
  BY DEF LInv
<1> QED BY <1>1, Invariance, PTL

\* The two sides do not split between ICE and the relay (SamePath; iceEstablish,
\* acceptFollowingSender and publishPathChoice of cmd/fsend/internet.go).
THEOREM PathCorrect == Spec => []SamePath
<1>1. LInv => SamePath
  BY LinkAssumption DEF LInv, LinkTypeOK, PathShape, SamePath
<1> QED BY <1>1, Invariance, PTL

\* A side that left ICE holds no agent and no goroutine of it, and one on ICE
\* keeps its agent (Released; iceEstablish, iceOwningConn).
THEOREM ReleasedCorrect == Spec => []Released
<1>1. LInv => Released
  BY DEF LInv
<1> QED BY <1>1, Invariance, PTL

\* A side that registered over UDP is recorded at its address
\* (RegisteredIsRecorded; Register and handleControl of internal/relay).
THEOREM RegisteredCorrect == Spec => []RegisteredIsRecorded
<1>1. LInv => RegisteredIsRecorded
  <2> SUFFICES ASSUME LInv, NEW s \in Sides, side[s].path = "udp", side[s].addr = 0
               PROVE  relay.at[s] = 0
    BY DEF RegisteredIsRecorded
  <2>1. relay.at[s] \in 0..Unregistered /\ relay.at[s] # Unregistered /\ relay.at[s] # Tcp
    BY DEF LInv, LinkTypeOK, AddressShape
  <2>2. relay.at[s] \in Addrs /\ relay.at[s] <= 0 /\ relay.at[s] \in Nat
    BY <2>1, AddressKinds DEF LInv, AddressShape
  <2> QED BY <2>2
<1> QED BY <1>1, Invariance, PTL
=============================================================================
