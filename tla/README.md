# fsend: a TLA+ verification project

fsend sends files from one machine to another. A **sender** gets a short code
and waits, a **receiver** enters the code, and the two find each other on the
local network or through a **pairing server**. They connect directly or through
a **relay**, prove to each other that they know the code, and the **transfer
engine** on both sides moves the files. `fsend server` is the pairing server and
the relay in one process.

The project models the parts of fsend whose correctness depends on the order of
things: handlers that share a table, handlers that share a byte counter, a
receiver that dies halfway through a batch, two paths that race for one
receiver, two engines that must come to the same answer. `PROJECT.json` has, for every
definition, the source lines it stands for, and the list of the runs, mutants,
hazards, findings and theorems that this file explains.

## 1. Inventory

| Component | State it keeps | Operations | What is hard | What makes it correct |
|---|---|---|---|---|
| Pairing server (`internal/server`) | sessions by slot and by ID, per-IP counts, rate windows, used-code tombstones, parked `/wait` handlers, state file | create, join, wait, delete, candidate push and pull, relay allocation, evict, save and load | a parked handler holds a session without the mutex while others remove it; a janitor; restart and crash | both maps agree, counts match what is live, a channel is closed once, a sender gets the receiver of its own session, a used code stays used, every poll is answered |
| Relay server (`internal/relay` server, budget, ws) | allocations with two peer slots, an atomic byte count, the day budget, tombstones | allocate, hello, register, forward, evict, sweep, drain | up to 4 read loops and a goroutine per link work on one allocation with no lock | byte cap and day budget hold, a session stays between two verified peers, no active session is evicted, a cut stays a cut |
| Relay client (`relay/conn.go`, `wsconn.go`) | whether it is registered, whether the peer was heard | HELLO and REGISTER with resends, answers to a challenge, keepalive, fallback to a WebSocket | lost and late control messages, a NAT that rebinds, a socket replaced by another | who is registered is recorded, and who is not gets its slot back |
| ICE path choice (`cmd/fsend/internet.go`, `internal/iceconn`) | an agent, two pump goroutines, the sender's choice among its candidates | gather, push, pull, dial, accept, publish, follow, fall back | the two ends see different outcomes at the edge of a budget; goroutines that wait for each other | both ends use one path, and leave nothing behind on the other |
| Sender and receiver pairing (`cmd/fsend`, `internal/signaling`, `internal/retry`) | the session's key, the race of LAN against internet, the saved resume key, attempts and rounds | create with retry, long-poll loop, re-create, claim, drain the loser, re-accept, re-discover | an answer that is lost, a retry of what was done, two devices with one code, both paths pairing at once | both ends come to the same resume key, later rounds belong to the first device, a code is spent, nobody waits for ever |
| Authenticated connection (`internal/quicconn`, `internal/pake`) | the listener's secret, pending handshakes, failures | accept loop, SetSecret, Accept, Close, handshake; half-closes and close codes | a handshake that started before SetSecret and ends after it | a round is won by a device that has the round's key; failed attempts are bounded |
| Transfer engine (`internal/transfer`) | the plan per file, the partials and sidecars under `.fsend`, the batch to commit | walk, classify, verify, decide, open, write, finalize, sync, place, ack | sources that change while they are read, resume, crash or power loss at any step, two receivers in one folder | only verified files get a name, reported files survive, nothing of the user is replaced without consent, the session ends |
| Dialogue of the two engines, password gate, stream mode and sink (`internal/transfer`) | frames under way on the control stream, the chunk packer's queue, attempts | hello, challenge, listing, decisions, chunks, complete, ack; decline, notify, cancel | three streams of information (data, control, close) that overtake each other; flow control; writers that fail late | the two ends agree on the outcome, a cancel is no drop, nothing flows before the password, both return |
| LAN discovery | announcements | announce, query | | an input of pairing |
| Wire format | none | encode, decode | limits | total and bounded |
| Command line, configuration, updates, logging | flags, a config file | | | no state of a transfer |

Interactions: sender and receiver call the pairing server over HTTP; the server
calls the relay's `Allocate` and `Status` for a session; the two peers send the
relay datagrams over UDP or WebSocket links; quicconn runs over the path that was
chosen; the transfer engine runs over quicconn's streams. Inside the server
process the HTTP handlers share one mutex, the relay's handlers share atomics and
short critical sections. Inside the receiver, one goroutine reads the data and
commits batches; the sender hashes resumed prefixes in the background.

The hazards, each at the line where it bites and with the properties that would
catch it, are listed in `PROJECT.json`. One has no property: the copy that a
move across file systems makes, which `Transfer` reduces to a rename.

## 2. Modules

| Module | Models | Uses |
|---|---|---|
| `RateLimit` | `rateBucket`, `allowNewSession`: sliding minute per rate key and per IPv6 site | |
| `RateWindow` | the limiter alone, with the history of admitted requests | extends `RateLimit` |
| `RateWindowProofs` | the theorem about `RateWindow` | extends `RateWindow` |
| `Signaling` | the pairing server's session table | extends `RateLimit` |
| `SignalingProofs` | theorems about `Signaling` | extends `Signaling` |
| `RelayServer` | the relay server | |
| `RelayProofs` | theorems about `RelayServer` | extends `RelayServer` |
| `Folder` | the receive folder: names, inodes, partials, what a power loss does | |
| `Transfer` | both ends of a transfer, as the folder sees it | extends `Folder`, instantiates `Delivery` |
| `Delivery` | abstract: what the receive folder promises its user, with two theorems | |
| `TransferProofs` | theorems about `Transfer` and its `Folder`, and that it implements `Delivery` | extends `Transfer` |
| `Listener` | quicconn's listeners and the connections dialled to them | |
| `Pairing` | sender and receiver commands from code to transfer, with retries and rounds | extends `Listener` |
| `PairingProofs` | theorems about `Pairing` and its `Listener` | extends `Pairing` |
| `Link` | the choice of an internet path, candidate exchange, the relay client | |
| `LinkProofs` | theorems about `Link` | extends `Link` |
| `Session` | the dialogue of the two engines over the streams of one connection | |
| `SessionProofs` | theorems about `Session` | extends `Session` |
| `MC*` | constants of the runs | |

Operators with a `\* mutant` comment are deliberate bugs. No specification uses
them; each one stands for a mistake that the property named in `PROJECT.json`
must catch, and does.

### 2.1 Signaling

Every HTTP handler runs under `Server.mu`, so `createSession`, `joinSession`,
`deleteSession` and `evict` are one action each; the early returns are
`createStatus` and `joinStatus`, in the order of the code, and a refused request
still charges the rate limiter where the code does. `waitSession` gives up the
mutex while it is parked and is two steps: `waitSession`, then one of
`waitWoken`, `waitTimeout`, `waitDone` (the client hangs up). `sess` is the heap
of session objects and outlives the entries of `bySlot` and `byID`, the way a
pointer in a parked handler does. `Shutdown` is the graceful stop with
`SaveState`; `LoadState` restores the sessions as the code does, with no sender
address; `Crash` loses everything that is not in the state file.

Left out, because it changes no state of the table: requests turned away for
their JSON, the shape of their slot or the client's version, and failures of the
random source. A failed save or load has the outcome of `Crash`. Candidate push
and pull and the relay allocation of a session do not touch what `Signaling`
keeps; they are actions of `Link`.

### 2.2 RelayServer

A `Handler` is a read loop or the goroutine of a WebSocket link. `handle` is
split at each access to shared state, since that is where another handler can
run: table lookup (`handle`), the peers (`route`, `register`), the byte counter
(`countBytes`), the day budget (`charge`), the eviction (`cutOff`), the send
(`forward`). A handler keeps the allocation and the time it read; `MaxLag` bounds
how long it may take. Datagrams arrive from any address at any time, which covers
rebinding NATs and strangers. A cookie is the triple its HMAC covers.
`Allocate` reads its checks before it inserts, so it is two actions.

Left out: STUN answers, socket errors and the health they drive, the metrics for
peaks and totals of bytes; a CHALLENGE that is rate-limited or lost is simply
never answered.

### 2.3 Folder, Transfer and Delivery

`Folder` has the state of the disk: `slot` is what a user finds under a name,
`durable` what a power loss may put back there, `partial` and `meta` are the two
files under `.fsend`, `ino` the contents behind them. A content is a sequence of
hash blocks and a hash is the sequence it covers. The file system is external and
is modelled by what the code relies on: unsynced blocks of an inode may be cut
off or turn to junk, a rename in an unsynced folder may be undone, a new partial
or sidecar may vanish.

`Transfer` has an action per step of `receiver.run` (sweep, classify,
resolveVerify, decide, open, write, finalize, flush, sync, place, report, ack) and
of `sendFiles` (walk, prefix hash, block, end of file). The streams are reliable
and in order until they break, so one action reads a block and writes it. Between
any two actions the source may be edited, shrink, vanish and come back, the user
may save a file, the connection may break, the process may die, the power may
go; `Faults` picks which of these a run allows.

`Delivery` is the promise in terms a user knows: files appear whole, a power loss
takes back only what was not reported. The refinement mapping shows each entry of
the folder as absent, a link, a folder, a file of the user or a whole file of
fsend; a file placed by fsend whose bytes are not the verified ones is `"torn"`,
which `Delivery` has no step for.

Abstractions: files are whole hash blocks; a sparse hole is the block it reads
as; every version of a source has its own modification time; a name has one free
spelling for "keep both"; a move across file systems is a rename; the removal of a
link or an empty folder and the rename onto it are one step; the creation of an
empty file is one step; `resolveVerify` hashes both sides in one step. Not
modelled: folders as entries of a listing, blocked ancestors, reserved names, mode
bits and a failing truncate. Stream mode and the sink are in `Session`.

### 2.4 Listener and Pairing

`Listener` has the two listeners of a sender, one per path, and every connection
ever dialled. A connection goes through `acceptLoop` (which reads the secret and
turns it away when too many handshakes are pending), the handshake, and the
unbuffered channel that `Accept` reads; `handshakeFailed` fills the channel of
failures, whose overflow is dropped, `abandon` closes what finished after the
listener did. A resume secret is derived from the binding of a connection, so it
is that connection's number, and the code is 0.

`Pairing` composes it with the sending command (`snd`), the receiving command of
each device (`rcv`) and the pairing server's slots. The sender's three
goroutines are `LanGoroutine`, `NetGoroutine` and `Coordinator`; an outcome sits
in `snd.lan` or `snd.net` until the coordinator takes it, as it does in the
channel of one. `commit` is the point where the winner calls `paired` and
`SetSecret`; then come `drainLoser`, the transfer with re-accepts, the cleanup
and the next `Round`. A device looks on the LAN, joins at the server, dials, and
after a drop dials again or looks again; `quit` is Ctrl-C or a kill, `runReceive`
the next run with the key that was saved.

The server is reduced to a slot's state (`none`, `waiting`, `joined`,
`consumed`), which is what create, join and delete answer by; `Signaling` has the
rest. A timeout may expire whenever what it waits for has not come, so a
property that holds needs no particular duration. Faults are counted: a cut, a
kill, a lost answer, a server that forgets, a key that cannot be written.

### 2.5 Link

Each side has its agent, its two pump goroutines and its place in
`iceEstablish`; `published` is what the server stores for it. The sender's choice
is an entry of the same list, as in the code. After ICE, `allocateRelay`,
`register` with its resends over a set of datagrams that are delivered in any
order or lost, the WebSocket fallback, keepalives and data. The relay is reduced to the
endpoint it has for each side; `RelayServer` has the rest. A cookie outlives a
registration by far (minutes against seconds), so it is the address it covers.
The one bound on time is in `acceptTimesOut`: the receiver's budget is
`pathDecisionWait` longer than the sender's and it polls far more often, so when
its budget ends it has polled since the choice was stored, unless a fault
intervened.

### 2.6 Session

`s` and `r` are the engines of the sender and the receiver with the code around
them that decides what to report (`runSenderTransferLoop`, `recvOnce`), `out` the
chunk packer with its writer, `net` the two directions of the control stream,
`data` the data stream with its flow control, `conn` what each side knows of the
connection. One module covers files, stream, raw and tar, with and without a
password. A frame is a value; a chunk is its number, and a write deadline may cut
one in two (`Torn`). `Drops`, `readEOF` and `tryReadPeerError` are what a receiver
makes of a skipped file, an early end and the reason behind it; `grace` is the
wait for a close that may turn a drop into a cancel. Its bound on time: a
close that was sent arrives within `peerCancelGrace`.

Left out: hash mismatches and malformed listings, which two honest ends do not
produce.

## 3. Runs

Distinct states are given as an order of magnitude for the sizes chosen.

| Run | States | What it shows |
|---|---|---|
| `table` | 300 k | The session table under every order of two sessions on one slot, two hosts, one parked poll, sweeps, restart and crash. `TypeOK`, `TableConsistent`, `CountsMatch`, `CloseOnce`, `OwnPeer`, `ConsumedStaysClosed`, `PolledNotAbandoned`, `ClaimedOnce`, `CapPassedOnlyByRestore`; and `PollAnswered`, under fairness |
| `rate_window` | 44 k | `WithinWindow`: every minute, not only the one the limiter looks at, is within the budget of a source and of an IPv6 site |
| `relay_cap` | 1.0 M | Two handlers on one session: `CarriedWithinCap`, `EachByteOnce`, `WindowBudget` |
| `relay_peers` | 2.9 M | Racing registrations over UDP and the janitor against handlers: `OneToOne`, `CutStaysCut`, `ActiveKept` |
| `transfer_crash` | 1.4 M | One file of two to three blocks in two versions, with edits, hidden sources, a saving user, breaks, kills and power losses: `VerifiedContent`, `UnflaggedIsSnapshot`, and `DeliveryPromise` (refinement of `Delivery`) |
| `transfer_batch` | 610 k | A batch of two files, empty ones included: `DoneSurvives`, for what was reported and for what was acknowledged |
| `transfer_files` | 450 k | `--checksum`; keep, replace and keep both, over anything the user may have under the name: `SkippedIsSame`, `ConsentKept`; and `SessionEnds`, under fairness |
| `transfer_shared_folder` | violation | `VerifiedContent` fails for two receives in one folder, see section 6 |
| `pairing` | 1.3 M | Two devices with one code, two rounds, one fault: `ReturnsToFirst`, `CodeSpent`, `LoserReleased` |
| `pairing_alone` | 780 k | One device whose command runs twice, three rounds, two faults: `KeysAgree`, `RefusedOnlyIfLeft`; and `PairingEnds`, under fairness |
| `link` | 370 k | `SamePath`, `Released`, `RegisteredIsRecorded`; and `LinkEnds`, `SlotReclaimed`, under fairness |
| `session` | 1.2 M | `SuccessIsShared`, `SameOutcome`, `CancelNotRetried`, `GateHeld`; and `SessionOver`, under fairness |

The type invariants of the other modules (`RTypeOK`, `TransferTypeOK`,
`PairTypeOK`, `LinkTypeOK`, `SessionTypeOK`) are in no run, which spend their
properties on behaviour; they are theorems, see section 4.

### Bounds

- *Signaling.* A slot that is used twice needs two IDs; every counterexample of a
  mutant needs one parked poll. `MaxTime` 3 with all TTLs 1 or 2 lets each of them
  expire, and lets a tombstone expire before the slot is used again. A cap of 1 is
  met by the first session. The rate limit is off here and has a run of its own,
  with a source behind an IPv4 address and three behind one IPv6 site.
- *RelayServer.* Two handlers are what a race on a counter, a slot or the window
  needs. `relay_cap` has datagrams of up to two bytes against a cap of three and a
  budget of two, so both limits are met, passed by one handler and passed by two
  at once. `relay_peers` has two addresses and two peers, so each can take the
  other's address, and a clock long enough for an idle timeout, an eviction and
  the end of the tombstone.
- *Transfer.* Two blocks are a prefix to resume and a rest; three let a source
  grow. Two versions are what a stale sidecar needs. `Inodes` is large enough that
  no action waits for one. Two files and a batch of two are a batch that fails
  halfway; empty files take another path into the batch, hence size 0.
  `VIEW View` ignores the contents of inodes nothing refers to.
- *Pairing.* `pairing` has two devices because a second device with the code is
  what `ReturnsToFirst` and `CodeSpent` are about; two connections are one per
  device, or one per path of the race. A cap of two failed authentications and
  two attempts on a route are met and passed. `pairing_alone` has what one device
  needs to come back twice: three rounds, two faults, a re-discovery within the
  command and a second run of it with the saved key. (`pairing` with two runs per
  device has 14 M states and passes too, but takes longer than a run should.)
- *Link.* One candidate per side against a cap of one is both a connection and a
  list that is full when the choice comes. One rebind and one fault of any other
  kind; every mutant's counterexample needs at most one.
- *Session.* Three chunks, a packer queue of one and a window of one: the sender
  can be blocked in a write, ahead of the disk, and done. Three password
  attempts, as in the code. One verify round meets its limit.

### Fairness

- `Signaling!FairSpec`: time passes, and the runtime runs a `select` that has a
  ready case (a closed channel, an expired timer). No client is assumed to hang
  up, and no request to arrive. `PollAnswered` needs no more.
- `Transfer!FairSpec`: both processes take steps as long as they can. A
  connection that delivers nothing ends in a break, by quicconn's idle timeout.
  Nothing is assumed of the user, of the sources, or of how a step turns out.
- `Pairing!FairSpec`: each goroutine of the sender, each handshake and each
  receiving command takes a step when it can; every blocking call of the code has
  a timeout or a context. No fault, no rerun and no answer of the network is
  promised.
- `Link!FairSpec`: timers fire, the relay and the goroutines run, a datagram that
  is repeated is not lost for ever, QUIC keeps sending. Gathering and ICE's checks
  may never end: nothing is assumed of them.
- `Session!FairSpec`: the three goroutines run, the user answers a prompt, a close
  that was sent arrives, and QUIC's keepalive notices a peer that is gone. Cancels,
  idle timeouts and slow peers are not assumed.

## 4. Proofs

Each component has a module of theorems. All of them hold for every value of the
constants that the component's `ASSUME` admits: any number of hosts, devices,
connections, handlers, chunks, attempts and faults, any caps, queues and
timeouts. Every proof has the same plan: an inductive invariant, a conjunction of
named parts that holds initially (`InitInv`) and is preserved by every step; one
lemma per action, in `RelayProofs` one per part of the invariant; a theorem
`Invariance`; and one theorem per property, which follows from the invariant.

| Module | Theorem | Property |
|---|---|---|
| `SignalingProofs` | `TypeCorrect` | `TypeOK`; no count goes below zero |
| | `TableCorrect` | `TableConsistent` |
| | `CountsCorrect` | `CountsMatch` |
| | `CloseCorrect` | `CloseOnce` |
| | `PeerCorrect` | `OwnPeer` |
| | `TombstoneCorrect` | `ConsumedStaysClosed` |
| | `HeartbeatCorrect` | `PolledNotAbandoned` |
| | `ClaimedCorrect` | `ClaimedOnce` (a step property) |
| | `CapCorrect` | `CapPassedOnlyByRestore` (a step property) |
| `RateWindowProofs` | `WindowCorrect` | `WithinWindow` |
| `RelayProofs` | `RelayTypeCorrect` | `RTypeOK` |
| | `CapCorrect` | `CarriedWithinCap` |
| | `EachByteCorrect` | `EachByteOnce` |
| | `BudgetCorrect` | `WindowBudget` |
| | `OneToOneCorrect` | `OneToOne` |
| | `CutCorrect` | `CutStaysCut` |
| | `ActiveCorrect` | `ActiveKept` (a step property) |
| `PairingProofs` | `PairTypeCorrect` | `PairTypeOK`; the counters of attempts keep their limits |
| | `ReleasedCorrect` | `LoserReleased` |
| | `ClaimCorrect` | `RefusedOnlyIfLeft` |
| | `SpentCorrect` | `CodeSpent` |
| | `ReturnCorrect` | `ReturnsToFirst` |
| | `KeysCorrect` | `KeysAgree` |
| `LinkProofs` | `LinkTypeCorrect` | `LinkTypeOK` |
| | `PathCorrect` | `SamePath` |
| | `ReleasedCorrect` | `Released` |
| | `RegisteredCorrect` | `RegisteredIsRecorded` |
| `SessionProofs` | `SessionTypeCorrect` | `SessionTypeOK`; the packer's queue and the data stream keep their bounds |
| | `SuccessCorrect` | `SuccessIsShared` |
| | `GateCorrect` | `GateHeld` |
| | `CancelCorrect` | `CancelNotRetried` |
| | `OutcomeCorrect` | `SameOutcome` |
| `TransferProofs` | `TransferTypes` | `TransferTypeOK`; no partial is open while a batch is flushed |
| | `VerifiedContentHolds` | `VerifiedContent` |
| | `UnflaggedIsSnapshotHolds` | `UnflaggedIsSnapshot` |
| | `SkippedIsSameHolds` | `SkippedIsSame` |
| | `DoneSurvivesHolds` | `DoneSurvives` |
| | `ConsentKeptHolds` | `ConsentKept` (a step property) |
| | `TransferImplementsDelivery` | `DeliveryPromise` (refinement) |
| | `ReportedIsDurable` | what `Delivery` then implies for the engine |
| `Delivery` | `DoneDurable`, `DoneNeverUndone` | of every folder that keeps the promise |

The type invariants of every component but `Signaling` are proved and are not in a
run; the other properties of the table are each checked by a run of section 3,
but for `ReportedIsDurable`, a consequence of the refinement.

*Assumptions.* They are the types of the constants, that the values for "none"
are not among the real ones, and that sizes and limits which are divided by or
counted down from are not zero. One has more content: `LongPollTimeout <=
AbandonedTTL` in `SignalingAssumption` (25 seconds and 5 minutes in
`Config.Default`); without it the janitor may evict a session whose sender is
parked. In `TransferAssumption` the files of a listing are `1..k`, so that the
"name (1)" of one, `k` further on, is no other's. Two theorems of
`TransferProofs` say more in their statement, see 4.7.

### 4.1 SignalingProofs

None of the properties is inductive alone. `IInv` adds
`SessionShape` (a session has a slot once it was created and a receiver once it is
paired), `DownShape` (a process that is down has no table, no counts and no polls;
what is in the state file was waiting with an open channel, one session per slot),
`PollShape` (a parked poll is no older than its timeout and its session was seen
no earlier than the poll parked) and the finiteness of `byID` and `saved`.
`LoadInv` is where `DownShape` is needed: the restored sessions satisfy
`CloseOnce` because of what was saved. `HeartbeatCorrect` follows from `PollShape`
and the assumption above. In front of the actions are the lemmas on `Charged`:
adding a side adds one (`CountSender`, `CountReceiver`), dropping sessions
subtracts what they were charged (`ChargedDrop`, `CountDrop`), and so the "delete
at zero" of `releaseIP` never hides a mismatch.

### 4.2 RateWindowProofs

`rateBucket.allow` looks at the stamps it kept, `WithinWindow` at all that was
ever let through, in any minute. `WInv` relates the two without a sum. Both
sequences are in the order of time (`Ordered`). Counted from the newest, the k-th
admission of the last minute has a k-th stamp at least as young (`Covers`); so a
bucket that has fewer stamps than its budget L had fewer admissions, and one that
lets a request through was last given its L-th newest a minute ago: an admission
and the one L later are a minute apart (`Spaced`). A host's bucket may hold a
stamp without an admission, as the site's bucket is asked after it was charged;
`Covers` allows for that, an equality would not be an invariant. From `Spaced` a
minute's admissions, a segment of consecutive positions, are at most L
(`InitialSegment`, used for pruning too). The theorem is for every length of the
window, every budget and any `v6SiteFactor`, and for any mapping of hosts to
keys and sites that `RateAssumption` admits.

### 4.3 RelayProofs

`RInv` says what a handler that was overtaken between two of its steps can still
rely on. `FreshUnused`: a token between the two halves of `Allocate` is nowhere
else. `HandlerShape`: a handler is late by at most `MaxLag`, and one that is about
to register holds a peer whose cookie was issued. `SpanCounted`: the bytes a
handler counted lie below the session's counter, and below the cap once it went
past that check. The counter only grows by atomic additions, so spans of two
handlers are disjoint (`EachByteOnce`), and what was forwarded is a set of places
below the cap (`CarriedCounted`), hence no larger than the cap. `BudgetCovers`:
the budget knows of all bytes it let through since the last roll.
`ActivityNoted`: the time in an allocation is behind the last datagram by at most
a handler's lag, which is what `ActiveKept` needs of the janitor.

### 4.4 PairingProofs

`PInv` follows the resources through the race. `SenderShape` and `KeyShape` are
where the sending command can be and which key session and round are on;
`HeldShape` and `SlotShape` say who will end the server's session that is held,
and that what else a slot holds is the tombstone of the code or was left behind
by a fault; from them `RefusedOnlyIfLeft` and `CodeSpent`. `HandedShape` names
the owner of every connection that was accepted (an outcome in a channel, the
winner, the current transfer), and `LoserReleased` is its special case without
owners. `ListenShape` ties a listener to the goroutine that closes it and a
handshake to the round's key or the session's, the two that `SetSecret` may have
left it with. `SecretShape` is the reason for `ReturnsToFirst`: a secret other
than the code is known only to the device at the other end of the connection it
was derived from. `AdoptShape` says when a device has adopted the key of a
connection it opened on the code, which gives `KeysAgree`. The actions of
`Listener` have lemmas of their own on what closing a connection, a listener or a
transport does to all connections.

### 4.5 LinkProofs

`LInv` has what a side holds of its agent and goroutines at each step
(`IceShape`, `Released`), what the relay and the datagrams under way know of its
address (`AddressShape`, for `RegisteredIsRecorded`: an answer is under way only
to what is recorded, and a registration is never removed), and the fate of the
choice: it is in the published list at most once, the receiver's cursor is past it
only if it was read (`ChoiceShape`), and while nothing fails a receiver on ICE has
a sender on its way there (`PathShape`, which is `SamePath` made inductive).

### 4.6 SessionProofs

`SInv` says which frames may be under way when both engines are where they are.
`InOrder` is the chain of chunks, disk, data stream, packer queue and source, as
consecutive numbers, with a skip marker or a chunk cut in two only at its end;
`CompleteSent` and `AckCommitted` are the two directions of the final handshake,
and the three together give `SuccessIsShared`. `Gated` has one challenge, one
answer and one verdict at a time; nothing of the transfer exists before the right
answer was typed (`GateHeld`). `Departure`, `Pending` and `Doubted` say how a
sender leaves and what a receiver that sees an end without a reason can still
find out, from which `CancelNotRetried`. The bound on time behind it is the
guard of `grace` in the model, that a close which was sent comes within
`peerCancelGrace`; the theorem is as good as that.

`SameOutcome` needs to know at each step what the two ends will have heard when
they are over, and `SInv`, which says what may be under way in any attempt, does
not tell. `OInv` says it for an attempt that is `Undisturbed` so far. It is a
table with a row for each place of the receiver:

- While the receiver is at work (`Turn`), the place of the sender and the
  contents of both control queues, two frames at most, follow from the
  receiver's place; the password attempts and verify rounds of both sides differ
  by what is on the queues. `Greeting`, `Asking`, `Negotiating` and `Moving` are
  the four parts of the table.
- Once the receiver has left (`Parted`), the sender has ended with the same
  cause (`Agreed`); or its source failed as the receiver's folder did
  (`BothFailed`); or the receiver's reason is what it reads next, or behind the
  one frame it still expects (`WillBeTold`); or the receiver was a sink that
  said nothing (`SinkGone`); or it gave up after a wrong password and the sender,
  whose read fails, reports the same (`GaveUp`).
- In both (`Clear`), nobody's context is cancelled, nobody is over while the
  other still works, and the packer fails for no other reason than a receiver
  that left.

`NoSkips`, that no skip marker is in a stream, holds always and rules out the
sink's case for streams. Each action has a lemma (`...Out`); the steps that send,
read or leave go through `SendMoves`, `RecvMoves`, `SendEndsTold`,
`LastWordTold` and `ReturnsTold`, and a read that fails through `CalmRead`: the
only thing that cuts one is the end of the other side. TLC checked `OInv` and
`NoSkips` on the instance of `session` before they were proved.

### 4.7 TransferProofs and Delivery

All theorems have the hypothesis `Alone`, one transfer at a time in a folder:
`transfer_shared_folder` shows that they are false without it (section 6). Within
that, any number of files, blocks, versions, batches, restarts and faults.
`DoneSurvivesHolds` and the refinement also have `Unsyncable = {}`, that
`syncDirs` can open every folder it renamed into: it passes over one it cannot
open, and what was reported there may be undone by a power loss. The runs have
no such folder either.

`TInv` has two parts. `FolderShape` is about the disk: no inode is under two
names, and the one of a partial is under none (`NameShape`); what is under a name
is all on the device, and is what was verified if fsend put it there
(`DeviceShape`); what was reported is under its name for good (`ReportShape`).
`SessionShape` is about a session: which files it still wants, has open, waits to
place and has placed (`SessionOK`, `PlanOK`, `BatchOK`); that the two hashers and
the partial agree (`SessionOK`); that a prefix which was hashed is still the
beginning of its partial (`PrefixOK`); that, while the source is at the version
the walk listed, everything read of it was of that version (`SourceOK`); and that
what needed no consent was not there (`ConsentOK`). TLC checked `TInv` on the
instances of the three passing runs before it was proved.

The argument for `VerifiedContent`: a batch is synced before any of it is placed
and a block can only be written through a handle, which a session has on a
partial alone; so a power loss, which takes unsynced blocks of inodes, finds none
under a name (`UnsyncedUnnamed`). `UnflaggedIsSnapshot` follows from `SourceOK`
and `f.Stat` at the end of a file: versions only grow in number, so a source that
is at the listed version at the end was at it at every read.

The refinement has a lemma per kind of step: those that touch no content
(`ReceiverQuiet`, `SenderQuiet`), that change modification times or sync
(`SyncQuiet`), that write to a partial (`WriteQuiet`), and what happens from
outside (`EnvironmentQuiet`) are stuttering steps; `place` is `Receive`,
`flushDone` is `Commit`, `UserWrite` is `UserSave`, `UndoRename` is `Undo`, `Boot`
is `Settle`. `DoneDurable` and `DoneNeverUndone` of `Delivery` then hold of the
engine: what is reported is whole and on the device, and is only ever replaced by
the user or a later transfer.

### 4.8 Only model-checked

- Liveness (`PollAnswered`, `SessionEnds`, `PairingEnds`, `LinkEnds`,
  `SlotReclaimed`, `SessionOver`): fairness is out of the prover's reach.

Every other property of the passing runs is a theorem.

## 5. Not modelled, and why

- The cryptography (PAKE, TLS, HMAC, argon2id) is assumed: two ends authenticate
  exactly when they used the same secret.
- mDNS packets, pion's connectivity checks and QUIC's recovery are external; their
  outcomes are inputs.
- The wire format's encoding is a total function with fuzz tests in the repository.
- The command line, prompts, configuration, updates and logging share no state
  with a transfer. What a prompt answers is an input.
- In pairing: the time epoch of a slot, the 24-hour life of a saved key, and
  standard input as a source, which cannot be sent twice.
- In the transfer: folders as entries, blocked ancestors, reserved names, mode
  bits, the tar layout, the copy of a move across file systems.
- In the relay: STUN answers, socket errors and the health they drive, the queues
  of a WebSocket link.

## 6. Findings

- **Two receives of one name into one folder** (`transfer_shared_folder`,
  `partials.go:111`). The partial's name depends on the relative path only and is
  not locked. `finalize` compares what was sent, not what is in the partial, so a
  file may get its name that is not what was verified.

Noticed while modelling, without a run of their own:

- `LoadState` restores sessions without their sender's address, and the sender's
  first `/wait` charges it without looking at the cap. After a graceful restart
  the per-IP cap can be passed; `CapPassedOnlyByRestore` says that this is the
  only way.
- `transfersCapped` counts a session once for every handler that sees it over the
  cap (`relay/server.go:499`).
- `place` looks at the target again only for folders, so a file the user saves
  under a new name after classification is replaced without a question.
  `ConsentKept` is therefore about what classification saw, although the comment
  on `place` (`recv.go:897`) says that the name "may hold only what the user
  agreed to replace".
- The day budget can be reset around midnight (`budget.go:24`). `roll` follows any
  change of day. A handler that read its clock before midnight and charges after
  another one opened the new day takes the window back, and the next charge opens
  the new day a second time with nothing used. `WindowBudget` is therefore about
  what passes between two rolls.
- A folder that cannot be opened is not synced (`recv.go:964`), and its files are
  reported as done all the same. `transfer_batch` has `Unsyncable = {}`; with a
  file in it `DoneSurvives` fails.
- A second device that knows the code, and whose handshake read the code's secret
  before `SetSecret` replaced it, can be accepted as the re-accept of a broken
  transfer. Rounds after the first are not open to it (`ReturnsToFirst`).
- A receiver that dies between the sender's `commit` and its own end of the
  handshake has no resume key, while the code is spent: the sender has to be
  started again. `KeysAgree` starts where the receiver has opened the connection.
- A sender whose candidates fill the server's cap has its choice of path refused
  (413), and the receiver decides alone; a receiver whose own `Accept` fails while
  the sender chose ICE is on the relay until the retry. `SamePath` exempts both.
- After the switch to the WebSocket a late REGISTER of the closed UDP socket may
  take the relay's slot back. The keepalive repairs it, but ends with the first
  inbound datagram; `SlotReclaimed` exempts what comes later.
- The sink's receiver leaves without an ERROR frame when a file becomes unreadable
  in the middle; the sender sees a lost connection (`SameOutcome` exempts it).
- Past the first password attempt any cut is reported as a wrong password, on both
  sides (`password.go:56`, `:105`).
- A sender cancelled while the receiver reads a challenge posts an ERROR frame that
  the receiver decodes as a challenge; it reports a malformed frame, not the cancel.
- `notifyPeer` gives up after a second, and the peer may then see the close before
  the reason (`SameOutcome` is about peers that are not that slow).

## 7. Plan

Every module of section 2 is written and every result of section 4 is proved. What
would add most is to compose further: `Link` over the full `RelayServer`, and
`Pairing` over the full `Signaling`.
