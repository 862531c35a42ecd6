------------------------------ MODULE Transfer ------------------------------
(***************************************************************************)
(* The transfer engine (internal/transfer) in ModeFiles: a sender offers   *)
(* the files it walked, the receiver classifies them against its folder    *)
(* and decides, the sender streams what was asked for, and the receiver    *)
(* writes, verifies and commits it.  A transfer that breaks is run again   *)
(* and resumes from the partials it left.                                  *)
(*                                                                         *)
(* The streams are reliable and in order until they break, so a block is   *)
(* read from the source and written to the partial in one action: what is  *)
(* lost in flight was read to no effect.  Everything that can change       *)
(* between two looks of the code (the source, the folder, the connection,  *)
(* the process, the power) changes between actions.                        *)
(***************************************************************************)
EXTENDS Folder, FiniteSetsExt

CONSTANTS
    Transfers,       \* sender and receiver pairs that use the folder
    Files,           \* the files each of them offers: 1..k, in listing order
    NoFile,
    Checksum,        \* --checksum
    commitMaxFiles,
    Unsyncable,      \* names in folders that syncDirs cannot open
    SourceData,      \* what the source files may hold
    UserData,        \* what the user may write into the folder
    Faults,          \* what else happens: "edit", "hide", "user", "break", "kill", "power"
    NoReport

ASSUME TransferAssumption ==
    /\ Names \subseteq Nat
    /\ Files \subseteq Names
    /\ IsFiniteSet(Files) /\ Files = 1..Cardinality(Files)
    /\ NoFile \notin Files
    /\ Checksum \in BOOLEAN
    /\ commitMaxFiles \in Nat \ {0}
    /\ Unsyncable \subseteq Names
    /\ SourceData \subseteq Data /\ UserData \subseteq Data
    /\ Faults \subseteq {"edit", "hide", "user", "break", "kill", "power"}
    /\ NoReport \notin Data
    /\ MaxTime > 0

VARIABLES
    src,       \* per transfer, the source files
    listed,    \* the listing of the sender's walk
    rx,        \* the session of each transfer
    reported   \* history: per name, the content OnFileDone last reported there

vars == <<folder, src, listed, rx, reported>>

\* A source file with its versions; the modification time of a version is its
\* number.
Source == [versions : BoundedSeq(SourceData, MaxTime) \ {<<>>}, readable : BOOLEAN]
data(x, f) == Last(src[x][f].versions)
mtime(x, f) == Len(src[x][f].versions)
Dispositions == {"new", "identical", "verify", "differs", "conflict", "resume", "refused"}

\* entryPlan with its decision and the file's progress. off is resumeOffset
\* and prefix prefixBlocks; own is the sender's hash of its own prefix. seen
\* is what classify found under the name.
Plan == [rel : Names, disp : Dispositions, seen : Slot, off : 0..MaxSize, prefix : Data,
         action : {"none", "send", "resume", "skip"},
         own : {"none", "unreadable", "hashed"}, ownPrefix : Data,
         ino : Inodes \cup {NoIno},
         state : {"todo", "pending", "placed", "saved", "failed", "skipped"}, changed : BOOLEAN]

\* The file being sent: the sender's and the receiver's hasher. ino is NoIno
\* until the data file of a new partial is open.
OpenFile == [file : Files \cup {NoFile}, ino : Inodes \cup {NoIno}, sent : Data, got : Data]
NoOpenFile == [file |-> NoFile, ino |-> NoIno, sent |-> <<>>, got |-> <<>>]

\* then is where a flush returns to; acked: the sender got TRANSFER_ACK.
Session == [pc : {"off", "swept", "classified", "data", "sync", "place", "finish"},
            then : {"data", "finish", "off"},
            plan : [Files -> Plan], cur : OpenFile, acked : BOOLEAN]

NewPlan(f) == [rel |-> f, disp |-> "new", seen |-> Absent, off |-> 0, prefix |-> <<>>, action |-> "none",
               own |-> "none", ownPrefix |-> <<>>, ino |-> NoIno, state |-> "todo", changed |-> FALSE]
NoSession == [pc |-> "off", then |-> "off", plan |-> [f \in Files |-> NewPlan(f)],
              cur |-> NoOpenFile, acked |-> FALSE]

\* The types, and that no partial is open outside the data phase: a flush
\* never runs beside a half-written file.
TransferTypeOK ==
    /\ FolderTypeOK
    /\ src \in [Transfers -> [Files -> Source]]
    /\ listed \in [Transfers -> [Files -> Entry]]
    /\ rx \in [Transfers -> Session]
    /\ \A x \in Transfers : rx[x].cur # NoOpenFile => rx[x].pc = "data"
    /\ reported \in [Names -> Data \cup {NoReport}]

-----------------------------------------------------------------------------
plan(x, f) == rx[x].plan[f]
cur(x) == rx[x].cur
Pending(x) == {f \in Files : plan(x, f).state = "pending"}

\* Files the sender still has to send, and those the receiver creates itself.
Asked(x) == {f \in Files : plan(x, f).action \in {"send", "resume"} /\ plan(x, f).state = "todo"}
Empties(x) == {f \in Asked(x) : listed[x][f].size = 0}
NextFile(x) == Min(Asked(x))

\* The inodes the sessions have open, and the ones they found at classify; an
\* inode that is neither nor has a name is free.
Open == UNION {{cur(x).ino} \cup {plan(x, f).ino : f \in Files} : x \in Transfers}
Seen == {plan(x, f).seen.ino : x \in Transfers, f \in Files}
Free == Inodes \ (Linked \cup Open \cup Seen)
Fresh == CHOOSE i \in Free : TRUE
PartialInode(n) == IF partial[n] # NoIno THEN partial[n] ELSE Fresh
CanCreate(n) == partial[n] # NoIno \/ Free # {}   \* bound: inodes

SetPlan(x, f, p) == rx' = [rx EXCEPT ![x].plan[f] = p]

\* run returns an error: the open partial stays (cur.abandon(true)), and the
\* deferred flush commits the files that were verified.
Failed(s) == IF \E f \in Files : s.plan[f].state = "pending"
             THEN [s EXCEPT !.cur = NoOpenFile, !.pc = "sync", !.then = "off"] ELSE NoSession

-----------------------------------------------------------------------------
\* A new fsend process walks its sources.
Walk(x) ==
    /\ rx[x].pc = "off"
    /\ \A f \in Files : src[x][f].readable
    /\ listed' = [listed EXCEPT ![x] = [f \in Files |-> [size |-> Len(data(x, f)), mtime |-> mtime(x, f)]]]
    /\ UNCHANGED <<folder, src, rx, reported>>

\* The offset that resumeCandidate aligns to: the last block always crosses
\* the wire.
Aligned(n, e) == Least(Size(partial[n]), e.size - 1)

\* resumeCandidate
CanResume(n, e) == e.size > 0 /\ lookup(n, e) /\ Aligned(n, e) > 0

SameSize(n, e) == IsFile(n) /\ Size(slot[n].ino) = e.size

dispResumesOver(n, e) ==   \* mutant: a partial is resumed over a file of the user
    IF SameSize(n, e) /\ Checksum THEN "verify"
    ELSE IF SameSize(n, e) /\ ino[slot[n].ino].mtime = e.mtime THEN "identical"
    ELSE IF CanResume(n, e) THEN "resume"
    ELSE IF IsFile(n) THEN "differs"
    ELSE IF slot[n] # Absent THEN "conflict" ELSE "new"

\* classifyOne, for a regular file with a free path to it.
classifyOne(n, e) ==
    IF SameSize(n, e) /\ Checksum THEN "verify"
    ELSE IF SameSize(n, e) /\ ino[slot[n].ino].mtime = e.mtime THEN "identical"
    ELSE IF slot[n] = Absent /\ CanResume(n, e) THEN "resume"
    ELSE IF IsFile(n) THEN "differs"
    ELSE IF slot[n] # Absent THEN "conflict" ELSE "new"

\* The plan for file f under name n, and what its prefix hashes to.
Planned(f, n, d, e) ==
    [NewPlan(f) EXCEPT !.rel = n, !.disp = d, !.seen = slot[n],
                       !.off = IF d = "resume" THEN Aligned(n, e) ELSE 0,
                       !.prefix = IF d = "resume" THEN SubSeq(ino[partial[n]].data, 1, Aligned(n, e)) ELSE <<>>]

\* The partial that classifyOne drops: of an identical file, or a stale one.
Dropped(n, e) ==
    \/ classifyOne(n, e) = "identical"
    \/ slot[n] = Absent /\ e.size > 0 /\ Stale(n, e)

\* A session starts, with (ps *partialStore) sweep: partials nobody has
\* touched for a week go, and sidecars without one.
Untouched == {n \in Names : /\ partial[n] \notin Open \ {NoIno}
                            /\ \A x \in Transfers : cur(x).file # NoFile => plan(x, cur(x).file).rel # n}
sweep(x, old) ==
    /\ up
    /\ rx[x].pc = "off"
    /\ \A f \in Files : listed[x][f].mtime > 0
    /\ old \subseteq {n \in Untouched : partial[n] # NoIno \/ meta[n] # NoMeta}
    /\ remove(old)
    /\ rx' = [rx EXCEPT ![x] = [NoSession EXCEPT !.pc = "swept"]]
    /\ UNCHANGED <<up, ino, slot, durable, src, listed, reported>>

\* classifier.run, with hashResumePrefixes: a partial that cannot be read goes.
classify(x, lost) ==
    /\ up
    /\ rx[x].pc = "swept"
    /\ lost \subseteq {f \in Files : classifyOne(f, listed[x][f]) = "resume"}
    /\ rx' = [rx EXCEPT ![x] = [NoSession EXCEPT
                 !.pc = "classified",
                 !.plan = [f \in Files |-> Planned(f, f, IF f \in lost THEN "new" ELSE classifyOne(f, listed[x][f]),
                                                    listed[x][f])]]]
    /\ remove({f \in Files : Dropped(f, listed[x][f])} \cup lost)
    /\ UNCHANGED <<up, ino, slot, durable, src, listed, reported>>

MatchesUnhashed(x, f) ==   \* mutant: a file the sender sent no hash for matches
    src[x][f].readable => IsFile(f) /\ ino[slot[f].ino].data = data(x, f)

\* resolveVerify: the contents decide, and a match takes the sender's mtime.
Matches(x, f) == src[x][f].readable /\ IsFile(f) /\ ino[slot[f].ino].data = data(x, f)

resolveVerify(x) ==
    LET verify == {f \in Files : plan(x, f).disp = "verify"}
    IN  /\ up
        /\ rx[x].pc = "classified"
        /\ verify # {}
        /\ rx' = [rx EXCEPT ![x].plan = [f \in Files |->
                    IF f \in verify THEN [plan(x, f) EXCEPT !.disp = IF Matches(x, f) THEN "identical" ELSE "differs"]
                    ELSE plan(x, f)]]
        /\ ino' = [i \in Inodes |->
                     IF \E f \in verify : Matches(x, f) /\ slot[f].ino = i
                     THEN [ino[i] EXCEPT !.mtime = listed[x][CHOOSE f \in verify : slot[f].ino = i].mtime]
                     ELSE ino[i]]
        /\ UNCHANGED <<up, names, src, listed, reported>>

NeedsConsent(p) == p.disp \in {"differs", "conflict"}

\* freeName: "name (1)". Bound: no other spelling is tried.
FreeName(f) == f + Cardinality(Files)

\* applyPolicy
Replaced(p) == IF NeedsConsent(p) /\ p.seen.kind = "fullDir" THEN [p EXCEPT !.disp = "refused"] ELSE p
Retargeted(x, f, p) ==
    LET n == FreeName(f)
    IN  IF NeedsConsent(p)
        THEN Planned(f, n, IF CanResume(n, listed[x][f]) THEN "resume" ELSE "new", listed[x][f]) ELSE p

\* planToDecision
Decided(p, replace) ==
    [p EXCEPT !.action = CASE p.disp = "new" -> "send"
                           [] p.disp = "resume" -> "resume"
                           [] NeedsConsent(p) /\ replace -> "send"
                           [] OTHER -> "skip"]

\* The receiver's answer: the policy for what exists and differs, the decisions.
decide(x, policy) ==
    LET consent == {f \in Files : NeedsConsent(plan(x, f))}
        apply(f) == CASE policy = "replace" -> Replaced(plan(x, f))
                      [] policy = "rename" -> Retargeted(x, f, plan(x, f))
                      [] OTHER -> plan(x, f)
    IN  /\ up
        /\ rx[x].pc = "classified"
        /\ \A f \in Files : plan(x, f).disp # "verify"
        /\ policy # "keep" => consent # {}
        /\ policy = "rename" => \A f \in consent : FreeName(f) \in Names /\ slot[FreeName(f)] = Absent
        /\ rx' = [rx EXCEPT ![x].pc = "data",
                            ![x].plan = [f \in Files |-> Decided(apply(f), policy = "replace")]]
        /\ IF policy = "rename"
           THEN remove({FreeName(f) : f \in {g \in consent : listed[x][g].size > 0 /\ Stale(FreeName(g), listed[x][g])}})
           ELSE UNCHANGED <<partial, meta>>
        /\ UNCHANGED <<up, ino, slot, durable, src, listed, reported>>

\* No space, no consent: declineTransfer before anything is asked for.
decline(x) ==
    /\ rx[x].pc = "classified"
    /\ rx' = [rx EXCEPT ![x] = NoSession]
    /\ UNCHANGED <<folder, src, listed, reported>>

-----------------------------------------------------------------------------
hashPrefixQuiet(x, f) ==   \* mutant: no result is sent when the source cannot be opened
    LET p == plan(x, f)
        ok == src[x][f].readable /\ Len(data(x, f)) >= p.off
    IN  /\ rx[x].pc \notin {"off", "swept", "classified"}
        /\ p.action = "resume" /\ p.own = "none" /\ ok
        /\ SetPlan(x, f, [p EXCEPT !.own = "hashed", !.ownPrefix = SubSeq(data(x, f), 1, p.off)])
        /\ UNCHANGED <<folder, src, listed, reported>>

\* startPrefixHashing: the sender hashes the prefix of its own file.
hashPrefix(x, f) ==
    LET p == plan(x, f)
        ok == src[x][f].readable /\ Len(data(x, f)) >= p.off
    IN  /\ rx[x].pc \notin {"off", "swept", "classified"}
        /\ p.action = "resume" /\ p.own = "none"
        /\ SetPlan(x, f, [p EXCEPT !.own = IF ok THEN "hashed" ELSE "unreadable",
                                   !.ownPrefix = IF ok THEN SubSeq(data(x, f), 1, p.off) ELSE <<>>])
        /\ UNCHANGED <<folder, src, listed, reported>>

\* materialize, of an empty file.
materialize(x, f) ==
    LET p == plan(x, f)
        i == PartialInode(p.rel)
    IN  /\ up
        /\ rx[x].pc = "data"
        /\ Empties(x) # {} /\ f = Min(Empties(x))
        /\ Cardinality(Pending(x)) < commitMaxFiles
        /\ CanCreate(p.rel)
        /\ createMeta(p.rel, listed[x][f])
        /\ partial' = [partial EXCEPT ![p.rel] = i]
        /\ ino' = [ino EXCEPT ![i] = [EmptyINode EXCEPT !.mtime = listed[x][f].mtime, !.verified = TRUE]]
        /\ SetPlan(x, f, [p EXCEPT !.state = "pending", !.ino = i])
        /\ UNCHANGED <<up, slot, durable, src, listed, reported>>

\* The sender turns to its next file: its own prefix hash is there.
Turn(x, f) ==
    /\ up
    /\ rx[x].pc = "data" /\ cur(x) = NoOpenFile
    /\ Asked(x) # {} /\ Empties(x) = {} /\ f = NextFile(x)
    /\ Cardinality(Pending(x)) < commitMaxFiles
    /\ plan(x, f).action = "resume" => plan(x, f).own # "none"

\* The first block is there to be read.
CanStart(x, f, off) == src[x][f].readable /\ Len(data(x, f)) > off

\* sendOneFile resumes when the receiver's prefix is its own.
Resumes(p) == p.action = "resume" /\ p.own = "hashed" /\ p.ownPrefix = p.prefix

\* sendOneFile and openFile, resuming: the partial is opened and cut to the offset.
openResumed(x, f) ==
    LET p == plan(x, f)
        i == partial[p.rel]
    IN  /\ Turn(x, f)
        /\ Resumes(p)
        /\ CanStart(x, f, p.off)
        /\ IF i = NoIno
           THEN rx' = [rx EXCEPT ![x] = Failed(@)] /\ UNCHANGED ino
           ELSE /\ rx' = [rx EXCEPT ![x].cur = [file |-> f, ino |-> i, sent |-> p.ownPrefix, got |-> p.prefix]]
                /\ ino' = [ino EXCEPT ![i] = Truncated(@, p.off)]
        /\ UNCHANGED <<up, names, src, listed, reported>>

\* openFile of a file that is sent from its start: create's sidecar.
openNew(x, f) ==
    LET p == plan(x, f)
    IN  /\ Turn(x, f)
        /\ p.own # "unreadable" /\ ~Resumes(p)
        /\ CanStart(x, f, 0)
        /\ createMeta(p.rel, listed[x][f])
        /\ rx' = [rx EXCEPT ![x].cur = [NoOpenFile EXCEPT !.file = f],
                            ![x].plan[f].disp = IF p.disp = "resume" THEN "new" ELSE p.disp]
        /\ UNCHANGED <<up, ino, slot, durable, partial, src, listed, reported>>

\* create's data file.
openData(x) ==
    LET n == plan(x, cur(x).file).rel
        i == PartialInode(n)
    IN  /\ up
        /\ cur(x).file # NoFile /\ cur(x).ino = NoIno
        /\ CanCreate(n)
        /\ create(n, i)
        /\ rx' = [rx EXCEPT ![x].cur.ino = i]
        /\ UNCHANGED <<up, slot, durable, meta, src, listed, reported>>

\* The sender cannot read the file: the receiver drops it, with no partial open.
skipFile(x, f) ==
    LET p == plan(x, f)
    IN  /\ Turn(x, f)
        /\ CanStart(x, f, IF Resumes(p) THEN p.off ELSE 0) => p.own = "unreadable"
        /\ SetPlan(x, f, [p EXCEPT !.state = "skipped"])
        /\ UNCHANGED <<folder, src, listed, reported>>

\* A partial is open for writing.
Writing(x) == up /\ rx[x].pc = "data" /\ cur(x).ino # NoIno
Sent(x) == Len(cur(x).sent)
Readable(x) == CanStart(x, cur(x).file, Sent(x))
Remaining(x) == listed[x][cur(x).file].size - Sent(x)

\* sendOneFile reads a block, write writes it, and both hash it.
sendBlock(x) ==
    LET b == data(x, cur(x).file)[Sent(x) + 1]
    IN  /\ Writing(x)
        /\ Remaining(x) > 0
        /\ Readable(x)
        /\ ino' = [ino EXCEPT ![cur(x).ino] = Written(@, Len(cur(x).got), b)]
        /\ rx' = [rx EXCEPT ![x].cur.sent = Append(@, b), ![x].cur.got = Append(@, b)]
        /\ UNCHANGED <<up, names, src, listed, reported>>

\* write's periodicSync
periodicSync(x) ==
    /\ Writing(x)
    /\ ino' = [ino EXCEPT ![cur(x).ino] = Synced(@)]
    /\ UNCHANGED <<up, names, src, listed, rx, reported>>

\* The source shrank or became unreadable: the partial goes (abandon(false)).
dropFile(x) ==
    LET f == cur(x).file
    IN  /\ Writing(x)
        /\ Remaining(x) > 0
        /\ ~Readable(x)
        /\ remove({plan(x, f).rel})
        /\ rx' = [rx EXCEPT ![x].cur = NoOpenFile, ![x].plan[f].state = "skipped"]
        /\ UNCHANGED <<up, ino, slot, durable, src, listed, reported>>

\* f.Stat at the end of sendOneFile.
ChangedBySize(x, f) == Len(data(x, f)) # listed[x][f].size   \* mutant
Changed(x, f) == Len(data(x, f)) # listed[x][f].size \/ mtime(x, f) # listed[x][f].mtime

\* The EOF segment, and finalize.
finalize(x) ==
    LET f == cur(x).file
        p == plan(x, f)
    IN  /\ Writing(x)
        /\ Remaining(x) = 0
        /\ IF cur(x).got = cur(x).sent
           THEN /\ rx' = [rx EXCEPT ![x].cur = NoOpenFile,
                                    ![x].plan[f] = [p EXCEPT !.state = "pending", !.ino = cur(x).ino,
                                                             !.changed = Changed(x, f)]]
                /\ ino' = [i \in Inodes |->
                             LET t == IF i = partial[p.rel] THEN [ino[i] EXCEPT !.mtime = listed[x][f].mtime] ELSE ino[i]
                             IN  IF i = cur(x).ino THEN [t EXCEPT !.verified = TRUE, !.root = cur(x).sent] ELSE t]
                /\ UNCHANGED <<partial, meta>>
           ELSE /\ remove({p.rel})
                /\ rx' = [rx EXCEPT ![x] = Failed(@)]
                /\ UNCHANGED ino
        /\ UNCHANGED <<up, slot, durable, src, listed, reported>>

\* A write fails (on a full disk the partial goes), or finalize cannot extend
\* the file over its last hole.
writeFails(x, full) ==
    /\ Writing(x)
    /\ full => Remaining(x) > 0
    /\ rx' = [rx EXCEPT ![x] = Failed(@)]
    /\ IF full THEN remove({plan(x, cur(x).file).rel}) ELSE UNCHANGED <<partial, meta>>
    /\ UNCHANGED <<up, ino, slot, durable, src, listed, reported>>

\* The connection breaks, a peer cancels, the sender gives up, or a partial
\* cannot be created.
break(x) ==
    /\ "break" \in Faults
    /\ rx[x].pc \in {"swept", "classified", "data", "finish"}
    /\ rx' = [rx EXCEPT ![x] = Failed(@)]
    /\ UNCHANGED <<folder, src, listed, reported>>

-----------------------------------------------------------------------------
\* commit.add's batch limit, and run's flush once every file is in.
AllIn(x) == Asked(x) = {}
AfterData(x) == IF AllIn(x) THEN "finish" ELSE "data"

flushDeferred(x) ==   \* mutant: the last batch is left to the deferred flush
    /\ rx[x].pc = "data" /\ cur(x) = NoOpenFile
    /\ ~AllIn(x) => Cardinality(Pending(x)) >= commitMaxFiles
    /\ rx' = [rx EXCEPT ![x].pc = IF AllIn(x) THEN "finish" ELSE "sync", ![x].then = AfterData(x)]
    /\ UNCHANGED <<folder, src, listed, reported>>

flush(x) ==
    /\ rx[x].pc = "data" /\ cur(x) = NoOpenFile
    /\ ~AllIn(x) => Cardinality(Pending(x)) >= commitMaxFiles
    /\ rx' = [rx EXCEPT ![x].pc = IF Pending(x) = {} THEN "finish" ELSE "sync", ![x].then = AfterData(x)]
    /\ UNCHANGED <<folder, src, listed, reported>>

SyncedNothing(S) == {}   \* mutant: the batch is not synced
SyncedInodes(S) == S

\* parallelSync and syncBarrier
syncBatch(x) ==
    LET batch == SyncedInodes({plan(x, f).ino : f \in Pending(x)})
    IN  /\ up
        /\ rx[x].pc = "sync"
        /\ ino' = [i \in Inodes |-> IF i \in batch THEN Synced(ino[i]) ELSE ino[i]]
        /\ rx' = [rx EXCEPT ![x].pc = "place"]
        /\ UNCHANGED <<up, names, src, listed, reported>>

\* A sync fails: nothing of the batch is placed, the partials stay.
syncFails(x) ==
    /\ up
    /\ rx[x].pc = "sync"
    /\ rx' = [rx EXCEPT ![x] = NoSession]
    /\ UNCHANGED <<folder, src, listed, reported>>

\* place: a folder that fills up meanwhile is refused, a rename onto a folder
\* without consent, or of a partial that is gone, fails.
place(x) ==
    LET f == Min(Pending(x))
        p == plan(x, f)
        n == p.rel
        refused == NeedsConsent(p) /\ slot[n].kind = "fullDir"
        fails == partial[n] = NoIno \/ (slot[n].kind \in {"emptyDir", "fullDir"} /\ ~NeedsConsent(p))
    IN  /\ up
        /\ rx[x].pc = "place" /\ Pending(x) # {}
        /\ IF refused
           THEN /\ remove({n})
                /\ SetPlan(x, f, [p EXCEPT !.state = "skipped", !.disp = "refused", !.ino = NoIno])
                /\ UNCHANGED <<slot, reported>>
           ELSE IF fails
           THEN /\ SetPlan(x, f, [p EXCEPT !.state = "failed", !.ino = NoIno])
                /\ UNCHANGED <<slot, partial, meta, reported>>
           ELSE /\ slot' = [slot EXCEPT ![n] = [kind |-> "file", ino |-> partial[n]]]
                /\ remove({n})
                /\ reported' = [reported EXCEPT ![n] = NoReport]
                /\ SetPlan(x, f, [p EXCEPT !.state = "placed"])
        /\ UNCHANGED <<up, ino, durable, src, listed>>

SyncedNone(x) == {}   \* mutant: the folders are not synced

\* syncDirs, which passes over a folder it cannot open.
SyncedNames(x) == {plan(x, f).rel : f \in {g \in Files : plan(x, g).state = "placed"}} \ Unsyncable

\* The end of flush: OnFileDone for every file that was placed.
flushDone(x) ==
    LET placed == {f \in Files : plan(x, f).state = "placed"}
        failed == \E f \in Files : plan(x, f).state = "failed"
    IN  /\ up
        /\ rx[x].pc = "place" /\ Pending(x) = {}
        /\ durable' = [n \in Names |-> IF n \in SyncedNames(x) THEN slot[n] ELSE durable[n]]
        /\ reported' = [n \in Names |->
                          IF \E f \in placed : plan(x, f).rel = n /\ slot[n].ino = plan(x, f).ino
                          THEN ino[slot[n].ino].data ELSE reported[n]]
        /\ rx' = [rx EXCEPT ![x] =
                     IF failed \/ rx[x].then = "off" THEN NoSession
                     ELSE [@ EXCEPT !.pc = rx[x].then,
                                    !.plan = [f \in Files |-> IF f \in placed
                                                              THEN [plan(x, f) EXCEPT !.state = "saved", !.ino = NoIno]
                                                              ELSE plan(x, f)]]]
        /\ UNCHANGED <<up, ino, slot, partial, meta, src, listed>>

\* finishRecv: the receiver acks, and the sender hears it or not.
finishRecv(x) ==
    /\ rx[x].pc = "finish"
    /\ \E heard \in BOOLEAN : rx' = [rx EXCEPT ![x] = IF heard THEN [@ EXCEPT !.pc = "off", !.acked = TRUE] ELSE NoSession]
    /\ UNCHANGED <<folder, src, listed, reported>>

-----------------------------------------------------------------------------
\* The sources change under the sender; every version has its own mtime.
EditSource(x, f, d) ==
    /\ "edit" \in Faults
    /\ mtime(x, f) < MaxTime
    /\ src' = [src EXCEPT ![x][f] = [versions |-> Append(@.versions, d), readable |-> TRUE]]
    /\ UNCHANGED <<folder, listed, rx, reported>>

\* A source file is taken away, or is back.
HideSource(x, f) ==
    /\ "hide" \in Faults
    /\ src' = [src EXCEPT ![x][f].readable = ~@]
    /\ UNCHANGED <<folder, listed, rx, reported>>

\* The user saves a file of their own into the folder. Bound: inodes.
UserWrite(n, d) ==
    /\ "user" \in Faults
    /\ up
    /\ Cardinality(Free) > 1
    /\ slot[n].kind \in {"absent", "file"}
    /\ ino' = [ino EXCEPT ![Fresh] = [EmptyINode EXCEPT !.data = d, !.synced = Len(d)]]
    /\ slot' = [slot EXCEPT ![n] = [kind |-> "file", ino |-> Fresh]]
    /\ durable' = [durable EXCEPT ![n] = [kind |-> "file", ino |-> Fresh]]
    /\ reported' = [reported EXCEPT ![n] = NoReport]
    /\ UNCHANGED <<up, partial, meta, src, listed, rx>>

\* The receiver's process dies.
Kill(x) ==
    /\ "kill" \in Faults
    /\ rx[x].pc # "off"
    /\ rx' = [rx EXCEPT ![x] = NoSession]
    /\ UNCHANGED <<folder, src, listed, reported>>

PowerLoss ==
    /\ "power" \in Faults
    /\ up
    /\ up' = FALSE
    /\ rx' = [x \in Transfers |-> IF rx[x].pc # "off" THEN NoSession ELSE rx[x]]
    /\ UNCHANGED <<ino, names, src, listed, reported>>

-----------------------------------------------------------------------------
\* A folder with nothing under .fsend, and whatever the user keeps in it.
Init ==
    /\ up = TRUE
    /\ slot \in [Names -> {Absent} \cup [kind : {"link", "emptyDir", "fullDir"}, ino : {NoIno}]
                            \cup [kind : {"file"}, ino : IF UserData = {} THEN {} ELSE Inodes]]
    /\ \A n, m \in Names : n # m /\ IsFile(n) => slot[n] # slot[m]
    /\ \A n \in Names : IsFile(n) => slot[n].ino = n
    /\ durable = slot
    /\ \E d \in [{n \in Names : IsFile(n)} -> UserData] :
          ino = [i \in Inodes |-> IF i \in DOMAIN d
                                  THEN [EmptyINode EXCEPT !.data = d[i], !.synced = Len(d[i])] ELSE EmptyINode]
    /\ partial = [n \in Names |-> NoIno]
    /\ meta = [n \in Names |-> NoMeta]
    /\ src \in [Transfers -> [Files -> [versions : {<<d>> : d \in SourceData}, readable : {TRUE}]]]
    /\ listed = [x \in Transfers |-> [f \in Files |-> [size |-> 0, mtime |-> 0]]]
    /\ rx = [x \in Transfers |-> NoSession]
    /\ reported = [n \in Names |-> NoReport]

receive(x) ==
    \/ \E old \in SUBSET Names : sweep(x, old)
    \/ \E lost \in SUBSET Files : classify(x, lost)
    \/ resolveVerify(x)
    \/ \E policy \in {"keep", "replace", "rename"} : decide(x, policy)
    \/ decline(x)
    \/ \E f \in Files : materialize(x, f)
    \/ openData(x)
    \/ periodicSync(x)
    \/ finalize(x)
    \/ \E full \in BOOLEAN : writeFails(x, full)
    \/ flush(x)
    \/ syncBatch(x)
    \/ syncFails(x)
    \/ place(x)
    \/ flushDone(x)
    \/ finishRecv(x)

send(x) ==
    \/ Walk(x)
    \/ \E f \in Files : hashPrefix(x, f) \/ openResumed(x, f) \/ openNew(x, f) \/ skipFile(x, f)
    \/ sendBlock(x)
    \/ dropFile(x)

Environment ==
    \/ \E x \in Transfers, f \in Files : HideSource(x, f) \/ \E d \in SourceData : EditSource(x, f, d)
    \/ \E n \in Names, d \in UserData : UserWrite(n, d)
    \/ \E x \in Transfers : break(x) \/ Kill(x)
    \/ PowerLoss
    \/ (Decay \/ Boot) /\ UNCHANGED <<src, listed, rx, reported>>

Next == (\E x \in Transfers : receive(x) \/ send(x)) \/ Environment

Spec == Init /\ [][Next]_vars

\* Both processes run, and a connection delivers or breaks.
FairSpec == Spec /\ \A x \in Transfers : WF_vars(receive(x) \/ send(x))
-----------------------------------------------------------------------------
(***************************************************************************)
(* Properties                                                              *)
(***************************************************************************)
Placed(n) == IsFile(n) /\ ino[slot[n].ino].verified

\* A file that place renamed onto its name holds the bytes whose root hash
\* finalize compared with the sender's: no torn, truncated or stale prefix of
\* a partial gets a user's name, and a power loss does not damage it there,
\* whatever of it had been flushed.
VerifiedContent == \A n \in Names : Placed(n) => ino[slot[n].ino].data = ino[slot[n].ino].root

\* What OnFileDone reported is under its name with its content from then on,
\* across power losses, until the user or a later transfer replaces it; and
\* the sender hears TRANSFER_ACK only when every file the receiver asked for
\* is saved like that, folder sync included, or was skipped by one of the two.
DoneSurvives ==
    /\ \A n \in Names : reported[n] # NoReport => IsFile(n) /\ ino[slot[n].ino].data = reported[n]
    /\ \A x \in Transfers, f \in Files :
          rx[x].acked => plan(x, f).action = "skip" \/ plan(x, f).state \in {"saved", "skipped"}

\* A verified file that the sender did not flag as changed is byte for byte
\* the version its walk listed: edits between two reads, or between the hash
\* of a resumed prefix and the rest, never pass as a clean copy.
UnflaggedIsSnapshot ==
    \A x \in Transfers, f \in Files :
        plan(x, f).state \in {"pending", "placed"} /\ ~plan(x, f).changed
            => ino[plan(x, f).ino].root = src[x][f].versions[listed[x][f].mtime]

\* With --checksum, a file is skipped as identical only when its content was
\* a version of the source: not because the sender could not hash its own.
SkippedIsSame ==
    Checksum => \A x \in Transfers, f \in Files :
        rx[x].pc = "classified" /\ plan(x, f).disp = "identical" /\ plan(x, f).seen = slot[f]
            => \E v \in DOMAIN src[x][f].versions : ino[slot[f].ino].data = src[x][f].versions[v]

\* A session that started ends: no order of prefix hashing, unreadable or
\* shrinking sources, full batches and failing syncs leaves it waiting.
SessionEnds == \A x \in Transfers : rx[x].pc # "off" ~> rx[x].pc = "off"

\* The steps that take a file of the user (not placed by fsend) off its name n.
Replaces(n) == up /\ slot[n] # Absent /\ ~Placed(n) /\ slot'[n] # slot[n] /\ Placed(n)'
Consented(x, f, n) == plan(x, f).rel = n /\ NeedsConsent(plan(x, f)) /\ plan(x, f).action = "send"

\* What the receiver found under a name when it classified the listing is
\* replaced only after the user chose to replace it; a partial of the same
\* name, left by an earlier run, is no excuse.
ConsentKept ==
    [][\A n \in Names, x \in Transfers, f \in Files :
          Replaces(n) /\ plan(x, f).state = "pending" /\ plan(x, f)'.state = "placed"
                /\ plan(x, f).rel = n /\ plan(x, f).seen = slot[n]
             => Consented(x, f, n)]_vars

\* What the user finds behind an entry of the folder.
Shown(s) ==
    LET f == ino[s.ino]
    IN  IF s.kind # "file" THEN [by |-> s.kind, data |-> <<>>]
        ELSE [by |-> IF ~f.verified THEN "user" ELSE IF f.data = f.root THEN "fsend" ELSE "torn", data |-> f.data]

Promise == INSTANCE Delivery WITH
    content <- [n \in Names |-> Shown(slot[n])],
    before <- [n \in Names |-> Shown(durable[n])],
    done <- [n \in Names |-> reported[n] # NoReport]

\* The engine implements the promise of Delivery: the blocks, partials, hashes
\* and syncs of a receive, its crashes and its power losses look to the user
\* like whole files that appear at once and stay once they are reported.
DeliveryPromise == Promise!Spec
=============================================================================
