---------------------------- MODULE TransferProofs ----------------------------
(***************************************************************************)
(* The invariants of the transfer engine and the folder it receives into,  *)
(* for any number of files, blocks, batches and faults, when one transfer  *)
(* at a time uses the folder; and the proof that it implements Delivery.   *)
(* TInv is inductive: which inodes the names, the partials and the open    *)
(* files lead to, what of them is on the device, and what the sender has   *)
(* read of which version of its source.                                    *)
(***************************************************************************)
EXTENDS Transfer, FiniteSetTheorems, WellFoundedInduction, SequenceTheorems, TLAPS

\* One transfer uses the folder.
Alone == \A x, y \in Transfers : x = y

\* No inode has two names, and a partial none; only files have one.
NameShape ==
    /\ \A n \in Names : /\ slot[n].kind # "file" => slot[n].ino = NoIno
                        /\ durable[n].kind = "file" => durable[n].ino \in Inodes
                        /\ durable[n].kind # "file" => durable[n].ino = NoIno
                        /\ partial[n] # NoIno => partial[n] \notin {slot[m].ino : m \in Names} \cup {durable[m].ino : m \in Names}
    /\ \A n, m \in Names :
          n # m => /\ slot[n].ino # NoIno => slot[n].ino # slot[m].ino /\ slot[n].ino # durable[m].ino
                   /\ durable[n].ino # NoIno => durable[n].ino # durable[m].ino
                   /\ partial[n] # NoIno => partial[n] # partial[m]

\* A file under a name is on the device, and what fsend put there is what it
\* had verified.
DeviceShape ==
    \A n \in Names : \A s \in {slot[n], durable[n]} :
        s.kind = "file" => /\ ino[s.ino].synced = Len(ino[s.ino].data)
                           /\ ino[s.ino].verified => ino[s.ino].data = ino[s.ino].root

\* A reported file is there, whole and for good, if its folder could be synced.
ReportShape ==
    Unsyncable = {} =>
        \A n \in Names : reported[n] # NoReport =>
            /\ IsFile(n) /\ slot[n] = durable[n]
            /\ ino[slot[n].ino].verified /\ ino[slot[n].ino].data = reported[n]

Early == {"off", "swept", "classified"}
Wanted == {"send", "resume"}
Going(x) == \/ rx[x].pc \in {"classified", "data"}
            \/ rx[x].pc \in {"sync", "place"} /\ rx[x].then # "off"

\* A session is over when the machine is down or its sender was told so, and
\* every file was in before the last flush. A file is opened once the empty
\* ones are there, and its partial holds what was hashed, on both sides.
SessionOK(x) ==
    /\ ~up => rx[x].pc = "off"
    /\ rx[x].acked => rx[x].pc = "off"
    /\ cur(x).file = NoFile => cur(x) = NoOpenFile
    /\ cur(x).file # NoFile => Empties(x) = {}
    /\ rx[x].pc \in {"sync", "place"} /\ rx[x].then = "finish" => Asked(x) = {}
    /\ cur(x).sent = cur(x).got
    /\ cur(x).ino = NoIno => cur(x).got = <<>>
    /\ cur(x).file # NoFile /\ cur(x).ino # NoIno =>
          cur(x).ino = partial[plan(x, cur(x).file).rel] /\ ino[cur(x).ino].data = cur(x).got

\* What the plan of a file is at each step of its session.
PlanOK(x, f) ==
    LET p == plan(x, f)
    IN  /\ p.rel \in {f, FreeName(f)}
        /\ rx[x].pc \in {"swept", "classified"} => p.state = "todo" /\ p.action = "none"
        /\ rx[x].pc \notin Early => p.action # "none"
        /\ p.state = "pending" => rx[x].pc \in {"data", "sync", "place"} /\ p.action \in Wanted
        /\ p.state \in {"placed", "failed"} => rx[x].pc = "place"
        /\ rx[x].acked \/ rx[x].pc = "finish" => p.action = "skip" \/ p.state \in {"saved", "skipped"}
        /\ cur(x).file = f => p.state = "todo" /\ p.action \in Wanted

\* Only what was not there is received without consent.
ConsentOK(x, f) ==
    LET p == plan(x, f)
    IN  p.state \in {"todo", "pending"} =>
            /\ p.disp \in {"new", "resume"} => p.seen = Absent
            /\ p.action = "send" => p.disp = "new" \/ NeedsConsent(p)
            /\ p.action = "resume" => p.disp \in {"new", "resume"}
            /\ Going(x) /\ p.action = "resume" /\ p.state = "todo" /\ cur(x).file # f => p.disp = "resume"

\* A verified file waits in its partial or is under its name.
BatchOK(x, f) ==
    LET p == plan(x, f)
    IN  /\ p.state = "pending" =>
              /\ p.ino \in Inodes /\ partial[p.rel] = p.ino
              /\ ino[p.ino].verified /\ ino[p.ino].data = ino[p.ino].root
              /\ rx[x].pc = "place" => ino[p.ino].synced = Len(ino[p.ino].data)
        /\ p.state = "placed" =>
              /\ p.ino \in Inodes /\ \A n \in Names : partial[n] # p.ino
              /\ ino[p.ino].verified
              /\ IsFile(p.rel) /\ (slot[p.rel].ino = p.ino \/ ~ino[slot[p.rel].ino].verified)

\* A prefix that was hashed is still the beginning of its partial.
PrefixOK(x, f) ==
    LET p == plan(x, f)
    IN  Going(x) /\ p.disp = "resume" /\ p.state = "todo" /\ cur(x).file # f /\ partial[p.rel] # NoIno =>
            p.off <= Size(partial[p.rel]) /\ p.prefix = SubSeq(ino[partial[p.rel]].data, 1, p.off)

\* While the source is the version the walk listed, what was read is of it.
SourceOK(x, f) ==
    LET p == plan(x, f)
        v == src[x][f].versions
        e == listed[x][f]
    IN  /\ e.mtime <= Len(v)
        /\ e.mtime > 0 => e.size = Len(v[e.mtime])
        /\ rx[x].pc # "off" => e.mtime > 0
        /\ rx[x].pc # "off" /\ e.mtime = Len(v) =>
              /\ p.own = "hashed" => p.off <= e.size /\ p.ownPrefix = SubSeq(v[e.mtime], 1, p.off)
              /\ cur(x).file = f => Len(cur(x).sent) <= e.size /\ cur(x).sent = SubSeq(v[e.mtime], 1, Len(cur(x).sent))

\* UnflaggedIsSnapshot and SkippedIsSame, of one file.
SnapshotOK(x, f) ==
    plan(x, f).state \in {"pending", "placed"} /\ ~plan(x, f).changed
        => ino[plan(x, f).ino].root = src[x][f].versions[listed[x][f].mtime]
SameOK(x, f) ==
    Checksum /\ rx[x].pc = "classified" /\ plan(x, f).disp = "identical" /\ plan(x, f).seen = slot[f]
        => IsFile(f) /\ \E v \in DOMAIN src[x][f].versions : ino[slot[f].ino].data = src[x][f].versions[v]

FileOK(x, f) ==
    /\ PlanOK(x, f) /\ ConsentOK(x, f) /\ BatchOK(x, f) /\ PrefixOK(x, f)
    /\ SourceOK(x, f) /\ SnapshotOK(x, f) /\ SameOK(x, f)

FolderShape == NameShape /\ DeviceShape /\ ReportShape
SessionShape == \A x \in Transfers : SessionOK(x) /\ \A f \in Files : FileOK(x, f)

TInv == Alone /\ TransferTypeOK /\ FolderShape /\ SessionShape

-----------------------------------------------------------------------------
Block == Blocks \cup {Junk}

\* Contents are the short sequences of blocks.
LEMMA DataIsSeq ==
  /\ \A d : d \in Data <=> d \in Seq(Block) /\ Len(d) <= MaxSize
  /\ \A d \in Data : Len(d) \in 0..MaxSize /\ d \in Seq(Block)
  /\ <<>> \in Data
<1>1. Data = UNION {[1..m -> Block] : m \in 0..MaxSize}
  BY DEF Data, BoundedSeq, SeqOf, Block
<1>2. ASSUME NEW d \in Data PROVE d \in Seq(Block) /\ Len(d) \in 0..MaxSize
  <2>1. PICK m \in 0..MaxSize : d \in [1..m -> Block]
    BY <1>1
  <2>2. m \in Nat /\ Len(d) = m
    BY <2>1, FolderAssumption
  <2>3. d \in Seq(Block)
    BY <2>1, <2>2, SeqDef
  <2> QED BY <2>1, <2>2, <2>3
<1>3. ASSUME NEW d \in Seq(Block), Len(d) <= MaxSize PROVE d \in Data
  <2>1. d \in [1..Len(d) -> Block] /\ Len(d) \in Nat
    BY LenProperties
  <2>2. Len(d) \in 0..MaxSize
    BY <1>3, <2>1, FolderAssumption
  <2> QED BY <1>1, <2>1, <2>2
<1>4. <<>> \in Seq(Block) /\ Len(<<>>) <= MaxSize
  BY EmptySeq, FolderAssumption
<1>5. \A d \in Data : d \in Seq(Block) /\ Len(d) \in 0..MaxSize /\ Len(d) <= MaxSize
  BY <1>2, FolderAssumption
<1>6. \A d \in Seq(Block) : Len(d) <= MaxSize => d \in Data
  BY <1>3
<1> QED BY <1>4, <1>5, <1>6

\* The beginning of a content is a content.
LEMMA PrefixIsData ==
  ASSUME NEW d \in Data, NEW k \in Nat, k <= Len(d)
  PROVE  /\ SubSeq(d, 1, k) \in Data /\ Len(SubSeq(d, 1, k)) = k
         /\ \A j \in 1..k : SubSeq(d, 1, k)[j] = d[j]
<1>1. d \in Seq(Block) /\ Len(d) \in 0..MaxSize
  BY DataIsSeq
<1>2. \A j \in 1..k : d[j] \in Block
  BY <1>1, ElementOfSeq
<1>3. /\ SubSeq(d, 1, k) \in Seq(Block) /\ Len(SubSeq(d, 1, k)) = (IF 1 <= k THEN k - 1 + 1 ELSE 0)
      /\ \A j \in 1..k - 1 + 1 : SubSeq(d, 1, k)[j] = d[1 + j - 1]
  BY <1>2, SubSeqProperties
<1>4. Len(SubSeq(d, 1, k)) = k
  BY <1>3
<1>5. \A j \in 1..k : SubSeq(d, 1, k)[j] = d[j]
  BY <1>3
<1>6. Len(SubSeq(d, 1, k)) <= MaxSize
  BY <1>1, <1>4, FolderAssumption
<1>7. SubSeq(d, 1, k) \in Data
  BY <1>3, <1>6, DataIsSeq
<1> QED BY <1>4, <1>5, <1>7

\* The beginning of the beginning is a beginning.
LEMMA PrefixOfPrefix ==
  ASSUME NEW d \in Data, NEW b, NEW k \in Nat, k < Len(d), b = d[k + 1]
  PROVE  Append(SubSeq(d, 1, k), b) = SubSeq(d, 1, k + 1)
<1>1. d \in Seq(Block) /\ Len(d) \in 0..MaxSize /\ b \in Block
  BY DataIsSeq, ElementOfSeq
<1>2. k + 1 \in Nat /\ k + 1 <= Len(d) /\ k <= Len(d)
  BY <1>1
<1> DEFINE s == SubSeq(d, 1, k)
           t == SubSeq(d, 1, k + 1)
<1>3. s \in Seq(Block) /\ Len(s) = k /\ \A j \in 1..k : s[j] = d[j]
  BY <1>2, PrefixIsData, DataIsSeq
<1>4. t \in Seq(Block) /\ Len(t) = k + 1 /\ \A j \in 1..k + 1 : t[j] = d[j]
  BY <1>2, PrefixIsData, DataIsSeq
<1> HIDE DEF s, t
<1>5. Append(s, b) \in Seq(Block) /\ Len(Append(s, b)) = k + 1
      /\ \A j \in 1..k + 1 : Append(s, b)[j] = t[j]
  BY <1>1, <1>3, <1>4
<1>6. Append(s, b) = t
  BY <1>4, <1>5, SeqEqual
<1> QED BY <1>6 DEF s, t

\* A beginning of all of it is it.
LEMMA WholePrefix ==
  ASSUME NEW d \in Data, NEW s, s = SubSeq(d, 1, Len(d))
  PROVE  s = d
  BY DataIsSeq, SubSeqFull

\* Truncate cuts a content at the offset.
LEMMA TruncatedRecord ==
  ASSUME NEW f \in INode, NEW k \in Nat, k <= Len(f.data), f.synced <= Len(f.data)
  PROVE  /\ Truncated(f, k) \in INode /\ Truncated(f, k).data = SubSeq(f.data, 1, k)
         /\ Truncated(f, k).synced <= Len(Truncated(f, k).data)
<1> DEFINE d == [j \in 1..k |-> IF j <= Len(f.data) THEN f.data[j] ELSE Junk]
           s == SubSeq(f.data, 1, k)
<1>1. f.data \in Data /\ f.data \in Seq(Block) /\ Len(f.data) \in 0..MaxSize /\ f.synced \in 0..MaxSize
  BY DataIsSeq DEF INode
<1>2. s \in Seq(Block) /\ s \in Data /\ Len(s) = k /\ \A j \in 1..k : s[j] = f.data[j]
  BY <1>1, PrefixIsData, DataIsSeq
<1>3. d \in [1..k -> Block] /\ \A j \in 1..k : d[j] = f.data[j]
  BY <1>1, ElementOfSeq
<1>4. d \in Seq(Block) /\ Len(d) = k
  BY <1>3, SeqDef
<1> HIDE DEF d, s
<1>5. d = s
  BY <1>2, <1>3, <1>4, SeqEqual
<1>6. Truncated(f, k) = [f EXCEPT !.data = d, !.synced = Least(f.synced, k)]
  BY DEF Truncated, d
<1>7. Least(f.synced, k) \in 0..MaxSize /\ Least(f.synced, k) <= k
  BY <1>1, FolderAssumption DEF Least
<1> QED BY <1>2, <1>5, <1>6, <1>7, FolderAssumption DEF INode, s

\* A block written at the end is appended.
LEMMA WrittenRecord ==
  ASSUME NEW f \in INode, NEW b \in Block, Len(f.data) < MaxSize, f.synced <= Len(f.data)
  PROVE  /\ Written(f, Len(f.data), b) \in INode /\ Written(f, Len(f.data), b).data = Append(f.data, b)
         /\ Written(f, Len(f.data), b).synced <= Len(Written(f, Len(f.data), b).data)
<1> DEFINE k == Len(f.data)
           d == [j \in 1..k + 1 |-> IF j = k + 1 THEN b ELSE IF j <= k THEN f.data[j] ELSE Junk]
           s == Append(f.data, b)
<1>1. f.data \in Data /\ f.data \in Seq(Block) /\ k \in 0..MaxSize /\ f.synced \in 0..MaxSize /\ k \in Nat
  BY DataIsSeq DEF INode
<1>2. s \in Seq(Block) /\ Len(s) = k + 1 /\ \A j \in 1..k + 1 : s[j] = IF j = k + 1 THEN b ELSE f.data[j]
  BY <1>1
<1>3. d \in [1..k + 1 -> Block] /\ \A j \in 1..k + 1 : d[j] = IF j = k + 1 THEN b ELSE f.data[j]
  <2>1. \A j \in 1..k : f.data[j] \in Block
    BY <1>1, ElementOfSeq
  <2> QED BY <1>1, <2>1
<1>4. d \in Seq(Block) /\ Len(d) = k + 1
  <2>1. k + 1 \in Nat
    BY <1>1
  <2> HIDE DEF d, k
  <2> QED BY <1>3, <2>1, SeqDef
<1>6. Written(f, k, b) = [f EXCEPT !.data = d, !.synced = Least(f.synced, k)]
  <2>1. ~(k < k)
    BY <1>1
  <2> QED BY <2>1 DEF Written
<1> HIDE DEF d, s, k
<1>5. d = s
  BY <1>2, <1>3, <1>4, SeqEqual
<1>7. Least(f.synced, k) \in 0..MaxSize /\ Least(f.synced, k) <= k
  BY <1>1 DEF Least, k
<1>8. s \in Data
  <2>1. Len(s) <= MaxSize
    BY <1>1, <1>2, FolderAssumption DEF k
  <2> QED BY <1>2, <2>1, DataIsSeq
<1>9. Written(f, k, b) \in INode /\ Written(f, k, b).data = s /\ Written(f, k, b).synced <= Len(s)
  <2>1. Least(f.synced, k) <= Len(s)
    BY <1>1, <1>2, <1>7, FolderAssumption
  <2> QED BY <1>5, <1>6, <1>7, <1>8, <2>1 DEF INode
<1> QED BY <1>9 DEF k, s

-----------------------------------------------------------------------------
\* A session that has not begun, and the plan of a file it knows nothing of.
LEMMA FreshRecords ==
  /\ Absent \in Slot /\ NoOpenFile \in OpenFile /\ EmptyINode \in INode
  /\ \A f \in Files : NewPlan(f) \in Plan
  /\ NoSession \in Session
<1>1. <<>> \in Data /\ 0 \in 0..MaxSize /\ 0 \in 0..MaxTime /\ \A f \in Files : f \in Names
  BY DataIsSeq, FolderAssumption, TransferAssumption
<1>2. Absent \in Slot /\ NoOpenFile \in OpenFile /\ EmptyINode \in INode
  BY <1>1 DEF Absent, Slot, NoOpenFile, OpenFile, EmptyINode, INode
<1>3. \A f \in Files : NewPlan(f) \in Plan
  BY <1>1, <1>2 DEF NewPlan, Plan, Dispositions
<1>4. [f \in Files |-> NewPlan(f)] \in [Files -> Plan]
  BY <1>3
<1> QED BY <1>2, <1>3, <1>4 DEF NoSession, Session

\* What a session that has not begun holds.
LEMMA NoSessionFields ==
  /\ NoSession.pc = "off" /\ NoSession.then = "off" /\ NoSession.cur = NoOpenFile /\ ~NoSession.acked
  /\ NoOpenFile.file = NoFile /\ NoOpenFile.ino = NoIno /\ NoOpenFile.sent = <<>> /\ NoOpenFile.got = <<>>
  /\ \A f \in Files : /\ NoSession.plan[f] = NewPlan(f)
                      /\ NewPlan(f).rel = f /\ NewPlan(f).disp = "new" /\ NewPlan(f).seen = Absent
                      /\ NewPlan(f).action = "none" /\ NewPlan(f).own = "none" /\ NewPlan(f).state = "todo"
                      /\ NewPlan(f).off = 0 /\ NewPlan(f).prefix = <<>> /\ ~NewPlan(f).changed
  BY DEF NoSession, NoOpenFile, NewPlan

\* What is left of a session that fails.
LEMMA FailedRecord ==
  ASSUME NEW s \in Session
  PROVE  /\ Failed(s) \in Session
         /\ (\A f \in Files : s.plan[f].state # "pending") => Failed(s) = NoSession
         /\ (\E f \in Files : s.plan[f].state = "pending") =>
              /\ Failed(s).pc = "sync" /\ Failed(s).then = "off" /\ Failed(s).cur = NoOpenFile
              /\ Failed(s).plan = s.plan /\ Failed(s).acked = s.acked
  BY FreshRecords DEF Failed, Session

\* What the type of a session says of its parts.
LEMMA SessionTypes ==
  ASSUME TInv, NEW x \in Transfers
  PROVE  /\ rx \in [Transfers -> Session] /\ rx[x] \in Session /\ cur(x) \in OpenFile /\ \A y \in Transfers : y = x
         /\ rx[x].plan \in [Files -> Plan]
         /\ \A f \in Files : plan(x, f) \in Plan /\ plan(x, f).rel \in Names /\ f \in Names /\ f # NoFile
         /\ SessionOK(x) /\ \A f \in Files : FileOK(x, f)
         /\ Alone /\ TransferTypeOK /\ FolderTypeOK /\ FolderShape
         /\ cur(x) # NoOpenFile => rx[x].pc = "data"
<1>1. rx \in [Transfers -> Session] /\ rx[x] \in Session /\ \A y \in Transfers : y = x
  BY DEF TInv, TransferTypeOK, Alone
<1>2. rx[x].plan \in [Files -> Plan] /\ cur(x) \in OpenFile
  BY <1>1 DEF Session, cur
<1>3. \A f \in Files : plan(x, f) \in Plan /\ plan(x, f).rel \in Names /\ f \in Names /\ f # NoFile
  BY <1>2, TransferAssumption DEF plan, Plan
<1>4. SessionOK(x) /\ \A f \in Files : FileOK(x, f)
  BY DEF TInv, SessionShape
<1> QED BY <1>1, <1>2, <1>3, <1>4 DEF TInv, TransferTypeOK, cur

\* The invariant, from its parts for the one transfer.
LEMMA Assembled ==
  ASSUME TInv, NEW x \in Transfers, FolderTypeOK', FolderShape', reported' \in [Names -> Data \cup {NoReport}],
         src' \in [Transfers -> [Files -> Source]], listed' \in [Transfers -> [Files -> Entry]],
         rx' \in [Transfers -> Session], cur(x)' # NoOpenFile => rx'[x].pc = "data",
         SessionOK(x)', \A f \in Files : FileOK(x, f)'
  PROVE  TInv'
<1>1. \A y \in Transfers : y = x
  BY SessionTypes
<1>2. SessionShape'
  BY <1>1 DEF SessionShape
<1>3. TransferTypeOK'
  BY <1>1 DEF TransferTypeOK, cur
<1> QED BY <1>2, <1>3 DEF TInv, Alone

\* The session of one transfer changes.
LEMMA SessionChanges ==
  ASSUME TInv, NEW x \in Transfers, NEW s \in Session, rx' = [rx EXCEPT ![x] = s]
  PROVE  /\ rx' \in [Transfers -> Session] /\ rx'[x] = s /\ cur(x)' = s.cur
         /\ \A f \in Files : plan(x, f)' = s.plan[f]
  BY DEF TInv, TransferTypeOK, cur, plan

\* The plan of one file and the open file change.
LEMMA PlanChanges ==
  ASSUME TInv, NEW x \in Transfers, NEW f \in Files, NEW p \in Plan, NEW c \in OpenFile,
         rx' = [rx EXCEPT ![x].cur = c, ![x].plan[f] = p]
  PROVE  /\ rx' \in [Transfers -> Session]
         /\ rx'[x].pc = rx[x].pc /\ rx'[x].then = rx[x].then /\ rx'[x].acked = rx[x].acked
         /\ cur(x)' = c /\ plan(x, f)' = p /\ \A g \in Files : g # f => plan(x, g)' = plan(x, g)
<1>0. rx \in [Transfers -> Session] /\ rx[x] \in Session
  BY SessionTypes
<1>2. PICK s : s = [rx[x] EXCEPT !.cur = c, !.plan = [rx[x].plan EXCEPT ![f] = p]]
  OBVIOUS
<1>3. s \in Session /\ s.pc = rx[x].pc /\ s.then = rx[x].then /\ s.cur = c /\ s.acked = rx[x].acked
      /\ s.plan = [rx[x].plan EXCEPT ![f] = p]
  BY <1>0, <1>2 DEF Session
<1>4. rx' = [rx EXCEPT ![x] = s]
  BY <1>0, <1>2 DEF Session
<1>a. s \in Session /\ s.cur = c
  BY <1>3
<1>5. rx' \in [Transfers -> Session] /\ rx'[x] = s /\ cur(x)' = s.cur /\ \A g \in Files : plan(x, g)' = s.plan[g]
  BY <1>a, <1>4 DEF TInv, TransferTypeOK, cur, plan
<1>6. rx[x].plan \in [Files -> Plan]
  BY <1>0 DEF Session
<1> QED BY <1>3, <1>a, <1>5, <1>6 DEF plan

\* The plan of one file changes.
LEMMA SetPlanChanges ==
  ASSUME TInv, NEW x \in Transfers, NEW f \in Files, NEW p \in Plan, SetPlan(x, f, p)
  PROVE  /\ rx' \in [Transfers -> Session]
         /\ rx'[x].pc = rx[x].pc /\ rx'[x].then = rx[x].then /\ rx'[x].acked = rx[x].acked
         /\ cur(x)' = cur(x) /\ plan(x, f)' = p /\ \A g \in Files : g # f => plan(x, g)' = plan(x, g)
<1>0. rx \in [Transfers -> Session] /\ rx[x] \in Session /\ cur(x) \in OpenFile /\ rx[x].cur = cur(x)
  BY SessionTypes DEF cur
<1>1. rx' = [rx EXCEPT ![x].cur = cur(x), ![x].plan[f] = p]
  BY <1>0 DEF SetPlan, Session
<1> QED BY <1>0, <1>1, PlanChanges

\* The open file changes.
LEMMA CurChanges ==
  ASSUME TInv, NEW x \in Transfers, NEW c \in OpenFile, rx' = [rx EXCEPT ![x].cur = c]
  PROVE  /\ rx' \in [Transfers -> Session]
         /\ rx'[x].pc = rx[x].pc /\ rx'[x].then = rx[x].then /\ rx'[x].acked = rx[x].acked
         /\ cur(x)' = c /\ \A g \in Files : plan(x, g)' = plan(x, g)
<1>0. rx \in [Transfers -> Session] /\ rx[x] \in Session
  BY SessionTypes
<1>2. PICK s : s = [rx[x] EXCEPT !.cur = c]
  OBVIOUS
<1>3. s \in Session /\ s.pc = rx[x].pc /\ s.then = rx[x].then /\ s.cur = c /\ s.acked = rx[x].acked /\ s.plan = rx[x].plan
  BY <1>0, <1>2 DEF Session
<1>4. rx' = [rx EXCEPT ![x] = s]
  BY <1>0, <1>2 DEF Session
<1> QED BY <1>3, <1>4, SessionChanges DEF plan

\* Two files of a listing are never received under one name.
LEMMA RelDistinct ==
  ASSUME TInv, NEW x \in Transfers, NEW f \in Files, NEW g \in Files, f # g
  PROVE  plan(x, f).rel # plan(x, g).rel
<1>1. Cardinality(Files) \in Nat /\ f \in 1..Cardinality(Files) /\ g \in 1..Cardinality(Files)
  BY TransferAssumption, FS_CardinalityType
<1>2. plan(x, f).rel \in {f, FreeName(f)} /\ plan(x, g).rel \in {g, FreeName(g)}
  BY DEF TInv, SessionShape, FileOK, PlanOK
<1> QED BY <1>1, <1>2 DEF FreeName

\* An inode that is free has no name and no handle.
LEMMA FreshUnused ==
  ASSUME Free # {}
  PROVE  /\ Fresh \in Inodes
         /\ \A n \in Names : slot[n].ino # Fresh /\ durable[n].ino # Fresh /\ partial[n] # Fresh
         /\ \A x \in Transfers : cur(x).ino # Fresh
         /\ \A x \in Transfers, f \in Files : plan(x, f).ino # Fresh /\ plan(x, f).seen.ino # Fresh
<1>1. Fresh \in Free
  BY DEF Fresh
<1>2. Fresh \in Inodes /\ Fresh \notin Linked /\ Fresh \notin Open /\ Fresh \notin Seen
  BY <1>1 DEF Free
<1>3. \A x \in Transfers, f \in Files : cur(x).ino # Fresh /\ plan(x, f).ino # Fresh
  BY <1>2 DEF Open
<1>4. \A x \in Transfers : cur(x).ino # Fresh
  BY <1>2 DEF Open
<1> QED BY <1>2, <1>3, <1>4 DEF Linked, Seen

\* The inode that create opens for a name is of no other file.
LEMMA PartialInodeUnused ==
  ASSUME TInv, NEW n \in Names, CanCreate(n), NEW i, i = PartialInode(n)
  PROVE  /\ i \in Inodes /\ i # NoIno
         /\ \A m \in Names : slot[m].ino # i /\ durable[m].ino # i /\ (m # n => partial[m] # i)
<1>0. partial \in [Names -> Inodes \cup {NoIno}]
  BY DEF TInv, TransferTypeOK, FolderTypeOK
<1>1. CASE partial[n] # NoIno
  <2>1. i = partial[n]
    BY <1>1 DEF PartialInode
  <2> QED BY <1>0, <1>1, <2>1 DEF TInv, FolderShape, NameShape
<1>2. CASE partial[n] = NoIno
  <2>1. i = Fresh /\ Free # {}
    BY <1>2 DEF PartialInode, CanCreate
  <2> QED BY <2>1, FreshUnused, FolderAssumption
<1> QED BY <1>1, <1>2

-----------------------------------------------------------------------------
\* The folder is as it was, but for partials that are gone.
LEMMA FolderSame ==
  ASSUME FolderShape, UNCHANGED <<ino, slot, durable, reported>>, \A n \in Names : partial'[n] \in {partial[n], NoIno}
  PROVE  FolderShape'
<1>1. NameShape'
  BY DEF FolderShape, NameShape
<1> QED BY <1>1 DEF FolderShape, DeviceShape, ReportShape, IsFile

\* An inode without a name changes, or is made a partial.
LEMMA FolderWrites ==
  ASSUME FolderShape, FolderTypeOK, NEW i \in Inodes, UNCHANGED <<slot, durable, reported>>,
         \A j \in Inodes : j # i => ino'[j] = ino[j],
         \A n \in Names : slot[n].ino # i /\ durable[n].ino # i,
         \A n \in Names : partial'[n] = partial[n] \/ partial'[n] = i,
         \A n, m \in Names : n # m /\ partial'[n] = i => partial'[m] # i
  PROVE  FolderShape'
<1>1. NameShape'
  BY DEF FolderShape, NameShape
<1>2. \A n \in Names : /\ slot[n].kind = "file" => slot[n].ino \in Inodes /\ ino'[slot[n].ino] = ino[slot[n].ino]
                       /\ durable[n].kind = "file" => durable[n].ino \in Inodes /\ ino'[durable[n].ino] = ino[durable[n].ino]
  BY DEF FolderShape, NameShape, FolderTypeOK
<1>3. DeviceShape'
  BY <1>2 DEF FolderShape, DeviceShape
<1>4. ReportShape'
  BY <1>2 DEF FolderShape, ReportShape, IsFile
<1> QED BY <1>1, <1>3, <1>4 DEF FolderShape

\* Files are synced or get another modification time; a boot makes the names durable.
LEMMA FolderTouched ==
  ASSUME FolderShape, FolderTypeOK, UNCHANGED <<slot, partial, reported>>, durable' = slot \/ durable' = durable,
         \A i \in Inodes : /\ ino'[i].data = ino[i].data /\ ino'[i].verified = ino[i].verified /\ ino'[i].root = ino[i].root
                           /\ ino'[i].synced = ino[i].synced \/ ino'[i].synced = Len(ino[i].data)
  PROVE  FolderShape'
<1>1. NameShape'
  BY DEF FolderShape, NameShape, FolderTypeOK
<1>2. \A n \in Names : /\ slot[n].kind = "file" => slot[n].ino \in Inodes
                       /\ durable[n].kind = "file" => durable[n].ino \in Inodes
  BY DEF FolderShape, NameShape, FolderTypeOK
<1>3. DeviceShape'
  BY <1>2 DEF FolderShape, DeviceShape
<1>4. ReportShape'
  BY <1>2 DEF FolderShape, ReportShape, IsFile
<1> QED BY <1>1, <1>3, <1>4 DEF FolderShape

\* What the type of a source says of its versions.
LEMMA SourceTypes ==
  ASSUME TransferTypeOK, NEW x \in Transfers, NEW f \in Files
  PROVE  /\ src[x][f] \in Source /\ src[x][f].versions \in Seq(SourceData)
         /\ Len(src[x][f].versions) \in Nat \ {0} /\ Len(src[x][f].versions) <= MaxTime
         /\ \A v \in 1..Len(src[x][f].versions) : src[x][f].versions[v] \in Data
         /\ data(x, f) \in Data /\ mtime(x, f) = Len(src[x][f].versions)
         /\ data(x, f) = src[x][f].versions[Len(src[x][f].versions)]
         /\ listed[x][f] \in Entry
<1>1. src[x][f] \in Source /\ listed[x][f] \in Entry
  BY DEF TransferTypeOK
<1> DEFINE v == src[x][f].versions
<1>2. v \in UNION {[1..m -> SourceData] : m \in 0..MaxTime} /\ v # <<>>
  BY <1>1 DEF Source, BoundedSeq, SeqOf
<1>3. PICK m \in 0..MaxTime : v \in [1..m -> SourceData]
  BY <1>2
<1>4. m \in Nat /\ Len(v) = m
  BY <1>3, FolderAssumption
<1>5. v \in Seq(SourceData)
  BY <1>3, <1>4, SeqDef
<1>6. Len(v) \in Nat \ {0} /\ Len(v) <= MaxTime
  BY <1>2, <1>3, <1>4, <1>5, EmptySeq, FolderAssumption
<1>7. \A k \in 1..Len(v) : v[k] \in Data
  BY <1>5, ElementOfSeq, TransferAssumption
<1> QED BY <1>1, <1>5, <1>6, <1>7 DEF data, mtime, Last

\* A step that leaves the folder alone.
LEMMA FolderKept ==
  ASSUME TInv, UNCHANGED <<folder, reported>>
  PROVE  FolderShape' /\ FolderTypeOK' /\ reported' \in [Names -> Data \cup {NoReport}]
<1>1. UNCHANGED <<up, ino, slot, durable, partial, meta, reported>>
  BY DEF folder, names
<1>2. \A n \in Names : partial'[n] \in {partial[n], NoIno}
  BY <1>1
<1> QED BY <1>1, <1>2, FolderSame DEF TInv, TransferTypeOK, FolderTypeOK


\* Sessions that are over leave nothing to keep.
LEMMA SessionsOver ==
  ASSUME TInv, NEW x \in Transfers, rx'[x] = NoSession, UNCHANGED <<src, listed>>
  PROVE  SessionOK(x)' /\ \A f \in Files : FileOK(x, f)'
<1>1. /\ cur(x)' = NoOpenFile /\ \A f \in Files : plan(x, f)' = NewPlan(f)
      /\ rx'[x].pc = "off" /\ rx'[x].then = "off" /\ ~rx'[x].acked
  BY NoSessionFields DEF cur, plan
<1>2. SessionOK(x)'
  BY <1>1, NoSessionFields DEF SessionOK
<1>3. SUFFICES ASSUME NEW f \in Files PROVE FileOK(x, f)'
  BY <1>2
<1>4. FileOK(x, f) /\ f # NoFile
  BY SessionTypes
<1>5. PlanOK(x, f)' /\ ConsentOK(x, f)'
  BY <1>1, <1>4, NoSessionFields DEF PlanOK, ConsentOK, Early, Wanted, Going, NeedsConsent
<1>6. BatchOK(x, f)' /\ PrefixOK(x, f)'
  BY <1>1, NoSessionFields DEF BatchOK, PrefixOK
<1>7. SourceOK(x, f)' /\ SnapshotOK(x, f)' /\ SameOK(x, f)'
  BY <1>1, <1>4, NoSessionFields DEF FileOK, SourceOK, SnapshotOK, SameOK
<1> QED BY <1>5, <1>6, <1>7 DEF FileOK

\* A session ends.
LEMMA SessionEndsInv ==
  ASSUME TInv, NEW x \in Transfers, rx' = [rx EXCEPT ![x] = NoSession], UNCHANGED <<folder, src, listed, reported>>
  PROVE  TInv'
<1>0. NoSession \in Session /\ NoSession.cur = NoOpenFile
  BY FreshRecords, NoSessionFields
<1>1. rx' \in [Transfers -> Session] /\ rx'[x] = NoSession /\ cur(x)' = NoOpenFile
  BY <1>0 DEF TInv, TransferTypeOK, cur, plan
<1>2. SessionOK(x)' /\ \A f \in Files : FileOK(x, f)'
  BY <1>1, SessionsOver
<1>3. src' \in [Transfers -> [Files -> Source]] /\ listed' \in [Transfers -> [Files -> Entry]]
  BY DEF TInv, TransferTypeOK
<1> QED BY <1>1, <1>2, <1>3, FolderKept, Assembled

\* The receiver declines, cannot sync, or dies.
LEMMA DeclineInv ==
  ASSUME TInv, NEW x \in Transfers, decline(x) \/ syncFails(x) \/ Kill(x)
  PROVE  TInv'
  BY SessionEndsInv DEF decline, syncFails, Kill

\* What was read of a source is as it was when neither the source nor what
\* was hashed of it changes, and the file is not being sent.
LEMMA SourceKept ==
  ASSUME NEW x \in Transfers, NEW f \in Files, SourceOK(x, f), src'[x][f] = src[x][f], listed'[x][f] = listed[x][f],
         cur(x)'.file # f, plan(x, f)'.own = plan(x, f).own, plan(x, f)'.off = plan(x, f).off,
         plan(x, f)'.ownPrefix = plan(x, f).ownPrefix, rx[x].pc # "off", rx'[x].pc # "off"
  PROVE  SourceOK(x, f)'
<1>1. PICK v : v = src[x][f].versions
  OBVIOUS
<1>2. PICK e : e = listed[x][f]
  OBVIOUS
<1>3. PICK p : p = plan(x, f)
  OBVIOUS
<1>4. PICK q : q = plan(x, f)'
  OBVIOUS
<1>5. v = src'[x][f].versions /\ e = listed'[x][f] /\ q.own = p.own /\ q.off = p.off /\ q.ownPrefix = p.ownPrefix
  BY <1>1, <1>2, <1>3, <1>4
<1>6. /\ e.mtime <= Len(v) /\ (e.mtime > 0 => e.size = Len(v[e.mtime])) /\ e.mtime > 0
      /\ e.mtime = Len(v) /\ p.own = "hashed" => p.off <= e.size /\ p.ownPrefix = SubSeq(v[e.mtime], 1, p.off)
  BY <1>1, <1>2, <1>3 DEF SourceOK
<1>7. e.mtime = Len(v) /\ q.own = "hashed" => q.off <= e.size /\ q.ownPrefix = SubSeq(v[e.mtime], 1, q.off)
  BY <1>5, <1>6
<1> QED BY <1>4, <1>5, <1>6, <1>7 DEF SourceOK

\* A session fails: its verified files are committed, if there are any.
LEMMA FailedShape ==
  ASSUME TInv, NEW x \in Transfers, rx[x].pc \in {"swept", "classified", "data", "finish"},
         rx' = [rx EXCEPT ![x] = Failed(rx[x])], UNCHANGED <<up, src, listed, slot>>,
         \A f \in Files : plan(x, f).state = "pending" =>
             partial'[plan(x, f).rel] = partial[plan(x, f).rel] /\ ino'[plan(x, f).ino] = ino[plan(x, f).ino]
  PROVE  /\ rx' \in [Transfers -> Session] /\ cur(x)' = NoOpenFile
         /\ SessionOK(x)' /\ \A f \in Files : FileOK(x, f)'
<1>0. rx[x] \in Session /\ SessionOK(x) /\ \A f \in Files : plan(x, f) \in Plan /\ f # NoFile /\ FileOK(x, f)
  BY SessionTypes
<1>1. /\ rx' \in [Transfers -> Session] /\ rx'[x] = Failed(rx[x]) /\ cur(x)' = Failed(rx[x]).cur
      /\ \A f \in Files : plan(x, f)' = Failed(rx[x]).plan[f]
  BY <1>0, SessionChanges, FailedRecord
<1>2. CASE \A f \in Files : rx[x].plan[f].state # "pending"
  <2>1. rx'[x] = NoSession /\ cur(x)' = NoOpenFile
    BY <1>0, <1>1, <1>2, FailedRecord, NoSessionFields
  <2> QED BY <1>1, <2>1, SessionsOver
<1>3. CASE \E f \in Files : rx[x].plan[f].state = "pending"
  <2>1. /\ rx'[x].pc = "sync" /\ rx'[x].then = "off" /\ cur(x)' = NoOpenFile /\ ~Going(x)'
        /\ (\A f \in Files : plan(x, f)' = plan(x, f)) /\ rx'[x].acked = rx[x].acked
    BY <1>0, <1>1, <1>3, FailedRecord DEF plan, Going
  <2>2. rx[x].pc = "data" /\ up
    BY <1>0, <1>3 DEF SessionOK, FileOK, PlanOK, plan
  <2>3. SessionOK(x)'
    BY <1>0, <2>1, <2>2, NoSessionFields DEF SessionOK
  <2>4. ASSUME NEW f \in Files PROVE FileOK(x, f)'
    <3>1. PlanOK(x, f) /\ ConsentOK(x, f) /\ BatchOK(x, f) /\ SourceOK(x, f) /\ SnapshotOK(x, f)
      BY <1>0 DEF FileOK
    <3>2. PlanOK(x, f)'
      BY <1>0, <2>1, <2>2, <3>1, NoSessionFields DEF PlanOK, Early
    <3>3. ConsentOK(x, f)'
      BY <2>1, <3>1 DEF ConsentOK, NeedsConsent
    <3>4. BatchOK(x, f)'
      BY <2>1, <2>2, <3>1 DEF BatchOK, PlanOK
    <3>5. PrefixOK(x, f)' /\ SameOK(x, f)'
      BY <2>1 DEF PrefixOK, SameOK
    <3>6. SourceOK(x, f)'
      <4>1. cur(x)'.file # f /\ plan(x, f)' = plan(x, f) /\ rx'[x].pc = "sync" /\ rx[x].pc = "data"
        BY <1>0, <2>1, <2>2, NoSessionFields
      <4> QED BY <3>1, <4>1, SourceKept
    <3>7. SnapshotOK(x, f)'
      BY <2>1, <2>2, <3>1 DEF SnapshotOK, PlanOK
    <3> QED BY <3>2, <3>3, <3>4, <3>5, <3>6, <3>7 DEF FileOK
  <2> QED BY <1>1, <2>1, <2>3, <2>4
<1> QED BY <1>2, <1>3

\* The connection breaks.
LEMMA BreakInv ==
  ASSUME TInv, NEW x \in Transfers, break(x)
  PROVE  TInv'
<1>1. /\ rx' \in [Transfers -> Session] /\ cur(x)' = NoOpenFile
      /\ SessionOK(x)' /\ \A f \in Files : FileOK(x, f)'
  BY FailedShape DEF break, folder, names
<1>2. src' \in [Transfers -> [Files -> Source]] /\ listed' \in [Transfers -> [Files -> Entry]]
  BY DEF TInv, TransferTypeOK, break
<1> QED BY <1>1, <1>2, FolderKept, Assembled DEF break

-----------------------------------------------------------------------------
\* The sender walks its sources.
LEMMA WalkInv ==
  ASSUME TInv, NEW x \in Transfers, Walk(x)
  PROVE  TInv'
<1>0. /\ TransferTypeOK /\ rx[x].pc = "off" /\ UNCHANGED <<folder, src, rx, reported>>
      /\ listed' = [listed EXCEPT ![x] = [f \in Files |-> [size |-> Len(data(x, f)), mtime |-> mtime(x, f)]]]
      /\ SessionOK(x) /\ (\A f \in Files : FileOK(x, f)) /\ (cur(x) # NoOpenFile => rx[x].pc = "data")
  BY SessionTypes DEF Walk
<1>1. \A f \in Files : listed'[x][f].size = Len(data(x, f)) /\ listed'[x][f].mtime = mtime(x, f)
  BY <1>0 DEF TransferTypeOK
<1>2. \A f \in Files : /\ mtime(x, f) \in 0..MaxTime /\ mtime(x, f) > 0 /\ Len(data(x, f)) \in 0..MaxSize
                       /\ mtime(x, f) = Len(src[x][f].versions) /\ data(x, f) = src[x][f].versions[mtime(x, f)]
  BY <1>0, SourceTypes, DataIsSeq, FolderAssumption
<1>3. listed' \in [Transfers -> [Files -> Entry]]
  BY <1>0, <1>2 DEF TransferTypeOK, Entry
<1>4. rx' = rx /\ src' = src /\ up' = up /\ ino' = ino /\ slot' = slot /\ partial' = partial
  BY <1>0 DEF folder, names
<1>5. cur(x)' = cur(x) /\ (\A f \in Files : plan(x, f)' = plan(x, f)) /\ ~Going(x)' /\ ~Going(x) /\ rx'[x].pc = "off"
  BY <1>0, <1>4 DEF cur, plan, Going
<1>6. SessionOK(x)'
  <2>1. cur(x)' = NoOpenFile
    BY <1>0, <1>5
  <2> QED BY <1>0, <1>4, <1>5, <2>1, NoSessionFields DEF SessionOK
<1>7. ASSUME NEW f \in Files PROVE FileOK(x, f)'
  <2>0. PlanOK(x, f) /\ ConsentOK(x, f) /\ BatchOK(x, f)
    BY <1>0 DEF FileOK
  <2>1. PlanOK(x, f)'
    BY <1>4, <1>5, <2>0 DEF PlanOK
  <2>2. ConsentOK(x, f)'
    BY <1>4, <1>5, <2>0 DEF ConsentOK, NeedsConsent
  <2>3. BatchOK(x, f)'
    BY <1>0, <1>5, <2>0 DEF BatchOK, PlanOK
  <2>4. PrefixOK(x, f)' /\ SameOK(x, f)'
    BY <1>5 DEF PrefixOK, SameOK
  <2>5. SourceOK(x, f)'
    <3>1. /\ listed'[x][f].mtime = Len(src'[x][f].versions) /\ listed'[x][f].mtime \in 0..MaxTime
          /\ listed'[x][f].size = Len(src'[x][f].versions[listed'[x][f].mtime]) /\ listed'[x][f].mtime > 0
      BY <1>1, <1>2, <1>4
    <3>2. listed'[x][f].mtime <= Len(src'[x][f].versions)
      BY <3>1, FolderAssumption
    <3> QED BY <1>5, <3>1, <3>2 DEF SourceOK
  <2>6. SnapshotOK(x, f)'
    BY <1>0, <1>5, <2>0 DEF SnapshotOK, PlanOK
  <2> QED BY <2>1, <2>2, <2>3, <2>4, <2>5, <2>6 DEF FileOK
<1>8. src' \in [Transfers -> [Files -> Source]] /\ rx' \in [Transfers -> Session]
  BY <1>0, <1>4 DEF TransferTypeOK
<1> QED BY <1>0, <1>3, <1>4, <1>5, <1>6, <1>7, <1>8, FolderKept, Assembled

\* The beginning of a session.
LEMMA SweepInv ==
  ASSUME TInv, NEW x \in Transfers, NEW old \in SUBSET Names, sweep(x, old)
  PROVE  TInv'
<1> DEFINE s == [NoSession EXCEPT !.pc = "swept"]
<1>0. /\ TransferTypeOK /\ up /\ (\A f \in Files : listed[x][f].mtime > 0 /\ f # NoFile /\ FileOK(x, f))
      /\ UNCHANGED <<up, ino, slot, durable, src, listed, reported>>
      /\ partial' = [n \in Names |-> IF n \in old THEN NoIno ELSE partial[n]]
      /\ meta' = [n \in Names |-> IF n \in old THEN NoMeta ELSE meta[n]]
      /\ rx' = [rx EXCEPT ![x] = s]
  BY SessionTypes DEF sweep, remove
<1>1. /\ s \in Session /\ s.pc = "swept" /\ s.then = "off" /\ s.plan = NoSession.plan /\ s.cur = NoOpenFile /\ ~s.acked
  BY FreshRecords, NoSessionFields DEF Session
<1> HIDE DEF s
<1>2. /\ rx' \in [Transfers -> Session] /\ rx'[x] = s
      /\ cur(x)' = NoOpenFile /\ \A f \in Files : plan(x, f)' = NewPlan(f)
  <2>1. /\ rx' \in [Transfers -> Session] /\ rx'[x] = s /\ cur(x)' = s.cur
        /\ \A f \in Files : plan(x, f)' = s.plan[f]
    BY <1>0, <1>1 DEF TInv, TransferTypeOK, cur, plan
  <2> QED BY <1>1, <2>1, NoSessionFields
<1>3. FolderShape'
  BY <1>0, FolderSame DEF TInv
<1>4. rx'[x].pc = "swept" /\ rx'[x].then = "off" /\ ~rx'[x].acked /\ ~Going(x)'
  BY <1>1, <1>2 DEF Going
<1>5. SessionOK(x)'
  BY <1>0, <1>2, <1>4, NoSessionFields DEF SessionOK
<1>6. ASSUME NEW f \in Files PROVE FileOK(x, f)'
  <2>1. PlanOK(x, f)'
    BY <1>0, <1>2, <1>4, NoSessionFields DEF PlanOK, Early
  <2>2. ConsentOK(x, f)'
    BY <1>2, <1>4, NoSessionFields DEF ConsentOK, NeedsConsent
  <2>3. BatchOK(x, f)' /\ PrefixOK(x, f)' /\ SameOK(x, f)' /\ SnapshotOK(x, f)'
    BY <1>2, <1>4, NoSessionFields DEF BatchOK, PrefixOK, SameOK, SnapshotOK
  <2>4. SourceOK(x, f)'
    BY <1>0, <1>2, <1>4, NoSessionFields DEF FileOK, SourceOK
  <2> QED BY <2>1, <2>2, <2>3, <2>4 DEF FileOK
<1>7. FolderTypeOK'
  BY <1>0 DEF TransferTypeOK, FolderTypeOK
<1>8. src' \in [Transfers -> [Files -> Source]] /\ listed' \in [Transfers -> [Files -> Entry]]
      /\ reported' \in [Names -> Data \cup {NoReport}]
  BY <1>0 DEF TransferTypeOK
<1> QED BY <1>2, <1>3, <1>5, <1>6, <1>7, <1>8, Assembled

\* The sender hashes the prefix of its own file.
LEMMA HashPrefixInv ==
  ASSUME TInv, NEW x \in Transfers, NEW f \in Files, hashPrefix(x, f)
  PROVE  TInv'
<1> DEFINE p == plan(x, f)
           ok == src[x][f].readable /\ Len(data(x, f)) >= p.off
<1>0. /\ TransferTypeOK /\ rx[x].pc \notin Early /\ p \in Plan /\ SessionOK(x) /\ (\A g \in Files : FileOK(x, g))
      /\ (cur(x) # NoOpenFile => rx[x].pc = "data")
      /\ UNCHANGED <<folder, src, listed, reported>>
  BY SessionTypes DEF hashPrefix, Early
<1>1. PICK q : q = [p EXCEPT !.own = IF ok THEN "hashed" ELSE "unreadable",
                             !.ownPrefix = IF ok THEN SubSeq(data(x, f), 1, p.off) ELSE <<>>]
  OBVIOUS
<1>2. ok => SubSeq(data(x, f), 1, p.off) \in Data
  <2>1. p.off \in Nat /\ data(x, f) \in Data
    BY <1>0, SourceTypes, FolderAssumption DEF Plan
  <2>2. Len(data(x, f)) \in Nat
    BY <2>1, DataIsSeq, FolderAssumption
  <2> QED BY <2>1, <2>2, PrefixIsData
<1> HIDE DEF p
<1>3. /\ q \in Plan /\ q.rel = p.rel /\ q.disp = p.disp /\ q.seen = p.seen /\ q.off = p.off /\ q.prefix = p.prefix
      /\ q.action = p.action /\ q.ino = p.ino /\ q.state = p.state /\ q.changed = p.changed
      /\ q.own = "hashed" => ok /\ q.ownPrefix = SubSeq(data(x, f), 1, p.off)
  BY <1>0, <1>1, <1>2, DataIsSeq DEF Plan
<1>4. SetPlan(x, f, q)
  BY <1>1 DEF hashPrefix, p
<1>5. /\ rx' \in [Transfers -> Session] /\ rx'[x].pc = rx[x].pc /\ rx'[x].then = rx[x].then /\ cur(x)' = cur(x)
      /\ rx'[x].acked = rx[x].acked /\ plan(x, f)' = q /\ \A g \in Files : g # f => plan(x, g)' = plan(x, g)
  BY <1>3, <1>4, SetPlanChanges
<1>6. Going(x)' = Going(x) /\ Asked(x)' = Asked(x)
  BY <1>3, <1>5 DEF Going, Asked, p
<1>e. Empties(x)' = Empties(x)
  BY <1>0, <1>6 DEF Empties
<1>7. up' = up /\ ino' = ino /\ slot' = slot /\ partial' = partial /\ src' = src /\ listed' = listed
  BY <1>0 DEF folder, names
<1>8. \A g \in Files : /\ plan(x, g)'.rel = plan(x, g).rel /\ plan(x, g)'.disp = plan(x, g).disp
                       /\ plan(x, g)'.seen = plan(x, g).seen /\ plan(x, g)'.off = plan(x, g).off
                       /\ plan(x, g)'.prefix = plan(x, g).prefix /\ plan(x, g)'.action = plan(x, g).action
                       /\ plan(x, g)'.ino = plan(x, g).ino /\ plan(x, g)'.state = plan(x, g).state
                       /\ plan(x, g)'.changed = plan(x, g).changed
  BY <1>3, <1>5 DEF p
<1>9. SessionOK(x)'
  <2>1. cur(x).file # NoFile => cur(x).file \in Files
    BY SessionTypes DEF OpenFile
  <2> QED BY <1>0, <1>5, <1>6, <1>e, <1>7, <1>8, <2>1 DEF SessionOK
<1>10. ASSUME NEW g \in Files PROVE FileOK(x, g)'
  <2>0. /\ PlanOK(x, g) /\ ConsentOK(x, g) /\ BatchOK(x, g) /\ PrefixOK(x, g) /\ SourceOK(x, g)
        /\ SnapshotOK(x, g) /\ SameOK(x, g)
    BY <1>0 DEF FileOK
  <2>1. PlanOK(x, g)'
    BY <1>5, <1>8, <2>0 DEF PlanOK
  <2>2. ConsentOK(x, g)'
    BY <1>5, <1>6, <1>8, <2>0 DEF ConsentOK, NeedsConsent
  <2>3. BatchOK(x, g)'
    BY <1>5, <1>7, <1>8, <2>0 DEF BatchOK, IsFile
  <2>4. PrefixOK(x, g)'
    BY <1>5, <1>6, <1>7, <1>8, <2>0 DEF PrefixOK, Size
  <2>5. SameOK(x, g)' /\ SnapshotOK(x, g)'
    BY <1>5, <1>7, <1>8, <2>0 DEF SameOK, SnapshotOK, IsFile
  <2>6. SourceOK(x, g)'
    <3>1. CASE g # f
      <4>1. plan(x, g)' = plan(x, g)
        BY <1>5, <3>1
      <4> QED BY <1>5, <1>7, <2>0, <4>1 DEF SourceOK
    <3>2. CASE g = f
      <4>1. data(x, f) = src[x][f].versions[Len(src[x][f].versions)]
        BY <1>0, SourceTypes
      <4>2. rx[x].pc # "off"
        BY <1>0 DEF Early
      <4> QED BY <1>3, <1>5, <1>7, <2>0, <3>2, <4>1, <4>2 DEF SourceOK
    <3> QED BY <3>1, <3>2
  <2> QED BY <2>1, <2>2, <2>3, <2>4, <2>5, <2>6 DEF FileOK
<1>11. src' \in [Transfers -> [Files -> Source]] /\ listed' \in [Transfers -> [Files -> Entry]]
  BY <1>0, <1>7 DEF TransferTypeOK
<1> QED BY <1>0, <1>5, <1>9, <1>10, <1>11, FolderKept, Assembled

-----------------------------------------------------------------------------
\* Minimum of a set of files.
LEMMA MinFile ==
  ASSUME NEW S \in SUBSET Files, S # {}
  PROVE  Min(S) \in S
<1>1. PICK f \in S : TRUE
  OBVIOUS
<1>2. Cardinality(Files) \in Nat /\ \A g \in S : g \in 1..Cardinality(Files)
  BY TransferAssumption, FS_CardinalityType
<1>3. S \in SUBSET Nat /\ S # {}
  BY <1>2
<1>4. \E g \in S : \A h \in S : g <= h
  <2>1. PICK g \in S : \A h \in S : <<h, g>> \notin OpToRel(<, Nat)
    BY <1>3, WFMin, NatLessThanWellFounded, Zenon
  <2>2. \A h \in S : ~(h < g)
    BY <1>3, <2>1, Zenon DEF OpToRel
  <2> QED BY <1>3, <2>2
<1> QED BY <1>4 DEF Min

\* While one file of the data phase is worked on, the others stay as they are.
LEMMA OthersKept ==
  ASSUME TInv, NEW x \in Transfers, NEW f \in Files, rx[x].pc = "data", rx'[x].pc = "data",
         rx'[x].acked = rx[x].acked, \A g \in Files : g # f => plan(x, g)' = plan(x, g),
         cur(x).file \in {f, NoFile}, cur(x)'.file \in {f, NoFile}, UNCHANGED <<src, listed>>,
         \A n \in Names : n # plan(x, f).rel =>
             partial'[n] = partial[n] /\ (partial[n] # NoIno => ino'[partial[n]] = ino[partial[n]])
  PROVE  \A g \in Files : g # f => FileOK(x, g)'
<1> SUFFICES ASSUME NEW g \in Files, g # f PROVE FileOK(x, g)'
  OBVIOUS
<1>0. /\ PlanOK(x, g) /\ ConsentOK(x, g) /\ BatchOK(x, g) /\ PrefixOK(x, g) /\ SourceOK(x, g) /\ SnapshotOK(x, g)
      /\ g # NoFile /\ plan(x, g).rel \in Names
  BY SessionTypes DEF FileOK
<1>1. plan(x, g)' = plan(x, g) /\ cur(x).file # g /\ cur(x)'.file # g /\ Going(x) /\ Going(x)'
  BY <1>0 DEF Going
<1>2. plan(x, g).rel # plan(x, f).rel
  BY RelDistinct
<1>3. /\ partial'[plan(x, g).rel] = partial[plan(x, g).rel]
      /\ partial[plan(x, g).rel] # NoIno => ino'[partial[plan(x, g).rel]] = ino[partial[plan(x, g).rel]]
  BY <1>0, <1>2
<1>4. plan(x, g).state = "pending" => ino'[plan(x, g).ino] = ino[plan(x, g).ino]
  BY <1>0, <1>3, FolderAssumption DEF BatchOK
<1>5. PlanOK(x, g)'
  BY <1>0, <1>1 DEF PlanOK
<1>6. ConsentOK(x, g)'
  BY <1>0, <1>1 DEF ConsentOK, NeedsConsent
<1>7. BatchOK(x, g)'
  BY <1>0, <1>1, <1>3, <1>4 DEF BatchOK, PlanOK
<1>8. PrefixOK(x, g)'
  BY <1>0, <1>1, <1>3 DEF PrefixOK, Size
<1>9. SourceOK(x, g)'
  BY <1>0, <1>1 DEF SourceOK
<1>10. SnapshotOK(x, g)' /\ SameOK(x, g)'
  BY <1>0, <1>1, <1>4 DEF SnapshotOK, SameOK, PlanOK
<1> QED BY <1>5, <1>6, <1>7, <1>8, <1>9, <1>10 DEF FileOK

\* What it takes to work on one file of the data phase.
LEMMA DataStep ==
  ASSUME TInv, NEW x \in Transfers, NEW f \in Files, rx[x].pc = "data", rx'[x].pc = "data",
         rx'[x].acked = rx[x].acked, \A g \in Files : g # f => plan(x, g)' = plan(x, g),
         cur(x).file \in {f, NoFile}, cur(x)'.file \in {f, NoFile}, UNCHANGED <<up, src, listed, reported>>,
         \A n \in Names : n # plan(x, f).rel =>
             partial'[n] = partial[n] /\ (partial[n] # NoIno => ino'[partial[n]] = ino[partial[n]]),
         FolderTypeOK', FolderShape', rx' \in [Transfers -> Session],
         cur(x)'.file = NoFile => cur(x)' = NoOpenFile, cur(x)'.file # NoFile => Empties(x) = {},
         plan(x, f)'.state = "todo" => plan(x, f).state = "todo" /\ plan(x, f)'.action = plan(x, f).action,
         cur(x)'.sent = cur(x)'.got, cur(x)'.ino = NoIno => cur(x)'.got = <<>>,
         cur(x)'.file = f /\ cur(x)'.ino # NoIno =>
             cur(x)'.ino = partial'[plan(x, f)'.rel] /\ ino'[cur(x)'.ino].data = cur(x)'.got,
         PlanOK(x, f)', ConsentOK(x, f)', BatchOK(x, f)', PrefixOK(x, f)', SourceOK(x, f)', SnapshotOK(x, f)'
  PROVE  TInv'
<1>0. SessionOK(x) /\ f # NoFile /\ TransferTypeOK
  BY SessionTypes
<1>1. SessionOK(x)'
  <2>1. up' /\ ~rx'[x].acked
    BY <1>0 DEF SessionOK
  <2>2. Asked(x)' \subseteq Asked(x)
    BY DEF Asked
  <2>3. Empties(x)' \subseteq Empties(x)
    BY <2>2 DEF Empties
  <2> QED BY <1>0, <2>1, <2>3, NoSessionFields DEF SessionOK
<1>2. FileOK(x, f)'
  BY DEF FileOK, SameOK
<1>3. \A g \in Files : FileOK(x, g)'
  BY <1>2, OthersKept
<1>4. /\ src' \in [Transfers -> [Files -> Source]] /\ listed' \in [Transfers -> [Files -> Entry]]
      /\ reported' \in [Names -> Data \cup {NoReport}]
  BY <1>0 DEF TransferTypeOK
<1> QED BY <1>1, <1>3, <1>4, Assembled

\* The sender cannot read a file.
LEMMA SkipFileInv ==
  ASSUME TInv, NEW x \in Transfers, NEW f \in Files, skipFile(x, f)
  PROVE  TInv'
<1> DEFINE p == plan(x, f)
<1>0. /\ TransferTypeOK /\ rx[x].pc = "data" /\ p \in Plan /\ cur(x) = NoOpenFile /\ f # NoFile
      /\ PlanOK(x, f) /\ SourceOK(x, f)
      /\ UNCHANGED <<folder, src, listed, reported>>
  BY SessionTypes DEF skipFile, Turn, FileOK
<1>1. PICK q : q = [p EXCEPT !.state = "skipped"]
  OBVIOUS
<1> HIDE DEF p
<1>3. /\ q \in Plan /\ q.rel = p.rel /\ q.own = p.own /\ q.ownPrefix = p.ownPrefix /\ q.off = p.off
      /\ q.action = p.action /\ q.state = "skipped"
  BY <1>0, <1>1 DEF Plan
<1>4. SetPlan(x, f, q)
  BY <1>1 DEF skipFile, p
<1>5. /\ rx' \in [Transfers -> Session] /\ rx'[x].pc = "data" /\ cur(x)' = NoOpenFile
      /\ rx'[x].acked = rx[x].acked /\ plan(x, f)' = q /\ \A g \in Files : g # f => plan(x, g)' = plan(x, g)
  BY <1>0, <1>3, <1>4, SetPlanChanges
<1>7. up' = up /\ ino' = ino /\ partial' = partial /\ src' = src /\ listed' = listed
  BY <1>0 DEF folder, names
<1>8. PlanOK(x, f)' /\ ConsentOK(x, f)'
  BY <1>0, <1>3, <1>5, NoSessionFields DEF PlanOK, ConsentOK, Early, p
<1>9. BatchOK(x, f)' /\ PrefixOK(x, f)' /\ SnapshotOK(x, f)'
  BY <1>3, <1>5 DEF BatchOK, PrefixOK, SnapshotOK
<1>10. SourceOK(x, f)'
  BY <1>0, <1>3, <1>5, <1>7, NoSessionFields DEF SourceOK, p
<1>11. cur(x).file = NoFile /\ cur(x)'.file = NoFile /\ cur(x)'.sent = cur(x)'.got /\ cur(x)'.got = <<>>
  BY <1>0, <1>5, NoSessionFields
<1> QED BY <1>0, <1>3, <1>5, <1>7, <1>8, <1>9, <1>10, <1>11, FolderKept, DataStep DEF p

\* create's sidecar of a file that is sent from its start.
LEMMA OpenNewInv ==
  ASSUME TInv, NEW x \in Transfers, NEW f \in Files, openNew(x, f)
  PROVE  TInv'
<1> DEFINE p == plan(x, f)
<1>0. /\ TransferTypeOK /\ rx[x].pc = "data" /\ p \in Plan /\ cur(x) = NoOpenFile /\ f # NoFile
      /\ FileOK(x, f) /\ f \in Asked(x) /\ Empties(x) = {}
      /\ UNCHANGED <<up, ino, slot, durable, partial, src, listed, reported>>
      /\ meta' = [meta EXCEPT ![p.rel] = listed[x][f]]
  BY SessionTypes, MinFile DEF openNew, Turn, createMeta, NextFile, Asked
<1>1. PICK q : q = [p EXCEPT !.disp = IF p.disp = "resume" THEN "new" ELSE p.disp]
  OBVIOUS
<1>2. PICK c : c = [NoOpenFile EXCEPT !.file = f]
  OBVIOUS
<1>3. /\ q \in Plan /\ q.rel = p.rel /\ q.own = p.own /\ q.ownPrefix = p.ownPrefix /\ q.off = p.off /\ q.seen = p.seen
      /\ q.action = p.action /\ q.state = p.state /\ q.disp # "resume" /\ (p.disp # "resume" => q.disp = p.disp)
      /\ (p.disp = "resume" => q.disp = "new")
  BY <1>0, <1>1 DEF Plan, Dispositions
<1>4. c \in OpenFile /\ c.file = f /\ c.ino = NoIno /\ c.sent = <<>> /\ c.got = <<>>
  BY <1>2, DataIsSeq DEF OpenFile, NoOpenFile
<1>5. rx' = [rx EXCEPT ![x].cur = c, ![x].plan[f] = q]
  <2>1. rx \in [Transfers -> Session] /\ rx[x].plan \in [Files -> Plan] /\ rx[x] \in Session /\ p = rx[x].plan[f]
    BY SessionTypes DEF plan
  <2>2. rx' = [rx EXCEPT ![x].cur = c, ![x].plan[f].disp = IF p.disp = "resume" THEN "new" ELSE p.disp]
    BY <1>2 DEF openNew
  <2> QED BY <1>1, <2>1, <2>2 DEF Session, Plan
<1> HIDE DEF p
<1>6. /\ rx' \in [Transfers -> Session] /\ rx'[x].pc = "data" /\ cur(x)' = c
      /\ rx'[x].acked = rx[x].acked /\ plan(x, f)' = q /\ \A g \in Files : g # f => plan(x, g)' = plan(x, g)
  <2>1. q \in Plan /\ c \in OpenFile
    BY <1>3, <1>4
  <2> QED BY <1>0, <1>5, <2>1, PlanChanges
<1>7. p.state = "todo" /\ p.action \in Wanted
  BY <1>0 DEF Asked, Wanted, p
<1>8. PlanOK(x, f)'
  BY <1>0, <1>3, <1>4, <1>6, <1>7 DEF FileOK, PlanOK, Early, p
<1>9. ConsentOK(x, f)'
  BY <1>0, <1>3, <1>4, <1>6, <1>7 DEF FileOK, ConsentOK, NeedsConsent, p
<1>10. BatchOK(x, f)' /\ PrefixOK(x, f)' /\ SnapshotOK(x, f)'
  BY <1>3, <1>4, <1>6, <1>7 DEF BatchOK, PrefixOK, SnapshotOK
<1>11. SourceOK(x, f)'
  <2>1. listed[x][f].mtime = Len(src[x][f].versions) =>
           0 <= listed[x][f].size /\ <<>> = SubSeq(src[x][f].versions[listed[x][f].mtime], 1, 0)
    <3>1. Len(src[x][f].versions) \in Nat \ {0} /\ listed[x][f] \in Entry /\ data(x, f) \in Data
          /\ data(x, f) = src[x][f].versions[Len(src[x][f].versions)]
      BY <1>0, SourceTypes
    <3>2. Len(data(x, f)) \in Nat
      BY <3>1, DataIsSeq, FolderAssumption
    <3>3. SubSeq(data(x, f), 1, 0) = <<>>
      BY <3>1, <3>2, PrefixIsData, DataIsSeq, EmptySeq
    <3> QED BY <3>1, <3>3, FolderAssumption DEF Entry
  <2>2. c.sent = <<>> /\ Len(c.sent) = 0
    BY <1>4
  <2>3. SourceOK(x, f) /\ src' = src /\ listed' = listed
    BY <1>0 DEF FileOK
  <2> QED BY <1>0, <1>3, <1>6, <2>1, <2>2, <2>3 DEF SourceOK, p
<1>12. FolderShape'
  BY <1>0, FolderSame DEF TInv
<1>13. FolderTypeOK'
  <2>1. FolderTypeOK /\ listed[x][f] \in Entry
    BY <1>0, SourceTypes DEF TransferTypeOK
  <2> QED BY <1>0, <2>1 DEF FolderTypeOK
<1>14. cur(x).file = NoFile
  BY <1>0, NoSessionFields
<1> QED BY <1>0, <1>3, <1>4, <1>6, <1>8, <1>9, <1>10, <1>11, <1>7, <1>12, <1>13, <1>14, DataStep DEF p

-----------------------------------------------------------------------------
\* An empty file is created.
LEMMA MaterializeInv ==
  ASSUME TInv, NEW x \in Transfers, NEW f \in Files, materialize(x, f)
  PROVE  TInv'
<1> DEFINE p == plan(x, f)
<1>i. PICK i : i = PartialInode(p.rel)
  OBVIOUS
<1>0. /\ TransferTypeOK /\ rx[x].pc = "data" /\ p \in Plan /\ f # NoFile /\ p.rel \in Names
      /\ FileOK(x, f) /\ SessionOK(x) /\ Empties(x) # {} /\ f = Min(Empties(x)) /\ CanCreate(p.rel)
      /\ UNCHANGED <<up, slot, durable, src, listed, reported>>
      /\ meta' = [meta EXCEPT ![p.rel] = listed[x][f]]
      /\ partial' = [partial EXCEPT ![p.rel] = i]
      /\ ino' = [ino EXCEPT ![i] = [EmptyINode EXCEPT !.mtime = listed[x][f].mtime, !.verified = TRUE]]
      /\ SetPlan(x, f, [p EXCEPT !.state = "pending", !.ino = i])
  BY <1>i, SessionTypes DEF materialize, createMeta
<1>1. f \in Empties(x)
  <2>1. Empties(x) \in SUBSET Files
    BY DEF Empties, Asked
  <2> QED BY <1>0, <2>1, MinFile
<1>2. p.state = "todo" /\ p.action \in Wanted /\ listed[x][f].size = 0
  BY <1>1 DEF Empties, Asked, Wanted
<1>3. cur(x) = NoOpenFile /\ cur(x).file = NoFile
  BY <1>0 DEF SessionOK
<1>4. PICK q : q = [p EXCEPT !.state = "pending", !.ino = i]
  OBVIOUS
<1>5. PICK e : e = [EmptyINode EXCEPT !.mtime = listed[x][f].mtime, !.verified = TRUE]
  OBVIOUS
<1>6. /\ i \in Inodes /\ i # NoIno
      /\ \A m \in Names : slot[m].ino # i /\ durable[m].ino # i /\ (m # p.rel => partial[m] # i)
  BY <1>0, <1>i, PartialInodeUnused
<1>7. FolderTypeOK /\ listed[x][f] \in Entry /\ listed[x][f].mtime \in 0..MaxTime
  BY <1>0, SourceTypes DEF TransferTypeOK, Entry
<1>8. e \in INode /\ e.data = <<>> /\ e.root = <<>> /\ e.verified /\ e.synced = 0
  BY <1>5, <1>7, FreshRecords DEF EmptyINode, INode
<1> HIDE DEF p
<1>9. /\ q \in Plan /\ q.rel = p.rel /\ q.own = p.own /\ q.ownPrefix = p.ownPrefix /\ q.off = p.off /\ q.seen = p.seen
      /\ q.action = p.action /\ q.state = "pending" /\ q.disp = p.disp /\ q.ino = i /\ q.changed = p.changed
  BY <1>0, <1>4, <1>6 DEF Plan
<1>10. /\ rx' \in [Transfers -> Session] /\ rx'[x].pc = "data" /\ cur(x)' = NoOpenFile
       /\ rx'[x].acked = rx[x].acked /\ plan(x, f)' = q /\ \A g \in Files : g # f => plan(x, g)' = plan(x, g)
  BY <1>0, <1>3, <1>4, <1>9, SetPlanChanges
<1>11. /\ ino' = [ino EXCEPT ![i] = e] /\ ino'[i] = e /\ partial'[p.rel] = i
       /\ \A n \in Names : n # p.rel => partial'[n] = partial[n]
       /\ \A j \in Inodes : j # i => ino'[j] = ino[j]
  BY <1>0, <1>5, <1>6, <1>7 DEF FolderTypeOK
<1>12. FolderTypeOK'
  <2>1. 0 <= Len(<<>>)
    OBVIOUS
  <2> QED BY <1>0, <1>6, <1>7, <1>8, <1>11, <2>1 DEF FolderTypeOK
<1>13. FolderShape'
  <2>1. UNCHANGED <<slot, durable, reported>> /\ FolderShape
    BY <1>0 DEF TInv
  <2>2. \A n \in Names : partial'[n] = partial[n] \/ partial'[n] = i
    BY <1>11
  <2>3. \A n, m \in Names : n # m /\ partial'[n] = i => partial'[m] # i
    BY <1>6, <1>11
  <2> QED BY <1>6, <1>7, <1>11, <2>1, <2>2, <2>3, FolderWrites
<1>14. \A n \in Names : n # p.rel => partial'[n] = partial[n] /\ (partial[n] # NoIno => ino'[partial[n]] = ino[partial[n]])
  BY <1>6, <1>7, <1>11 DEF FolderTypeOK
<1>15. PlanOK(x, f)' /\ ConsentOK(x, f)'
  BY <1>0, <1>2, <1>3, <1>9, <1>10 DEF FileOK, PlanOK, ConsentOK, Early, Wanted, NeedsConsent, p
<1>16. BatchOK(x, f)' /\ PrefixOK(x, f)'
  BY <1>6, <1>8, <1>9, <1>10, <1>11 DEF BatchOK, PrefixOK
<1>17. SourceOK(x, f)'
  BY <1>0, <1>3, <1>9, <1>10 DEF FileOK, SourceOK, p
<1>18. SnapshotOK(x, f)'
  <2> DEFINE d == src[x][f].versions[listed[x][f].mtime]
  <2>1. listed[x][f].mtime > 0 /\ listed[x][f].mtime <= Len(src[x][f].versions) /\ listed[x][f].size = Len(d)
    BY <1>0 DEF FileOK, SourceOK
  <2>2. d \in Data
    BY <1>0, <1>7, <2>1, SourceTypes, FolderAssumption
  <2>3. d = <<>>
    BY <1>2, <2>1, <2>2, DataIsSeq, EmptySeq
  <2> QED BY <1>0, <1>8, <1>9, <1>10, <1>11, <2>3 DEF SnapshotOK
<1>19. cur(x)'.file = NoFile /\ cur(x)'.sent = cur(x)'.got /\ cur(x)'.got = <<>>
  BY <1>10, NoSessionFields
<1> QED BY <1>0, <1>3, <1>9, <1>10, <1>12, <1>13, <1>14, <1>15, <1>16, <1>17, <1>18, <1>19, DataStep DEF p

\* A partial is opened and cut to the offset.
LEMMA OpenResumedInv ==
  ASSUME TInv, NEW x \in Transfers, NEW f \in Files, openResumed(x, f)
  PROVE  TInv'
<1> DEFINE p == plan(x, f)
           i == partial[p.rel]
<1>t. Turn(x, f) /\ Resumes(p)
  BY DEF openResumed
<1>n. rx[x].pc = "data" /\ cur(x) = NoOpenFile /\ Empties(x) = {} /\ f \in Asked(x)
  <2>1. Asked(x) \in SUBSET Files
    BY DEF Asked
  <2> QED BY <1>t, <2>1, MinFile DEF Turn, NextFile
<1>0. /\ TransferTypeOK /\ FolderTypeOK /\ rx[x].pc = "data" /\ p \in Plan /\ cur(x) = NoOpenFile /\ f # NoFile
      /\ p.rel \in Names /\ FileOK(x, f) /\ f \in Asked(x) /\ Empties(x) = {}
      /\ UNCHANGED <<up, names, src, listed, reported>>
      /\ p.action = "resume" /\ p.own = "hashed" /\ p.ownPrefix = p.prefix
  BY <1>t, <1>n, SessionTypes DEF openResumed, Resumes
<1>s. UNCHANGED <<up, slot, durable, partial, meta, src, listed, reported>>
  BY <1>0 DEF names
<1>1. CASE i = NoIno
  <2>1. rx' = [rx EXCEPT ![x] = Failed(rx[x])] /\ UNCHANGED ino
    BY <1>0, <1>1 DEF openResumed
  <2>2. /\ rx' \in [Transfers -> Session] /\ cur(x)' = NoOpenFile
        /\ SessionOK(x)' /\ \A g \in Files : FileOK(x, g)'
    BY <1>0, <1>s, <2>1, FailedShape
  <2>3. src' \in [Transfers -> [Files -> Source]] /\ listed' \in [Transfers -> [Files -> Entry]]
    BY <1>0 DEF TransferTypeOK
  <2>4. UNCHANGED <<folder, reported>>
    BY <1>s, <2>1 DEF folder, names
  <2> QED BY <2>2, <2>3, <2>4, FolderKept, Assembled
<1>2. CASE i # NoIno
  <2>1. PICK c : c = [file |-> f, ino |-> i, sent |-> p.ownPrefix, got |-> p.prefix]
    OBVIOUS
  <2>2. rx' = [rx EXCEPT ![x].cur = c] /\ ino' = [ino EXCEPT ![i] = Truncated(ino[i], p.off)] /\ i \in Inodes
    BY <1>0, <1>2, <2>1 DEF openResumed, FolderTypeOK
  <2>3. p.state = "todo"
    BY <1>0 DEF Asked
  <2>4. p.disp = "resume"
    BY <1>0, <2>3, NoSessionFields DEF FileOK, ConsentOK, Going
  <2>5. p.off <= Len(ino[i].data) /\ p.prefix = SubSeq(ino[i].data, 1, p.off) /\ p.off \in Nat
    BY <1>0, <1>2, <2>3, <2>4, NoSessionFields, FolderAssumption DEF FileOK, PrefixOK, Going, Size, Plan
  <2>6. ino[i] \in INode /\ ino[i].synced <= Len(ino[i].data) /\ ino[i].data \in Data
    BY <1>0, <2>2 DEF FolderTypeOK, INode
  <2>7. PICK t : t = Truncated(ino[i], p.off)
    OBVIOUS
  <2>8. t \in INode /\ t.data = p.prefix /\ t.synced <= Len(t.data) /\ Len(p.prefix) = p.off
    <3>1. Len(SubSeq(ino[i].data, 1, p.off)) = p.off
      BY <2>5, <2>6, PrefixIsData
    <3> HIDE DEF p, i
    <3>2. t \in INode /\ t.data = SubSeq(ino[i].data, 1, p.off) /\ t.synced <= Len(t.data)
      BY <2>5, <2>6, <2>7, TruncatedRecord
    <3> QED BY <2>5, <3>1, <3>2
  <2>9. c \in OpenFile /\ c.file = f /\ c.ino = i /\ c.sent = p.prefix /\ c.got = p.prefix
    BY <1>0, <2>1, <2>2 DEF OpenFile, Plan
  <2>10. /\ rx' \in [Transfers -> Session] /\ rx'[x].pc = "data" /\ cur(x)' = c
         /\ rx'[x].acked = rx[x].acked /\ \A g \in Files : plan(x, g)' = plan(x, g)
    BY <1>0, <2>2, <2>9, CurChanges
  <2>11. ino'[i] = t /\ (\A j \in Inodes : j # i => ino'[j] = ino[j]) /\ ino' = [ino EXCEPT ![i] = t]
    BY <1>0, <2>2, <2>7 DEF FolderTypeOK
  <2>12. FolderTypeOK'
    BY <1>0, <1>s, <2>2, <2>8, <2>11 DEF FolderTypeOK
  <2>13. /\ \A m \in Names : m # p.rel => partial[m] # i
         /\ \A n, m \in Names : n # m /\ partial[n] = i => partial[m] # i
         /\ \A n \in Names : slot[n].ino # i /\ durable[n].ino # i
    BY <1>0, <1>2 DEF TInv, FolderShape, NameShape
  <2>14. FolderShape'
    <3>1. FolderShape
      BY DEF TInv
    <3> HIDE DEF i
    <3> QED BY <1>0, <1>s, <2>2, <2>11, <2>13, <3>1, FolderWrites
  <2>15. \A n \in Names : n # p.rel => partial'[n] = partial[n] /\ (partial[n] # NoIno => ino'[partial[n]] = ino[partial[n]])
    BY <1>0, <1>s, <2>11, <2>13 DEF FolderTypeOK
  <2> HIDE DEF p, i
  <2>16. plan(x, f)' = p
    BY <2>10 DEF p
  <2>17. PlanOK(x, f)'
    BY <1>0, <2>3, <2>9, <2>10, <2>16 DEF FileOK, PlanOK, Early, Wanted, p
  <2>18. ConsentOK(x, f)'
    BY <1>0, <2>3, <2>4, <2>9, <2>10, <2>16 DEF FileOK, ConsentOK, NeedsConsent, p
  <2>19. BatchOK(x, f)' /\ PrefixOK(x, f)' /\ SnapshotOK(x, f)'
    BY <2>3, <2>9, <2>10, <2>16 DEF BatchOK, PrefixOK, SnapshotOK
  <2>20. SourceOK(x, f)'
    <3>1. SourceOK(x, f) /\ plan(x, f) = p /\ src' = src /\ listed' = listed /\ rx'[x].pc = rx[x].pc
      BY <1>0, <2>10 DEF FileOK, p
    <3> QED BY <1>0, <2>8, <2>9, <2>10, <2>16, <3>1 DEF SourceOK
  <2>21. cur(x).file = NoFile
    BY <1>0, NoSessionFields
  <2>22. cur(x)'.ino = partial'[plan(x, f)'.rel] /\ ino'[cur(x)'.ino].data = cur(x)'.got
    BY <1>s, <2>8, <2>9, <2>10, <2>11, <2>16 DEF i
  <2> QED BY <1>0, <1>s, <1>2, <2>9, <2>10, <2>12, <2>14, <2>15, <2>16, <2>17, <2>18, <2>19, <2>20, <2>21, <2>22, DataStep DEF p, i
<1> QED BY <1>1, <1>2

\* What is open for writing.
LEMMA WritingFacts ==
  ASSUME TInv, NEW x \in Transfers, cur(x) # NoOpenFile, NEW f, f = cur(x).file
  PROVE  /\ rx[x].pc = "data" /\ f \in Files /\ f # NoFile /\ Empties(x) = {} /\ FileOK(x, f)
         /\ plan(x, f) \in Plan /\ plan(x, f).rel \in Names /\ plan(x, f).state = "todo" /\ plan(x, f).action \in Wanted
         /\ cur(x).sent = cur(x).got /\ cur(x) \in OpenFile
         /\ cur(x).ino = NoIno => cur(x).got = <<>>
         /\ cur(x).ino # NoIno =>
              /\ cur(x).ino = partial[plan(x, f).rel] /\ ino[cur(x).ino].data = cur(x).got /\ cur(x).ino \in Inodes
              /\ \A m \in Names : m # plan(x, f).rel => partial[m] # cur(x).ino
              /\ \A n \in Names : slot[n].ino # cur(x).ino /\ durable[n].ino # cur(x).ino
<1>1. /\ rx[x].pc = "data" /\ cur(x) \in OpenFile /\ SessionOK(x) /\ \A g \in Files : FileOK(x, g) /\ plan(x, g) \in Plan
  BY SessionTypes
<1>2. f # NoFile /\ f \in Files
  BY <1>1 DEF SessionOK, OpenFile
<1>3. plan(x, f) \in Plan /\ plan(x, f).rel \in Names /\ plan(x, f).state = "todo" /\ plan(x, f).action \in Wanted
  BY <1>1, <1>2 DEF FileOK, PlanOK, Plan
<1>4. /\ cur(x).ino # NoIno =>
              /\ cur(x).ino = partial[plan(x, f).rel] /\ ino[cur(x).ino].data = cur(x).got /\ cur(x).ino \in Inodes
      /\ cur(x).sent = cur(x).got /\ (cur(x).ino = NoIno => cur(x).got = <<>>) /\ Empties(x) = {}
  BY <1>1, <1>2 DEF SessionOK, OpenFile
<1>5. cur(x).ino # NoIno => /\ \A m \in Names : m # plan(x, f).rel => partial[m] # cur(x).ino
                            /\ \A n \in Names : slot[n].ino # cur(x).ino /\ durable[n].ino # cur(x).ino
  BY <1>3, <1>4 DEF TInv, FolderShape, NameShape
<1> QED BY <1>1, <1>2, <1>3, <1>4, <1>5

\* The inode of the open partial changes.
LEMMA OpenInodeWritten ==
  ASSUME TInv, NEW x \in Transfers, cur(x) # NoOpenFile, cur(x).ino # NoIno, NEW t \in INode, t.synced <= Len(t.data),
         ino' = [ino EXCEPT ![cur(x).ino] = t], UNCHANGED <<up, slot, durable, partial, meta, reported>>
  PROVE  /\ FolderTypeOK' /\ FolderShape' /\ ino'[cur(x).ino] = t
         /\ \A n \in Names : n # plan(x, cur(x).file).rel =>
               partial'[n] = partial[n] /\ (partial[n] # NoIno => ino'[partial[n]] = ino[partial[n]])
<1> DEFINE i == cur(x).ino
<1>1. /\ i \in Inodes /\ (\A m \in Names : m # plan(x, cur(x).file).rel => partial[m] # i)
      /\ (\A n \in Names : slot[n].ino # i /\ durable[n].ino # i)
  BY WritingFacts
<1>2. FolderTypeOK /\ FolderShape
  BY SessionTypes
<1> HIDE DEF i
<1>3. ino'[i] = t /\ \A j \in Inodes : j # i => ino'[j] = ino[j]
  BY <1>1, <1>2 DEF FolderTypeOK, i
<1>4. FolderTypeOK'
  BY <1>1, <1>2, <1>3 DEF FolderTypeOK, i
<1>5. \A n, m \in Names : n # m /\ partial'[n] = i => partial'[m] # i
  BY <1>1
<1>6. FolderShape'
  BY <1>1, <1>2, <1>3, <1>5, FolderWrites
<1>7. \A n \in Names : n # plan(x, cur(x).file).rel =>
          partial'[n] = partial[n] /\ (partial[n] # NoIno => ino'[partial[n]] = ino[partial[n]])
  BY <1>1, <1>2, <1>3 DEF FolderTypeOK
<1> QED BY <1>3, <1>4, <1>6, <1>7 DEF i

\* A step on the open file that keeps its plan.
LEMMA OpenFileStep ==
  ASSUME TInv, NEW x \in Transfers, cur(x) # NoOpenFile, NEW f, f = cur(x).file,
         rx' \in [Transfers -> Session], rx'[x].pc = rx[x].pc, rx'[x].acked = rx[x].acked,
         \A g \in Files : plan(x, g)' = plan(x, g), UNCHANGED <<up, src, listed, reported>>,
         FolderTypeOK', FolderShape',
         \A n \in Names : n # plan(x, f).rel =>
             partial'[n] = partial[n] /\ (partial[n] # NoIno => ino'[partial[n]] = ino[partial[n]]),
         cur(x)'.file = f, cur(x)'.ino # NoIno, cur(x)'.sent = cur(x)'.got,
         cur(x)'.ino = partial'[plan(x, f).rel], ino'[cur(x)'.ino].data = cur(x)'.got,
         listed[x][f].mtime = Len(src[x][f].versions) =>
             /\ Len(cur(x)'.sent) <= listed[x][f].size
             /\ cur(x)'.sent = SubSeq(src[x][f].versions[listed[x][f].mtime], 1, Len(cur(x)'.sent))
  PROVE  TInv'
<1>0. /\ rx[x].pc = "data" /\ f \in Files /\ f # NoFile /\ Empties(x) = {} /\ FileOK(x, f)
      /\ plan(x, f).state = "todo" /\ plan(x, f).action \in Wanted
  BY WritingFacts
<1>1. plan(x, f)' = plan(x, f) /\ rx'[x].pc = "data"
  BY <1>0
<1>2. PlanOK(x, f)'
  BY <1>0, <1>1 DEF FileOK, PlanOK
<1>3. ConsentOK(x, f)'
  BY <1>0, <1>1 DEF FileOK, ConsentOK, NeedsConsent
<1>4. BatchOK(x, f)' /\ PrefixOK(x, f)' /\ SnapshotOK(x, f)'
  BY <1>0, <1>1 DEF BatchOK, PrefixOK, SnapshotOK
<1>5. SourceOK(x, f)'
  <2>1. SourceOK(x, f)
    BY <1>0 DEF FileOK
  <2> QED BY <1>0, <1>1, <2>1 DEF SourceOK
<1> QED BY <1>0, <1>1, <1>2, <1>3, <1>4, <1>5, DataStep

\* The data file of a new partial is opened.
LEMMA OpenDataInv ==
  ASSUME TInv, NEW x \in Transfers, openData(x)
  PROVE  TInv'
<1>f. PICK f : f = cur(x).file
  OBVIOUS
<1> DEFINE n == plan(x, f).rel
<1>i. PICK i : i = PartialInode(n)
  OBVIOUS
<1>0. /\ f # NoFile /\ cur(x).ino = NoIno /\ CanCreate(n)
      /\ ino' = [ino EXCEPT ![i] = EmptyINode] /\ partial' = [partial EXCEPT ![n] = i]
      /\ rx' = [rx EXCEPT ![x].cur.ino = i]
      /\ UNCHANGED <<up, slot, durable, meta, src, listed, reported>>
  BY <1>f, <1>i DEF openData, create
<1>1. cur(x) # NoOpenFile
  BY <1>f, <1>0, NoSessionFields
<1>2. /\ rx[x].pc = "data" /\ f \in Files /\ FileOK(x, f) /\ n \in Names /\ cur(x).got = <<>> /\ cur(x).sent = cur(x).got
      /\ cur(x) \in OpenFile
  BY <1>f, <1>0, <1>1, WritingFacts
<1>3. /\ i \in Inodes /\ i # NoIno
      /\ \A m \in Names : slot[m].ino # i /\ durable[m].ino # i /\ (m # n => partial[m] # i)
  BY <1>0, <1>i, <1>2, PartialInodeUnused
<1>4. FolderTypeOK /\ FolderShape /\ rx \in [Transfers -> Session] /\ rx[x] \in Session /\ rx[x].cur = cur(x)
  BY SessionTypes DEF cur
<1>5. PICK c : c = [cur(x) EXCEPT !.ino = i]
  OBVIOUS
<1>6. c \in OpenFile /\ c.file = f /\ c.ino = i /\ c.sent = <<>> /\ c.got = <<>>
  BY <1>f, <1>2, <1>3, <1>5 DEF OpenFile
<1>7. rx' = [rx EXCEPT ![x].cur = c]
  BY <1>0, <1>4, <1>5 DEF Session, OpenFile
<1>8. /\ rx' \in [Transfers -> Session] /\ rx'[x].pc = rx[x].pc
      /\ rx'[x].acked = rx[x].acked /\ cur(x)' = c /\ \A g \in Files : plan(x, g)' = plan(x, g)
  BY <1>6, <1>7, CurChanges
<1>9. EmptyINode \in INode /\ EmptyINode.data = <<>> /\ EmptyINode.synced <= Len(EmptyINode.data)
  BY FreshRecords DEF EmptyINode
<1> HIDE DEF n
<1>10. /\ ino'[i] = EmptyINode /\ partial'[n] = i
       /\ \A m \in Names : m # n => partial'[m] = partial[m]
       /\ \A j \in Inodes : j # i => ino'[j] = ino[j]
  BY <1>0, <1>2, <1>3, <1>4 DEF FolderTypeOK
<1>11. FolderTypeOK'
  BY <1>0, <1>3, <1>4, <1>9, <1>10 DEF FolderTypeOK
<1>12. FolderShape'
  <2>1. UNCHANGED <<slot, durable, reported>>
    BY <1>0
  <2>2. \A m \in Names : partial'[m] = partial[m] \/ partial'[m] = i
    BY <1>10
  <2>3. \A k, m \in Names : k # m /\ partial'[k] = i => partial'[m] # i
    BY <1>3, <1>10
  <2> QED BY <1>3, <1>4, <1>10, <2>1, <2>2, <2>3, FolderWrites
<1>13. \A m \in Names : m # n => partial'[m] = partial[m] /\ (partial[m] # NoIno => ino'[partial[m]] = ino[partial[m]])
  BY <1>3, <1>4, <1>10 DEF FolderTypeOK
<1>14. listed[x][f].mtime = Len(src[x][f].versions) =>
             /\ Len(c.sent) <= listed[x][f].size
             /\ c.sent = SubSeq(src[x][f].versions[listed[x][f].mtime], 1, Len(c.sent))
  BY <1>f, <1>2, <1>6 DEF FileOK, SourceOK
<1>15. /\ cur(x)'.file = f /\ cur(x)'.ino # NoIno /\ cur(x)'.sent = cur(x)'.got
       /\ cur(x)'.ino = partial'[n] /\ ino'[cur(x)'.ino].data = cur(x)'.got
  BY <1>3, <1>6, <1>8, <1>9, <1>10
<1>16. listed[x][f].mtime = Len(src[x][f].versions) =>
             /\ Len(cur(x)'.sent) <= listed[x][f].size
             /\ cur(x)'.sent = SubSeq(src[x][f].versions[listed[x][f].mtime], 1, Len(cur(x)'.sent))
  BY <1>8, <1>14
<1> QED BY <1>f, <1>0, <1>1, <1>8, <1>11, <1>12, <1>13, <1>15, <1>16, OpenFileStep DEF n

\* A block is read, written and hashed.
LEMMA SendBlockInv ==
  ASSUME TInv, NEW x \in Transfers, sendBlock(x)
  PROVE  TInv'
<1>f. PICK f : f = cur(x).file
  OBVIOUS
<1> DEFINE k == Len(cur(x).sent)
           d == data(x, f)
           b == d[k + 1]
<1>0. /\ cur(x).ino # NoIno /\ listed[x][f].size - k > 0 /\ Len(d) > k
      /\ ino' = [ino EXCEPT ![cur(x).ino] = Written(ino[cur(x).ino], Len(cur(x).got), b)]
      /\ rx' = [rx EXCEPT ![x].cur.sent = Append(@, b), ![x].cur.got = Append(@, b)]
      /\ UNCHANGED <<up, names, src, listed, reported>>
  BY <1>f DEF sendBlock, Writing, Remaining, Readable, CanStart, Sent
<1>s. UNCHANGED <<up, slot, durable, partial, meta, src, listed, reported>>
  BY <1>0 DEF names
<1>1. cur(x) # NoOpenFile
  BY <1>0, NoSessionFields
<1>2. /\ rx[x].pc = "data" /\ f \in Files /\ FileOK(x, f) /\ cur(x).sent = cur(x).got /\ cur(x) \in OpenFile
      /\ cur(x).ino = partial[plan(x, f).rel] /\ ino[cur(x).ino].data = cur(x).got /\ cur(x).ino \in Inodes
  BY <1>f, <1>0, <1>1, WritingFacts
<1>3. FolderTypeOK /\ TransferTypeOK /\ rx \in [Transfers -> Session] /\ rx[x] \in Session /\ rx[x].cur = cur(x)
  BY SessionTypes DEF cur
<1>4. /\ listed[x][f] \in Entry /\ d \in Data /\ d = src[x][f].versions[Len(src[x][f].versions)]
      /\ Len(src[x][f].versions) \in Nat \ {0}
  BY <1>2, <1>3, SourceTypes
<1>5. cur(x).sent \in Data /\ k \in Nat /\ Len(d) \in Nat /\ d \in Seq(Block)
  BY <1>2, <1>4, DataIsSeq, FolderAssumption DEF OpenFile
<1>6. b \in Block /\ k < MaxSize /\ listed[x][f].size \in Nat /\ k + 1 <= listed[x][f].size
  <2>1. listed[x][f].size \in 0..MaxSize
    BY <1>4 DEF Entry
  <2>2. k + 1 \in 1..Len(d)
    BY <1>0, <1>5
  <2>3. b \in Block
    BY <1>5, <2>2, ElementOfSeq
  <2> HIDE DEF b, d, k
  <2> QED BY <1>0, <1>5, <2>1, <2>3, FolderAssumption
<1>7. ino[cur(x).ino] \in INode /\ ino[cur(x).ino].synced <= Len(ino[cur(x).ino].data) /\ Len(ino[cur(x).ino].data) = k
  BY <1>2, <1>3 DEF FolderTypeOK
<1>8. PICK t : t = Written(ino[cur(x).ino], Len(cur(x).got), b)
  OBVIOUS
<1>9. PICK s : s = Append(cur(x).sent, b)
  OBVIOUS
<1> HIDE DEF b, d, k
<1>10. t \in INode /\ t.data = s /\ t.synced <= Len(t.data)
  <2>1. PICK j \in INode : j = ino[cur(x).ino]
    BY <1>7
  <2>2. Len(j.data) < MaxSize /\ j.synced <= Len(j.data) /\ t = Written(j, Len(j.data), b) /\ s = Append(j.data, b)
    BY <1>2, <1>6, <1>7, <1>8, <1>9, <2>1
  <2> QED BY <1>6, <2>2, WrittenRecord
<1>11. s \in Data /\ Len(s) = k + 1
  <2>1. t.data \in Data
    BY <1>10 DEF INode
  <2> QED BY <1>5, <1>6, <1>9, <1>10, <2>1, DataIsSeq DEF k
<1>12. PICK c : c = [cur(x) EXCEPT !.sent = s, !.got = s]
  OBVIOUS
<1>13. c \in OpenFile /\ c.file = f /\ c.ino = cur(x).ino /\ c.sent = s /\ c.got = s
  BY <1>f, <1>2, <1>11, <1>12 DEF OpenFile
<1>14. rx' = [rx EXCEPT ![x].cur = c]
  BY <1>0, <1>2, <1>3, <1>9, <1>12 DEF Session, OpenFile
<1>15. /\ rx' \in [Transfers -> Session] /\ rx'[x].pc = rx[x].pc
       /\ rx'[x].acked = rx[x].acked /\ cur(x)' = c /\ \A g \in Files : plan(x, g)' = plan(x, g)
  BY <1>13, <1>14, CurChanges
<1>16. ino' = [ino EXCEPT ![cur(x).ino] = t]
  BY <1>0, <1>8 DEF b
<1>17. /\ FolderTypeOK' /\ FolderShape' /\ ino'[cur(x).ino] = t
       /\ \A n \in Names : n # plan(x, f).rel =>
               partial'[n] = partial[n] /\ (partial[n] # NoIno => ino'[partial[n]] = ino[partial[n]])
  BY <1>f, <1>0, <1>s, <1>1, <1>10, <1>16, OpenInodeWritten
<1>18. /\ cur(x)'.file = f /\ cur(x)'.ino # NoIno /\ cur(x)'.sent = cur(x)'.got
       /\ cur(x)'.ino = partial'[plan(x, f).rel] /\ ino'[cur(x)'.ino].data = cur(x)'.got
  BY <1>0, <1>s, <1>2, <1>10, <1>13, <1>15, <1>17
<1>19. ASSUME listed[x][f].mtime = Len(src[x][f].versions)
       PROVE  /\ Len(cur(x)'.sent) <= listed[x][f].size
              /\ cur(x)'.sent = SubSeq(src[x][f].versions[listed[x][f].mtime], 1, Len(cur(x)'.sent))
  <2>1. cur(x).sent = SubSeq(d, 1, k)
    BY <1>f, <1>2, <1>4, <1>19 DEF FileOK, SourceOK, k
  <2>2. s = SubSeq(d, 1, k + 1)
    <3>1. k < Len(d) /\ b = d[k + 1] /\ s = Append(SubSeq(d, 1, k), b)
      BY <1>0, <1>5, <1>9, <2>1 DEF b
    <3> QED BY <1>4, <1>5, <3>1, PrefixOfPrefix
  <2> QED BY <1>4, <1>6, <1>11, <1>13, <1>15, <1>19, <2>2
<1> QED BY <1>f, <1>s, <1>1, <1>15, <1>17, <1>18, <1>19, OpenFileStep

\* The open partial is synced.
LEMMA PeriodicSyncInv ==
  ASSUME TInv, NEW x \in Transfers, periodicSync(x)
  PROVE  TInv'
<1>f. PICK f : f = cur(x).file
  OBVIOUS
<1>0. /\ cur(x).ino # NoIno /\ ino' = [ino EXCEPT ![cur(x).ino] = Synced(ino[cur(x).ino])]
      /\ UNCHANGED <<up, names, src, listed, rx, reported>>
  BY DEF periodicSync, Writing
<1>s. UNCHANGED <<up, slot, durable, partial, meta, src, listed, rx, reported>>
  BY <1>0 DEF names
<1>1. cur(x) # NoOpenFile
  BY <1>0, NoSessionFields
<1>2. /\ rx[x].pc = "data" /\ f \in Files /\ FileOK(x, f) /\ cur(x).sent = cur(x).got
      /\ cur(x).ino = partial[plan(x, f).rel] /\ ino[cur(x).ino].data = cur(x).got /\ cur(x).ino \in Inodes
  BY <1>f, <1>0, <1>1, WritingFacts
<1>3. FolderTypeOK /\ rx \in [Transfers -> Session]
  BY SessionTypes
<1>7. ino[cur(x).ino] \in INode /\ Len(ino[cur(x).ino].data) \in 0..MaxSize
  BY <1>2, <1>3, DataIsSeq DEF FolderTypeOK, INode
<1>8. PICK t : t = Synced(ino[cur(x).ino])
  OBVIOUS
<1>10. t \in INode /\ t.data = ino[cur(x).ino].data /\ t.synced = Len(t.data) /\ t.synced <= Len(t.data)
  BY <1>7, <1>8, FolderAssumption DEF Synced, INode
<1>15. /\ rx' \in [Transfers -> Session] /\ rx'[x].pc = rx[x].pc
       /\ rx'[x].acked = rx[x].acked /\ cur(x)' = cur(x) /\ \A g \in Files : plan(x, g)' = plan(x, g)
  BY <1>s, <1>3 DEF cur, plan
<1>17. /\ FolderTypeOK' /\ FolderShape' /\ ino'[cur(x).ino] = t
       /\ \A n \in Names : n # plan(x, f).rel =>
               partial'[n] = partial[n] /\ (partial[n] # NoIno => ino'[partial[n]] = ino[partial[n]])
  BY <1>f, <1>0, <1>s, <1>1, <1>8, <1>10, OpenInodeWritten
<1>18. /\ cur(x)'.file = f /\ cur(x)'.ino # NoIno /\ cur(x)'.sent = cur(x)'.got
       /\ cur(x)'.ino = partial'[plan(x, f).rel] /\ ino'[cur(x)'.ino].data = cur(x)'.got
  BY <1>f, <1>0, <1>s, <1>2, <1>10, <1>15, <1>17
<1>19. listed[x][f].mtime = Len(src[x][f].versions) =>
           /\ Len(cur(x)'.sent) <= listed[x][f].size
           /\ cur(x)'.sent = SubSeq(src[x][f].versions[listed[x][f].mtime], 1, Len(cur(x)'.sent))
  BY <1>f, <1>2, <1>15 DEF FileOK, SourceOK
<1> QED BY <1>f, <1>s, <1>1, <1>15, <1>17, <1>18, <1>19, OpenFileStep

\* A step that closes the open file with the plan q.
LEMMA CloseFileStep ==
  ASSUME TInv, NEW x \in Transfers, cur(x) # NoOpenFile, NEW f, f = cur(x).file, NEW q \in Plan,
         rx' \in [Transfers -> Session], rx'[x].pc = rx[x].pc, rx'[x].acked = rx[x].acked,
         cur(x)' = NoOpenFile, plan(x, f)' = q, \A g \in Files : g # f => plan(x, g)' = plan(x, g),
         q.rel = plan(x, f).rel, q.action = plan(x, f).action, q.own = plan(x, f).own, q.off = plan(x, f).off,
         q.ownPrefix = plan(x, f).ownPrefix, q.disp = plan(x, f).disp, q.seen = plan(x, f).seen,
         q.state \in {"pending", "skipped"}, UNCHANGED <<up, src, listed, reported>>,
         FolderTypeOK', FolderShape',
         \A n \in Names : n # plan(x, f).rel =>
             partial'[n] = partial[n] /\ (partial[n] # NoIno => ino'[partial[n]] = ino[partial[n]]),
         q.state = "pending" =>
             /\ q.ino \in Inodes /\ partial'[q.rel] = q.ino
             /\ ino'[q.ino].verified /\ ino'[q.ino].data = ino'[q.ino].root
             /\ ~q.changed => ino'[q.ino].root = src[x][f].versions[listed[x][f].mtime]
  PROVE  TInv'
<1>0. /\ rx[x].pc = "data" /\ f \in Files /\ f # NoFile /\ FileOK(x, f)
      /\ plan(x, f).state = "todo" /\ plan(x, f).action \in Wanted
  BY WritingFacts
<1>1. NoOpenFile \in OpenFile /\ NoOpenFile.file = NoFile /\ NoOpenFile.sent = <<>> /\ NoOpenFile.got = <<>>
  BY FreshRecords, NoSessionFields
<1>2. /\ rx' \in [Transfers -> Session] /\ rx'[x].pc = "data" /\ rx'[x].acked = rx[x].acked
      /\ cur(x)' = NoOpenFile /\ plan(x, f)' = q /\ \A g \in Files : g # f => plan(x, g)' = plan(x, g)
  BY <1>0
<1>3. PlanOK(x, f)'
  BY <1>0, <1>1, <1>2 DEF FileOK, PlanOK, Wanted, Early
<1>4. ConsentOK(x, f)'
  BY <1>0, <1>1, <1>2 DEF FileOK, ConsentOK, NeedsConsent
<1>5. BatchOK(x, f)' /\ PrefixOK(x, f)' /\ SnapshotOK(x, f)'
  BY <1>0, <1>1, <1>2 DEF BatchOK, PrefixOK, SnapshotOK
<1>6. SourceOK(x, f)'
  <2>1. /\ SourceOK(x, f) /\ src'[x][f] = src[x][f] /\ listed'[x][f] = listed[x][f] /\ cur(x)'.file # f
        /\ plan(x, f)'.own = plan(x, f).own /\ plan(x, f)'.off = plan(x, f).off
        /\ plan(x, f)'.ownPrefix = plan(x, f).ownPrefix /\ rx'[x].pc = "data" /\ rx[x].pc = "data"
    BY <1>0, <1>1, <1>2 DEF FileOK
  <2> QED BY <1>0, <2>1, SourceKept
<1> QED BY <1>0, <1>1, <1>2, <1>3, <1>4, <1>5, <1>6, DataStep

\* The source of the open file cannot be read on.
LEMMA DropFileInv ==
  ASSUME TInv, NEW x \in Transfers, dropFile(x)
  PROVE  TInv'
<1>f. PICK f : f = cur(x).file
  OBVIOUS
<1> DEFINE p == plan(x, f)
<1>0. /\ cur(x).ino # NoIno
      /\ partial' = [n \in Names |-> IF n \in {p.rel} THEN NoIno ELSE partial[n]]
      /\ meta' = [n \in Names |-> IF n \in {p.rel} THEN NoMeta ELSE meta[n]]
      /\ rx' = [rx EXCEPT ![x].cur = NoOpenFile, ![x].plan[f].state = "skipped"]
      /\ UNCHANGED <<up, ino, slot, durable, src, listed, reported>>
  BY <1>f DEF dropFile, Writing, remove
<1>1. cur(x) # NoOpenFile
  BY <1>0, NoSessionFields
<1>2. f \in Files /\ p \in Plan
  BY <1>f, <1>1, WritingFacts
<1>3. FolderTypeOK /\ FolderShape /\ rx \in [Transfers -> Session] /\ rx[x] \in Session /\ rx[x].plan \in [Files -> Plan]
      /\ rx[x].plan[f] = p
  BY SessionTypes DEF plan
<1>4. PICK q : q = [p EXCEPT !.state = "skipped"]
  OBVIOUS
<1>5. rx' = [rx EXCEPT ![x].cur = NoOpenFile, ![x].plan[f] = q]
  BY <1>0, <1>2, <1>3, <1>4 DEF Session, Plan
<1> HIDE DEF p
<1>6. /\ q \in Plan /\ q.rel = p.rel /\ q.own = p.own /\ q.ownPrefix = p.ownPrefix /\ q.off = p.off /\ q.disp = p.disp
      /\ q.action = p.action /\ q.state = "skipped" /\ q.seen = p.seen
  BY <1>2, <1>4 DEF Plan
<1>7. FolderTypeOK'
  BY <1>0, <1>3 DEF FolderTypeOK
<1>8. FolderShape'
  BY <1>0, <1>3, FolderSame
<1>9. \A n \in Names : n # p.rel => partial'[n] = partial[n] /\ (partial[n] # NoIno => ino'[partial[n]] = ino[partial[n]])
  BY <1>0
<1>10. UNCHANGED <<up, src, listed, reported>> /\ q.state # "pending" /\ q.state \in {"pending", "skipped"}
  BY <1>0, <1>6
<1>11. /\ rx' \in [Transfers -> Session] /\ rx'[x].pc = rx[x].pc /\ rx'[x].acked = rx[x].acked
       /\ cur(x)' = NoOpenFile /\ plan(x, f)' = q /\ \A g \in Files : g # f => plan(x, g)' = plan(x, g)
  <2>1. q \in Plan /\ NoOpenFile \in OpenFile /\ f \in Files
    BY <1>2, <1>6, FreshRecords
  <2> QED BY <1>5, <2>1, PlanChanges
<1> QED BY <1>f, <1>1, <1>11, <1>6, <1>7, <1>8, <1>9, <1>10, CloseFileStep DEF p

\* The hashes of both sides are compared.
LEMMA FinalizeInv ==
  ASSUME TInv, NEW x \in Transfers, finalize(x)
  PROVE  TInv'
<1>f. PICK f : f = cur(x).file
  OBVIOUS
<1>i. PICK i : i = cur(x).ino
  OBVIOUS
<1> DEFINE p == plan(x, f)
<1>0. i # NoIno /\ Remaining(x) = 0 /\ UNCHANGED <<up, slot, durable, src, listed, reported>>
  BY <1>i DEF finalize, Writing
<1>1. cur(x) # NoOpenFile
  BY <1>i, <1>0, NoSessionFields
<1>2. /\ f \in Files /\ p \in Plan /\ FileOK(x, f) /\ rx[x].pc = "data"
      /\ cur(x).sent = cur(x).got /\ cur(x) \in OpenFile
      /\ i = partial[p.rel] /\ ino[i].data = cur(x).got /\ i \in Inodes
  BY <1>f, <1>i, <1>0, <1>1, WritingFacts
<1>3. /\ UNCHANGED <<partial, meta>>
      /\ rx' = [rx EXCEPT ![x].cur = NoOpenFile,
                          ![x].plan[f] = [p EXCEPT !.state = "pending", !.ino = i, !.changed = Changed(x, f)]]
      /\ ino' = [j \in Inodes |->
                   LET t == IF j = partial[p.rel] THEN [ino[j] EXCEPT !.mtime = listed[x][f].mtime] ELSE ino[j]
                   IN  IF j = i THEN [t EXCEPT !.verified = TRUE, !.root = cur(x).sent] ELSE t]
  BY <1>f, <1>i, <1>2 DEF finalize
<1>u. UNCHANGED <<partial, meta>>
  BY <1>3
<1>4. FolderTypeOK /\ TransferTypeOK
  BY SessionTypes
<1>5. PICK t : t = [ino[i] EXCEPT !.mtime = listed[x][f].mtime, !.verified = TRUE, !.root = cur(x).sent]
  OBVIOUS
<1>6. ino' = [ino EXCEPT ![i] = t]
  <2>1. ino[i] \in INode /\ ino \in [Inodes -> INode]
    BY <1>2, <1>4 DEF FolderTypeOK
  <2>2. t = [[ino[i] EXCEPT !.mtime = listed[x][f].mtime] EXCEPT !.verified = TRUE, !.root = cur(x).sent]
    BY <1>5, <2>1 DEF INode
  <2>3. ASSUME NEW j \in Inodes PROVE ino'[j] = [ino EXCEPT ![i] = t][j]
    BY <1>2, <1>3, <2>1, <2>2
  <2>4. ino' = [j \in Inodes |-> ino'[j]]
    BY <1>3
  <2> QED BY <2>1, <2>3, <2>4
<1>7. /\ t \in INode /\ t.data = ino[i].data /\ t.synced = ino[i].synced /\ t.verified /\ t.root = cur(x).sent
      /\ t.synced <= Len(t.data)
  <2>1. ino[i] \in INode /\ ino[i].synced <= Len(ino[i].data) /\ cur(x).sent \in Data /\ listed[x][f].mtime \in 0..MaxTime
    BY <1>2, <1>4, SourceTypes DEF FolderTypeOK, OpenFile, Entry
  <2> QED BY <1>5, <2>1 DEF INode
<1>8. PICK q : q = [p EXCEPT !.state = "pending", !.ino = i, !.changed = Changed(x, f)]
  OBVIOUS
<1>9. /\ q \in Plan /\ q.rel = p.rel /\ q.own = p.own /\ q.ownPrefix = p.ownPrefix /\ q.off = p.off /\ q.disp = p.disp
      /\ q.action = p.action /\ q.state = "pending" /\ q.seen = p.seen /\ q.ino = i /\ q.changed = Changed(x, f)
  <2>1. Changed(x, f) \in BOOLEAN
    BY DEF Changed
  <2> HIDE DEF p
  <2> QED BY <1>2, <1>8, <2>1 DEF Plan
<1>10. /\ FolderTypeOK' /\ FolderShape' /\ ino'[i] = t
       /\ \A n \in Names : n # p.rel =>
               partial'[n] = partial[n] /\ (partial[n] # NoIno => ino'[partial[n]] = ino[partial[n]])
  <2>1. t \in INode /\ t.synced <= Len(t.data) /\ cur(x).ino # NoIno
    BY <1>i, <1>0, <1>7
  <2>2. ino' = [ino EXCEPT ![cur(x).ino] = t]
    BY <1>i, <1>6
  <2>3. UNCHANGED <<up, slot, durable, partial, meta, reported>>
    BY <1>0, <1>u
  <2>4. /\ FolderTypeOK' /\ FolderShape' /\ ino'[cur(x).ino] = t
        /\ \A n \in Names : n # plan(x, cur(x).file).rel =>
               partial'[n] = partial[n] /\ (partial[n] # NoIno => ino'[partial[n]] = ino[partial[n]])
    BY <1>1, <2>1, <2>2, <2>3, OpenInodeWritten
  <2> QED BY <1>f, <1>i, <2>4
<1>11. ASSUME ~q.changed PROVE cur(x).sent = src[x][f].versions[listed[x][f].mtime]
  <2> DEFINE d == data(x, f)
  <2>1. /\ d \in Data /\ d = src[x][f].versions[Len(src[x][f].versions)] /\ mtime(x, f) = Len(src[x][f].versions)
        /\ listed[x][f] \in Entry
    BY <1>2, <1>4, SourceTypes
  <2>2. Len(d) = listed[x][f].size /\ mtime(x, f) = listed[x][f].mtime
    BY <1>9, <1>11 DEF Changed
  <2>3. Len(cur(x).sent) \in Nat /\ listed[x][f].size \in Nat
    BY <1>2, <2>1, DataIsSeq, FolderAssumption DEF OpenFile, Entry
  <2>4. Len(cur(x).sent) = Len(d)
    BY <1>f, <1>0, <2>2, <2>3 DEF Remaining, Sent
  <2>5. cur(x).sent = SubSeq(d, 1, Len(cur(x).sent))
    BY <1>f, <1>2, <2>1, <2>2 DEF FileOK, SourceOK
  <2> HIDE DEF d
  <2>6. cur(x).sent = d
    BY <2>1, <2>4, <2>5, WholePrefix
  <2> QED BY <2>1, <2>2, <2>6 DEF d
<1> HIDE DEF p
<1>12. /\ q.ino \in Inodes /\ partial'[q.rel] = q.ino
       /\ ino'[q.ino].verified /\ ino'[q.ino].data = ino'[q.ino].root
       /\ ~q.changed => ino'[q.ino].root = src[x][f].versions[listed[x][f].mtime]
  BY <1>2, <1>u, <1>7, <1>9, <1>10, <1>11
<1>13. rx' = [rx EXCEPT ![x].cur = NoOpenFile, ![x].plan[f] = q]
  BY <1>3, <1>8
<1>14. /\ rx' \in [Transfers -> Session] /\ rx'[x].pc = rx[x].pc /\ rx'[x].acked = rx[x].acked
       /\ cur(x)' = NoOpenFile /\ plan(x, f)' = q /\ \A g \in Files : g # f => plan(x, g)' = plan(x, g)
  <2>1. q \in Plan /\ NoOpenFile \in OpenFile /\ f \in Files
    BY <1>2, <1>9, FreshRecords
  <2> QED BY <1>13, <2>1, PlanChanges
<1> QED BY <1>f, <1>0, <1>1, <1>9, <1>10, <1>12, <1>14, CloseFileStep DEF p

\* A write fails.
LEMMA WriteFailsInv ==
  ASSUME TInv, NEW x \in Transfers, NEW full \in BOOLEAN, writeFails(x, full)
  PROVE  TInv'
<1>f. PICK f : f = cur(x).file
  OBVIOUS
<1> DEFINE p == plan(x, f)
<1>0. /\ cur(x).ino # NoIno /\ rx' = [rx EXCEPT ![x] = Failed(rx[x])]
      /\ UNCHANGED <<up, ino, slot, durable, src, listed, reported>>
      /\ IF full THEN remove({p.rel}) ELSE UNCHANGED <<partial, meta>>
  BY <1>f DEF writeFails, Writing
<1>1. cur(x) # NoOpenFile
  BY <1>0, NoSessionFields
<1>2. f \in Files /\ p.state = "todo" /\ rx[x].pc = "data"
  BY <1>f, <1>1, WritingFacts
<1>3. /\ FolderTypeOK /\ FolderShape /\ TransferTypeOK
      /\ \A g \in Files : plan(x, g).rel \in Names
  BY SessionTypes
<1>4. /\ \A n \in Names : n # p.rel => partial'[n] = partial[n]
      /\ \A n \in Names : partial'[n] \in {partial[n], NoIno}
      /\ partial' \in [Names -> Inodes \cup {NoIno}] /\ meta' \in [Names -> Entry \cup {NoMeta}]
  BY <1>0, <1>3 DEF remove, FolderTypeOK
<1>5. \A g \in Files : plan(x, g).state = "pending" =>
           partial'[plan(x, g).rel] = partial[plan(x, g).rel] /\ ino'[plan(x, g).ino] = ino[plan(x, g).ino]
  <2>1. \A g \in Files : plan(x, g).state = "pending" => plan(x, g).rel # p.rel
    BY <1>2, RelDistinct
  <2> QED BY <1>0, <1>3, <1>4, <2>1
<1>6. /\ rx' \in [Transfers -> Session] /\ cur(x)' = NoOpenFile
      /\ SessionOK(x)' /\ \A g \in Files : FileOK(x, g)'
  BY <1>0, <1>2, <1>5, FailedShape
<1>7. FolderTypeOK' /\ FolderShape'
  BY <1>0, <1>3, <1>4, FolderSame DEF FolderTypeOK
<1>8. /\ src' \in [Transfers -> [Files -> Source]] /\ listed' \in [Transfers -> [Files -> Entry]]
      /\ reported' \in [Names -> Data \cup {NoReport}]
  BY <1>0, <1>3 DEF TransferTypeOK
<1> QED BY <1>6, <1>7, <1>8, Assembled

-----------------------------------------------------------------------------
\* The receiver turns to committing what it has.
LEMMA FlushInv ==
  ASSUME TInv, NEW x \in Transfers, flush(x)
  PROVE  TInv'
<1> DEFINE pc1 == IF Pending(x) = {} THEN "finish" ELSE "sync"
           s == [rx[x] EXCEPT !.pc = pc1, !.then = AfterData(x)]
<1>0. /\ rx[x].pc = "data" /\ cur(x) = NoOpenFile /\ rx' = [rx EXCEPT ![x].pc = pc1, ![x].then = AfterData(x)]
      /\ (Asked(x) # {} => Cardinality(Pending(x)) >= commitMaxFiles)
      /\ UNCHANGED <<folder, src, listed, reported>>
  BY DEF flush, AllIn
<1>1. /\ TransferTypeOK /\ rx \in [Transfers -> Session] /\ rx[x] \in Session /\ SessionOK(x) /\ rx[x].cur = cur(x)
      /\ \A f \in Files : FileOK(x, f) /\ f # NoFile
  BY SessionTypes DEF cur
<1>2. s \in Session /\ s.pc = pc1 /\ s.then = AfterData(x) /\ s.plan = rx[x].plan /\ s.cur = rx[x].cur /\ s.acked = rx[x].acked
  BY <1>1 DEF Session, AfterData
<1>3. rx' = [rx EXCEPT ![x] = s]
  BY <1>0, <1>1 DEF Session
<1> HIDE DEF s
<1>4. /\ rx' \in [Transfers -> Session] /\ rx'[x].pc = pc1 /\ rx'[x].then = AfterData(x)
      /\ rx'[x].acked = rx[x].acked /\ cur(x)' = NoOpenFile /\ \A f \in Files : plan(x, f)' = plan(x, f)
  <2>1. s \in Session
    BY <1>2
  <2>2. rx' \in [Transfers -> Session] /\ rx'[x] = s /\ cur(x)' = s.cur /\ \A f \in Files : plan(x, f)' = s.plan[f]
    BY <1>3, <2>1 DEF TInv, TransferTypeOK, cur, plan
  <2> QED BY <1>0, <1>1, <1>2, <2>2 DEF plan
<1>5. pc1 = "finish" => Asked(x) = {}
  <2>1. ASSUME Pending(x) = {} PROVE Asked(x) = {}
    <3>1. Cardinality(Pending(x)) = 0
      BY <2>1, FS_EmptySet
    <3> QED BY <1>0, <3>1, TransferAssumption
  <2> QED BY <2>1
<1>6. up' = up /\ ino' = ino /\ slot' = slot /\ partial' = partial /\ src' = src /\ listed' = listed
  BY <1>0 DEF folder, names
<1>7. up /\ ~rx[x].acked
  BY <1>0, <1>1 DEF SessionOK
<1>8. Asked(x)' = Asked(x)
  BY <1>4 DEF Asked
<1>9. SessionOK(x)'
  <2>1. AfterData(x) = "finish" => Asked(x) = {}
    BY DEF AfterData, AllIn
  <2> QED BY <1>4, <1>6, <1>7, <1>8, <2>1, NoSessionFields DEF SessionOK
<1>10. ASSUME NEW f \in Files PROVE FileOK(x, f)'
  <2>0. /\ PlanOK(x, f) /\ ConsentOK(x, f) /\ BatchOK(x, f) /\ PrefixOK(x, f) /\ SourceOK(x, f)
        /\ SnapshotOK(x, f) /\ f # NoFile /\ plan(x, f)' = plan(x, f)
    BY <1>1, <1>4 DEF FileOK
  <2>1. PlanOK(x, f)'
    <3>1. pc1 = "finish" => plan(x, f).state # "pending"
      BY DEF Pending
    <3>2. pc1 = "finish" => plan(x, f).action = "skip" \/ plan(x, f).state \in {"saved", "skipped"}
      <4>1. plan(x, f) \in Plan /\ plan(x, f).action # "none" /\ plan(x, f).state \notin {"placed", "failed"}
        BY <1>0, <2>0, SessionTypes DEF PlanOK, Early
      <4>2. pc1 = "finish" => ~(plan(x, f).action \in Wanted /\ plan(x, f).state = "todo")
        BY <1>5 DEF Asked, Wanted
      <4>3. plan(x, f).action \in {"none", "send", "resume", "skip"}
            /\ plan(x, f).state \in {"todo", "pending", "placed", "saved", "failed", "skipped"}
        BY <4>1 DEF Plan
      <4> HIDE DEF pc1
      <4> QED BY <3>1, <4>1, <4>2, <4>3 DEF Wanted
    <3>3. pc1 \in {"finish", "sync"}
      OBVIOUS
    <3> HIDE DEF pc1
    <3> QED BY <1>0, <1>4, <1>7, <2>0, <3>1, <3>2, <3>3, NoSessionFields DEF PlanOK, Early
  <2>g. Going(x) /\ cur(x)' = cur(x)
    BY <1>0, <1>4 DEF Going
  <2>2. ConsentOK(x, f)'
    BY <2>0, <2>g DEF ConsentOK, NeedsConsent
  <2>3. BatchOK(x, f)'
    BY <1>0, <1>4, <1>6, <2>0 DEF BatchOK, PlanOK
  <2>4. PrefixOK(x, f)'
    BY <1>6, <2>0, <2>g DEF PrefixOK, Size
  <2>5. SourceOK(x, f)'
    BY <1>0, <1>6, <2>0, <2>g DEF SourceOK
  <2>6. SnapshotOK(x, f)' /\ SameOK(x, f)'
    BY <1>4, <1>6, <2>0 DEF SnapshotOK, SameOK
  <2> QED BY <2>1, <2>2, <2>3, <2>4, <2>5, <2>6 DEF FileOK
<1>11. src' \in [Transfers -> [Files -> Source]] /\ listed' \in [Transfers -> [Files -> Entry]]
  BY <1>0, <1>1 DEF TransferTypeOK
<1> QED BY <1>0, <1>4, <1>9, <1>10, <1>11, FolderKept, Assembled

\* The receiver acks.
LEMMA FinishRecvInv ==
  ASSUME TInv, NEW x \in Transfers, finishRecv(x)
  PROVE  TInv'
<1> DEFINE s == [rx[x] EXCEPT !.pc = "off", !.acked = TRUE]
<1>0. rx[x].pc = "finish" /\ UNCHANGED <<folder, src, listed, reported>>
  BY DEF finishRecv
<1>1. CASE rx' = [rx EXCEPT ![x] = NoSession]
  BY <1>0, <1>1, SessionEndsInv
<1>2. CASE rx' = [rx EXCEPT ![x] = [rx[x] EXCEPT !.pc = "off", !.acked = TRUE]]
  <2>1. /\ TransferTypeOK /\ rx \in [Transfers -> Session] /\ rx[x] \in Session /\ SessionOK(x) /\ rx[x].cur = cur(x)
        /\ (\A f \in Files : FileOK(x, f) /\ f # NoFile) /\ cur(x) = NoOpenFile
    BY <1>0, SessionTypes DEF cur
  <2>2. s \in Session /\ s.pc = "off" /\ s.then = rx[x].then /\ s.plan = rx[x].plan /\ s.cur = rx[x].cur /\ s.acked
    BY <2>1 DEF Session
  <2>3. rx' = [rx EXCEPT ![x] = s]
    BY <1>2
  <2> HIDE DEF s
  <2>4. /\ rx' \in [Transfers -> Session] /\ rx'[x].pc = "off"
        /\ rx'[x].acked /\ cur(x)' = NoOpenFile /\ \A f \in Files : plan(x, f)' = plan(x, f)
    <3>1. s \in Session
      BY <2>2
    <3>2. rx' \in [Transfers -> Session] /\ rx'[x] = s /\ cur(x)' = s.cur /\ \A f \in Files : plan(x, f)' = s.plan[f]
      BY <2>3, <3>1 DEF TInv, TransferTypeOK, cur, plan
    <3> QED BY <2>1, <2>2, <3>2 DEF plan
  <2>5. up' = up /\ ino' = ino /\ slot' = slot /\ partial' = partial /\ src' = src /\ listed' = listed
    BY <1>0 DEF folder, names
  <2>6. SessionOK(x)'
    BY <2>4, NoSessionFields DEF SessionOK
  <2>7. ASSUME NEW f \in Files PROVE FileOK(x, f)'
    <3>0. /\ PlanOK(x, f) /\ ConsentOK(x, f) /\ SourceOK(x, f) /\ f # NoFile /\ plan(x, f)' = plan(x, f)
      BY <2>1, <2>4 DEF FileOK
    <3>1. plan(x, f).state \notin {"pending", "placed"} /\ ~Going(x)'
      BY <1>0, <2>4, <3>0 DEF PlanOK, Going
    <3>2. PlanOK(x, f)'
      BY <1>0, <2>4, <3>0, NoSessionFields DEF PlanOK, Early
    <3>3. ConsentOK(x, f)'
      BY <3>0, <3>1 DEF ConsentOK, NeedsConsent
    <3>4. BatchOK(x, f)' /\ PrefixOK(x, f)' /\ SnapshotOK(x, f)' /\ SameOK(x, f)'
      BY <2>4, <3>0, <3>1 DEF BatchOK, PrefixOK, SnapshotOK, SameOK
    <3>5. SourceOK(x, f)'
      BY <2>4, <2>5, <3>0 DEF SourceOK
    <3> QED BY <3>2, <3>3, <3>4, <3>5 DEF FileOK
  <2>8. src' \in [Transfers -> [Files -> Source]] /\ listed' \in [Transfers -> [Files -> Entry]]
    BY <1>0, <2>1 DEF TransferTypeOK
  <2> QED BY <1>0, <2>4, <2>6, <2>7, <2>8, FolderKept, Assembled
<1> QED BY <1>1, <1>2 DEF finishRecv

\* The batch is synced.
LEMMA SyncBatchInv ==
  ASSUME TInv, NEW x \in Transfers, syncBatch(x)
  PROVE  TInv'
<1> DEFINE batch == {plan(x, f).ino : f \in Pending(x)}
           s == [rx[x] EXCEPT !.pc = "place"]
<1>0. /\ up /\ rx[x].pc = "sync" /\ rx' = [rx EXCEPT ![x].pc = "place"]
      /\ ino' = [i \in Inodes |-> IF i \in batch THEN Synced(ino[i]) ELSE ino[i]]
      /\ UNCHANGED <<up, names, src, listed, reported>>
  BY DEF syncBatch, SyncedInodes
<1>s. UNCHANGED <<up, slot, durable, partial, meta, src, listed, reported>>
  BY <1>0 DEF names
<1>1. /\ TransferTypeOK /\ rx \in [Transfers -> Session] /\ rx[x] \in Session /\ SessionOK(x) /\ rx[x].cur = cur(x)
      /\ (\A f \in Files : FileOK(x, f) /\ f # NoFile) /\ cur(x) = NoOpenFile /\ FolderTypeOK /\ FolderShape
  BY <1>0, SessionTypes DEF cur
<1>2. s \in Session /\ s.pc = "place" /\ s.then = rx[x].then /\ s.plan = rx[x].plan /\ s.cur = rx[x].cur /\ s.acked = rx[x].acked
  BY <1>1 DEF Session
<1>3. rx' = [rx EXCEPT ![x] = s]
  BY <1>0, <1>1 DEF Session
<1> HIDE DEF s, batch
<1>4. /\ rx' \in [Transfers -> Session] /\ rx'[x].pc = "place" /\ rx'[x].then = rx[x].then
      /\ rx'[x].acked = rx[x].acked /\ cur(x)' = NoOpenFile /\ \A f \in Files : plan(x, f)' = plan(x, f)
  <2>1. s \in Session
    BY <1>2
  <2>2. rx' \in [Transfers -> Session] /\ rx'[x] = s /\ cur(x)' = s.cur /\ \A f \in Files : plan(x, f)' = s.plan[f]
    BY <1>3, <2>1 DEF TInv, TransferTypeOK, cur, plan
  <2> QED BY <1>1, <1>2, <2>2 DEF plan
<1>5. \A i \in Inodes : /\ ino'[i] \in INode /\ ino'[i].data = ino[i].data /\ ino'[i].verified = ino[i].verified
                        /\ ino'[i].root = ino[i].root
                        /\ ino'[i].synced = ino[i].synced \/ ino'[i].synced = Len(ino[i].data)
                        /\ i \in batch => ino'[i].synced = Len(ino[i].data)
  <2> SUFFICES ASSUME NEW i \in Inodes
               PROVE  /\ ino'[i] \in INode /\ ino'[i].data = ino[i].data /\ ino'[i].verified = ino[i].verified
                      /\ ino'[i].root = ino[i].root
                      /\ ino'[i].synced = ino[i].synced \/ ino'[i].synced = Len(ino[i].data)
                      /\ i \in batch => ino'[i].synced = Len(ino[i].data)
    OBVIOUS
  <2>1. ino[i] \in INode /\ Len(ino[i].data) \in 0..MaxSize
    BY <1>1, DataIsSeq DEF FolderTypeOK, INode
  <2>2. ino'[i] = IF i \in batch THEN [ino[i] EXCEPT !.synced = Len(ino[i].data)] ELSE ino[i]
    BY <1>0 DEF Synced
  <2> QED BY <2>1, <2>2 DEF INode
<1>6. FolderTypeOK'
  <2>1. \A i \in Inodes : ino'[i].synced <= Len(ino'[i].data)
    <3>1. \A i \in Inodes : ino[i].synced <= Len(ino[i].data) /\ Len(ino[i].data) \in Nat
      BY <1>1, DataIsSeq, FolderAssumption DEF FolderTypeOK, INode
    <3> QED BY <1>5, <3>1
  <2>2. ino' \in [Inodes -> INode]
    BY <1>0, <1>5
  <2> QED BY <1>s, <1>1, <2>1, <2>2 DEF FolderTypeOK
<1>7. FolderShape'
  BY <1>s, <1>1, <1>5, FolderTouched
<1>8. SessionOK(x)'
  <2>1. Asked(x)' = Asked(x)
    BY <1>4 DEF Asked
  <2> QED BY <1>0, <1>s, <1>1, <1>4, <2>1, NoSessionFields DEF SessionOK
<1>9. ASSUME NEW f \in Files PROVE FileOK(x, f)'
  <2>0. /\ PlanOK(x, f) /\ ConsentOK(x, f) /\ BatchOK(x, f) /\ PrefixOK(x, f) /\ SourceOK(x, f)
        /\ SnapshotOK(x, f) /\ f # NoFile /\ plan(x, f)' = plan(x, f) /\ cur(x)' = cur(x)
    BY <1>1, <1>4 DEF FileOK
  <2>1. Going(x)' = Going(x)
    BY <1>0, <1>4 DEF Going
  <2>2. PlanOK(x, f)'
    BY <1>0, <1>4, <2>0 DEF PlanOK, Early
  <2>3. ConsentOK(x, f)'
    BY <2>0, <2>1 DEF ConsentOK, NeedsConsent
  <2>4. BatchOK(x, f)'
    <3>1. plan(x, f).state # "placed"
      BY <1>0, <2>0 DEF PlanOK
    <3>2. plan(x, f).state = "pending" => plan(x, f).ino \in batch
      BY DEF Pending, batch
    <3> QED BY <1>s, <1>5, <2>0, <3>1, <3>2 DEF BatchOK
  <2>5. PrefixOK(x, f)'
    <3>1. plan(x, f).rel \in Names
      BY SessionTypes
    <3>2. partial[plan(x, f).rel] # NoIno =>
             partial[plan(x, f).rel] \in Inodes /\ ino'[partial[plan(x, f).rel]].data = ino[partial[plan(x, f).rel]].data
      BY <1>1, <1>5, <3>1 DEF FolderTypeOK
    <3> QED BY <1>s, <2>0, <2>1, <3>2 DEF PrefixOK, Size
  <2>6. SourceOK(x, f)'
    BY <1>0, <1>s, <1>4, <2>0 DEF SourceOK
  <2>7. SnapshotOK(x, f)' /\ SameOK(x, f)'
    BY <1>0, <1>s, <1>4, <1>5, <2>0 DEF SnapshotOK, SameOK, BatchOK, PlanOK
  <2> QED BY <2>2, <2>3, <2>4, <2>5, <2>6, <2>7 DEF FileOK
<1>10. /\ src' \in [Transfers -> [Files -> Source]] /\ listed' \in [Transfers -> [Files -> Entry]]
       /\ reported' \in [Names -> Data \cup {NoReport}]
  BY <1>0, <1>1 DEF TransferTypeOK
<1> QED BY <1>4, <1>6, <1>7, <1>8, <1>9, <1>10, Assembled

-----------------------------------------------------------------------------
\* While one file is placed, the others stay as they are.
LEMMA OthersPlaced ==
  ASSUME TInv, NEW x \in Transfers, NEW f \in Files, rx[x].pc = "place", rx'[x].pc = "place", rx'[x].then = rx[x].then,
         rx'[x].acked = rx[x].acked, \A g \in Files : g # f => plan(x, g)' = plan(x, g),
         cur(x)' = cur(x), UNCHANGED <<ino, src, listed>>,
         \A n \in Names : n # plan(x, f).rel => partial'[n] = partial[n] /\ slot'[n] = slot[n],
         \A n \in Names : partial'[n] \in {partial[n], NoIno}
  PROVE  \A g \in Files : g # f => FileOK(x, g)'
<1> SUFFICES ASSUME NEW g \in Files, g # f PROVE FileOK(x, g)'
  OBVIOUS
<1>0. /\ PlanOK(x, g) /\ ConsentOK(x, g) /\ BatchOK(x, g) /\ PrefixOK(x, g) /\ SourceOK(x, g) /\ SnapshotOK(x, g)
      /\ g # NoFile /\ plan(x, g).rel \in Names
  BY SessionTypes DEF FileOK
<1>1. plan(x, g)' = plan(x, g) /\ Going(x)' = Going(x)
  BY DEF Going
<1>2. plan(x, g).rel # plan(x, f).rel
  BY RelDistinct
<1>3. partial'[plan(x, g).rel] = partial[plan(x, g).rel] /\ slot'[plan(x, g).rel] = slot[plan(x, g).rel]
  BY <1>0, <1>2
<1>5. PlanOK(x, g)'
  BY <1>0, <1>1 DEF PlanOK
<1>6. ConsentOK(x, g)'
  BY <1>0, <1>1 DEF ConsentOK, NeedsConsent
<1>7. BatchOK(x, g)'
  BY <1>0, <1>1, <1>3, FolderAssumption DEF BatchOK, IsFile
<1>8. PrefixOK(x, g)'
  BY <1>0, <1>1, <1>3 DEF PrefixOK, Size
<1>9. SourceOK(x, g)'
  BY <1>0, <1>1 DEF SourceOK
<1>10. SnapshotOK(x, g)' /\ SameOK(x, g)'
  BY <1>0, <1>1 DEF SnapshotOK, SameOK
<1> QED BY <1>5, <1>6, <1>7, <1>8, <1>9, <1>10 DEF FileOK

\* What it takes to place one file of a batch.
LEMMA PlaceStep ==
  ASSUME TInv, NEW x \in Transfers, NEW f \in Files, NEW q \in Plan, SetPlan(x, f, q),
         up, rx[x].pc = "place", plan(x, f).state = "pending", UNCHANGED <<up, ino, durable, src, listed>>,
         q.rel = plan(x, f).rel, q.action = plan(x, f).action, q.own = plan(x, f).own, q.off = plan(x, f).off,
         q.ownPrefix = plan(x, f).ownPrefix, q.state \in {"placed", "skipped", "failed"}, q.changed = plan(x, f).changed,
         q.state = "placed" => /\ q.ino = plan(x, f).ino /\ (\A n \in Names : partial'[n] # q.ino)
                               /\ slot'[q.rel].kind = "file" /\ slot'[q.rel].ino = q.ino,
         \A n \in Names : n # plan(x, f).rel => partial'[n] = partial[n] /\ slot'[n] = slot[n],
         \A n \in Names : partial'[n] \in {partial[n], NoIno},
         FolderTypeOK', FolderShape', reported' \in [Names -> Data \cup {NoReport}]
  PROVE  TInv'
<1>0. /\ TransferTypeOK /\ SessionOK(x) /\ FileOK(x, f) /\ f # NoFile /\ cur(x) = NoOpenFile
  BY SessionTypes
<1>1. /\ rx' \in [Transfers -> Session] /\ rx'[x].pc = "place" /\ rx'[x].then = rx[x].then /\ rx'[x].acked = rx[x].acked
      /\ cur(x)' = cur(x) /\ plan(x, f)' = q /\ \A g \in Files : g # f => plan(x, g)' = plan(x, g)
  BY SetPlanChanges
<1>2. SessionOK(x)'
  <2>1. Asked(x)' \subseteq Asked(x)
    BY <1>1 DEF Asked
  <2> QED BY <1>0, <1>1, <2>1, NoSessionFields DEF SessionOK
<1>3. PlanOK(x, f)'
  BY <1>0, <1>1, NoSessionFields DEF FileOK, PlanOK, SessionOK, Early
<1>4. ConsentOK(x, f)' /\ PrefixOK(x, f)'
  BY <1>1 DEF ConsentOK, PrefixOK
<1>5. BatchOK(x, f)'
  BY <1>0, <1>1 DEF FileOK, BatchOK, IsFile
<1>6. SourceOK(x, f)'
  <2>1. /\ SourceOK(x, f) /\ src'[x][f] = src[x][f] /\ listed'[x][f] = listed[x][f] /\ cur(x)' = cur(x)
        /\ plan(x, f)'.own = plan(x, f).own /\ plan(x, f)'.off = plan(x, f).off
        /\ plan(x, f)'.ownPrefix = plan(x, f).ownPrefix /\ rx'[x].pc = rx[x].pc
    BY <1>0, <1>1 DEF FileOK
  <2> QED BY <2>1 DEF SourceOK
<1>7. SnapshotOK(x, f)' /\ SameOK(x, f)'
  BY <1>0, <1>1 DEF FileOK, SnapshotOK, SameOK
<1>8. \A g \in Files : g # f => FileOK(x, g)'
  BY <1>1, OthersPlaced
<1>9. \A g \in Files : FileOK(x, g)'
  BY <1>3, <1>4, <1>5, <1>6, <1>7, <1>8 DEF FileOK
<1>10. src' \in [Transfers -> [Files -> Source]] /\ listed' \in [Transfers -> [Files -> Entry]]
  BY <1>0 DEF TransferTypeOK
<1> QED BY <1>0, <1>1, <1>2, <1>9, <1>10, Assembled

\* A verified partial is renamed onto its name: the names stay apart.
LEMMA RenameShape ==
  ASSUME FolderTypeOK, FolderShape, NEW n \in Names, partial[n] # NoIno,
         ino[partial[n]].synced = Len(ino[partial[n]].data),
         ino[partial[n]].verified => ino[partial[n]].data = ino[partial[n]].root,
         slot' = [slot EXCEPT ![n] = [kind |-> "file", ino |-> partial[n]]],
         partial' = [m \in Names |-> IF m = n THEN NoIno ELSE partial[m]],
         meta' = [m \in Names |-> IF m = n THEN NoMeta ELSE meta[m]],
         reported' = [reported EXCEPT ![n] = NoReport], reported \in [Names -> Data \cup {NoReport}],
         UNCHANGED <<up, ino, durable>>
  PROVE  FolderTypeOK' /\ FolderShape' /\ reported' \in [Names -> Data \cup {NoReport}]
<1>0. partial[n] \in Inodes
  BY DEF FolderTypeOK
<1>1. slot'[n].kind = "file" /\ slot'[n].ino = partial[n] /\ \A m \in Names : m # n => slot'[m] = slot[m]
  BY DEF FolderTypeOK
<1>2. FolderTypeOK'
  BY <1>0, <1>1 DEF FolderTypeOK, Slot
<1>3. NameShape'
  <2>1. ASSUME NEW m \in Names
        PROVE  /\ slot'[m].kind # "file" => slot'[m].ino = NoIno
               /\ partial'[m] # NoIno => partial'[m] = partial[m] /\ m # n
               /\ durable[m].ino # partial[n] /\ slot[m].ino # partial[n]
               /\ m # n => partial[m] # partial[n]
    BY <1>0, <1>1 DEF FolderShape, NameShape
  <2> QED BY <1>0, <1>1, <2>1 DEF FolderShape, NameShape
<1>4. DeviceShape'
  BY <1>1 DEF FolderShape, DeviceShape
<1>5. ReportShape'
  <2>1. reported'[n] = NoReport /\ \A m \in Names : m # n => reported'[m] = reported[m]
    OBVIOUS
  <2> QED BY <1>1, <2>1 DEF FolderShape, ReportShape, IsFile
<1> QED BY <1>2, <1>3, <1>4, <1>5 DEF FolderShape

\* A file of the batch is placed, refused, or its rename fails.
LEMMA PlaceInv ==
  ASSUME TInv, NEW x \in Transfers, place(x)
  PROVE  TInv'
<1>f. PICK f : f = Min(Pending(x))
  OBVIOUS
<1> DEFINE p == plan(x, f)
           n == p.rel
           refused == NeedsConsent(p) /\ slot[n].kind = "fullDir"
           fails == partial[n] = NoIno \/ (slot[n].kind \in {"emptyDir", "fullDir"} /\ ~NeedsConsent(p))
<1>0. up /\ rx[x].pc = "place" /\ Pending(x) # {} /\ UNCHANGED <<up, ino, durable, src, listed>>
  BY DEF place
<1>1. f \in Files /\ p.state = "pending"
  <2>1. Pending(x) \in SUBSET Files
    BY DEF Pending
  <2>2. f \in Pending(x)
    BY <1>f, <1>0, <2>1, MinFile
  <2> QED BY <2>2 DEF Pending
<1>2. /\ p \in Plan /\ n \in Names /\ BatchOK(x, f) /\ FolderTypeOK /\ FolderShape
      /\ reported \in [Names -> Data \cup {NoReport}]
  BY <1>1, SessionTypes DEF FileOK, TransferTypeOK
<1>3. p.ino \in Inodes /\ partial[n] = p.ino /\ p.ino # NoIno
      /\ ino[p.ino].synced = Len(ino[p.ino].data) /\ ino[p.ino].data = ino[p.ino].root
  BY <1>0, <1>1, <1>2, FolderAssumption DEF BatchOK
<1>4. CASE refused
  <2>1. PICK q : q = [p EXCEPT !.state = "skipped", !.disp = "refused", !.ino = NoIno]
    OBVIOUS
  <2>2. remove({n}) /\ SetPlan(x, f, q) /\ UNCHANGED <<slot, reported>>
    BY <1>f, <1>4, <2>1 DEF place
  <2>3. /\ q \in Plan /\ q.rel = p.rel /\ q.own = p.own /\ q.ownPrefix = p.ownPrefix /\ q.off = p.off
        /\ q.action = p.action /\ q.state = "skipped" /\ q.changed = p.changed
    <3> HIDE DEF p
    <3> QED BY <1>2, <2>1 DEF Plan, Dispositions
  <2>4. /\ \A m \in Names : m # n => partial'[m] = partial[m] /\ slot'[m] = slot[m]
        /\ \A m \in Names : partial'[m] \in {partial[m], NoIno}
        /\ partial' \in [Names -> Inodes \cup {NoIno}] /\ meta' \in [Names -> Entry \cup {NoMeta}]
    BY <1>2, <2>2 DEF remove, FolderTypeOK
  <2>5. FolderTypeOK'
    BY <1>0, <1>2, <2>2, <2>4 DEF FolderTypeOK
  <2>6. FolderShape'
    BY <1>0, <1>2, <2>2, <2>4, FolderSame
  <2>7. q.state # "placed" /\ q.state \in {"placed", "skipped", "failed"} /\ reported' \in [Names -> Data \cup {NoReport}]
    BY <1>2, <2>2, <2>3
  <2> HIDE DEF p
  <2> QED BY <1>0, <1>1, <2>2, <2>3, <2>4, <2>5, <2>6, <2>7, PlaceStep DEF p
<1>5. CASE ~refused /\ fails
  <2>1. PICK q : q = [p EXCEPT !.state = "failed", !.ino = NoIno]
    OBVIOUS
  <2>2. SetPlan(x, f, q) /\ UNCHANGED <<slot, partial, meta, reported>>
    BY <1>f, <1>5, <2>1 DEF place
  <2>3. /\ q \in Plan /\ q.rel = p.rel /\ q.own = p.own /\ q.ownPrefix = p.ownPrefix /\ q.off = p.off
        /\ q.action = p.action /\ q.state = "failed" /\ q.changed = p.changed
    <3> HIDE DEF p
    <3> QED BY <1>2, <2>1 DEF Plan
  <2>4. /\ \A m \in Names : m # n => partial'[m] = partial[m] /\ slot'[m] = slot[m]
        /\ \A m \in Names : partial'[m] \in {partial[m], NoIno}
    BY <2>2
  <2>5. FolderTypeOK'
    BY <1>0, <1>2, <2>2 DEF FolderTypeOK
  <2>6. FolderShape'
    BY <1>0, <1>2, <2>2, <2>4, FolderSame
  <2>7. q.state # "placed" /\ q.state \in {"placed", "skipped", "failed"} /\ reported' \in [Names -> Data \cup {NoReport}]
    BY <1>2, <2>2, <2>3
  <2> HIDE DEF p
  <2> QED BY <1>0, <1>1, <2>2, <2>3, <2>4, <2>5, <2>6, <2>7, PlaceStep DEF p
<1>6. CASE ~refused /\ ~fails
  <2>1. PICK q : q = [p EXCEPT !.state = "placed"]
    OBVIOUS
  <2>2. /\ remove({n}) /\ SetPlan(x, f, q)
        /\ slot' = [slot EXCEPT ![n] = [kind |-> "file", ino |-> partial[n]]]
        /\ reported' = [reported EXCEPT ![n] = NoReport]
    BY <1>f, <1>6, <2>1 DEF place
  <2>3. /\ q \in Plan /\ q.rel = p.rel /\ q.own = p.own /\ q.ownPrefix = p.ownPrefix /\ q.off = p.off
        /\ q.action = p.action /\ q.state = "placed" /\ q.changed = p.changed /\ q.ino = p.ino
    <3> HIDE DEF p
    <3> QED BY <1>2, <2>1 DEF Plan
  <2> HIDE DEF p
  <2>4. /\ partial' = [m \in Names |-> IF m = n THEN NoIno ELSE partial[m]]
        /\ meta' = [m \in Names |-> IF m = n THEN NoMeta ELSE meta[m]]
    BY <2>2 DEF remove
  <2>5. FolderTypeOK' /\ FolderShape' /\ reported' \in [Names -> Data \cup {NoReport}]
    BY <1>0, <1>2, <1>3, <2>2, <2>4, RenameShape
  <2>6. /\ \A m \in Names : m # n => partial'[m] = partial[m] /\ slot'[m] = slot[m]
        /\ \A m \in Names : partial'[m] \in {partial[m], NoIno}
        /\ slot'[n].kind = "file" /\ slot'[n].ino = p.ino
    BY <1>2, <1>3, <2>2, <2>4 DEF FolderTypeOK
  <2>7. \A m \in Names : partial'[m] # p.ino
    BY <1>2, <1>3, <2>4 DEF FolderShape, NameShape
  <2> QED BY <1>0, <1>1, <2>2, <2>3, <2>5, <2>6, <2>7, PlaceStep DEF p
<1> QED BY <1>4, <1>5, <1>6

-----------------------------------------------------------------------------
\* Folders are synced and the placed files reported: the names stay apart.
LEMMA ReportedShape ==
  ASSUME FolderTypeOK, FolderShape, NEW S \in SUBSET Names, UNCHANGED <<up, ino, slot, partial, meta>>,
         durable' = [n \in Names |-> IF n \in S THEN slot[n] ELSE durable[n]],
         \A n \in Names : \/ reported'[n] = reported[n]
                          \/ /\ IsFile(n) /\ ino[slot[n].ino].verified /\ reported'[n] = ino[slot[n].ino].data
                             /\ Unsyncable = {} => n \in S
  PROVE  FolderTypeOK' /\ FolderShape'
<1>1. FolderTypeOK'
  BY DEF FolderTypeOK
<1>2. \A n \in Names : durable'[n] = slot[n] \/ durable'[n] = durable[n]
  OBVIOUS
<1>3. NameShape'
  <2>1. ASSUME NEW n \in Names
        PROVE  /\ slot'[n].kind # "file" => slot'[n].ino = NoIno
               /\ durable'[n].kind = "file" => durable'[n].ino \in Inodes
               /\ durable'[n].kind # "file" => durable'[n].ino = NoIno
               /\ partial'[n] # NoIno => \A m \in Names : partial'[n] # slot'[m].ino /\ partial'[n] # durable'[m].ino
    BY <1>2 DEF FolderTypeOK, FolderShape, NameShape
  <2>2. ASSUME NEW n \in Names, NEW m \in Names, n # m
        PROVE  /\ slot'[n].ino # NoIno => slot'[n].ino # slot'[m].ino /\ slot'[n].ino # durable'[m].ino
               /\ durable'[n].ino # NoIno => durable'[n].ino # durable'[m].ino
               /\ partial'[n] # NoIno => partial'[n] # partial'[m]
    <3>1. /\ slot[n].ino # NoIno => slot[n].ino # slot[m].ino /\ slot[n].ino # durable[m].ino
          /\ durable[n].ino # NoIno => durable[n].ino # durable[m].ino
          /\ slot[m].ino # NoIno => slot[m].ino # slot[n].ino /\ slot[m].ino # durable[n].ino
          /\ partial[n] # NoIno => partial[n] # partial[m]
      BY <2>2 DEF FolderShape, NameShape
    <3>2. durable'[n] \in {slot[n], durable[n]} /\ durable'[m] \in {slot[m], durable[m]}
      BY <1>2
    <3> QED BY <3>1, <3>2
  <2> QED BY <2>1, <2>2 DEF NameShape
<1>4. DeviceShape'
  BY <1>2 DEF FolderShape, DeviceShape
<1>5. ReportShape'
  <2>1. ASSUME Unsyncable = {}, NEW n \in Names, reported'[n] # NoReport
        PROVE  /\ slot[n].kind = "file" /\ slot[n] = durable'[n]
               /\ ino[slot[n].ino].verified /\ ino[slot[n].ino].data = reported'[n]
    BY <2>1 DEF FolderShape, ReportShape, IsFile
  <2> QED BY <2>1 DEF ReportShape, IsFile
<1> QED BY <1>1, <1>3, <1>4, <1>5 DEF FolderShape

\* A flush is done.
LEMMA FlushDoneInv ==
  ASSUME TInv, NEW x \in Transfers, flushDone(x)
  PROVE  TInv'
<1> DEFINE placed == {f \in Files : plan(x, f).state = "placed"}
           failed == \E f \in Files : plan(x, f).state = "failed"
           s == [rx[x] EXCEPT !.pc = rx[x].then,
                              !.plan = [f \in Files |-> IF f \in placed
                                                        THEN [plan(x, f) EXCEPT !.state = "saved", !.ino = NoIno]
                                                        ELSE plan(x, f)]]
<1>0. /\ up /\ rx[x].pc = "place" /\ Pending(x) = {}
      /\ durable' = [n \in Names |-> IF n \in SyncedNames(x) THEN slot[n] ELSE durable[n]]
      /\ reported' = [n \in Names |->
                          IF \E f \in placed : plan(x, f).rel = n /\ slot[n].ino = plan(x, f).ino
                          THEN ino[slot[n].ino].data ELSE reported[n]]
      /\ UNCHANGED <<up, ino, slot, partial, meta, src, listed>>
  BY DEF flushDone
<1>1. /\ TransferTypeOK /\ rx \in [Transfers -> Session] /\ rx[x] \in Session /\ SessionOK(x) /\ rx[x].cur = cur(x)
      /\ (\A f \in Files : FileOK(x, f) /\ f # NoFile /\ plan(x, f) \in Plan /\ plan(x, f).rel \in Names)
      /\ cur(x) = NoOpenFile /\ FolderTypeOK /\ FolderShape
  BY <1>0, SessionTypes DEF cur
<1>2. SyncedNames(x) \in SUBSET Names
  BY <1>1 DEF SyncedNames
<1>3. ASSUME NEW n \in Names
      PROVE  \/ reported'[n] = reported[n]
             \/ /\ IsFile(n) /\ ino[slot[n].ino].verified /\ reported'[n] = ino[slot[n].ino].data
                /\ Unsyncable = {} => n \in SyncedNames(x)
  <2>1. CASE \E f \in placed : plan(x, f).rel = n /\ slot[n].ino = plan(x, f).ino
    <3>1. PICK f \in placed : plan(x, f).rel = n /\ slot[n].ino = plan(x, f).ino
      BY <2>1
    <3>2. IsFile(n) /\ ino[slot[n].ino].verified
      BY <1>1, <3>1 DEF FileOK, BatchOK
    <3>3. Unsyncable = {} => n \in SyncedNames(x)
      BY <3>1 DEF SyncedNames
    <3>4. reported'[n] = ino[slot[n].ino].data
      BY <1>0, <2>1
    <3> QED BY <3>2, <3>3, <3>4
  <2>2. CASE ~ \E f \in placed : plan(x, f).rel = n /\ slot[n].ino = plan(x, f).ino
    BY <1>0, <2>2
  <2> QED BY <2>1, <2>2
<1>4. FolderTypeOK' /\ FolderShape'
  <2> HIDE DEF placed
  <2>1. UNCHANGED <<up, ino, slot, partial, meta>>
    BY <1>0
  <2>2. durable' = [n \in Names |-> IF n \in SyncedNames(x) THEN slot[n] ELSE durable[n]]
    BY <1>0
  <2> QED BY <1>1, <1>2, <1>3, <2>1, <2>2, ReportedShape
<1>5. reported' \in [Names -> Data \cup {NoReport}]
  <2>1. \A n \in Names : IsFile(n) => ino[slot[n].ino].data \in Data
    BY <1>1 DEF FolderTypeOK, IsFile, INode
  <2>2. \A n \in Names : reported'[n] \in Data \cup {NoReport}
    BY <1>1, <1>3, <2>1 DEF TransferTypeOK
  <2> QED BY <1>0, <2>2
<1>6. /\ src' \in [Transfers -> [Files -> Source]] /\ listed' \in [Transfers -> [Files -> Entry]]
  BY <1>0, <1>1 DEF TransferTypeOK
<1>7. CASE failed \/ rx[x].then = "off"
  <2>1. rx' = [rx EXCEPT ![x] = NoSession]
    BY <1>7 DEF flushDone
  <2>0. NoSession \in Session /\ NoSession.cur = NoOpenFile
    BY FreshRecords, NoSessionFields
  <2>2. rx' \in [Transfers -> Session] /\ rx'[x] = NoSession /\ cur(x)' = NoOpenFile
    BY <2>0, <2>1 DEF TInv, TransferTypeOK, cur, plan
  <2>3. SessionOK(x)' /\ \A f \in Files : FileOK(x, f)'
    BY <1>0, <2>2, SessionsOver
  <2> QED BY <1>4, <1>5, <1>6, <2>2, <2>3, Assembled
<1>8. CASE ~failed /\ rx[x].then # "off"
  <2>1. rx' = [rx EXCEPT ![x] = s]
    <3>1. rx' = [rx EXCEPT ![x] = IF failed \/ rx[x].then = "off" THEN NoSession ELSE s]
      BY Zenon DEF flushDone
    <3> HIDE DEF s, failed
    <3> QED BY <1>8, <3>1
  <2>2. \A f \in Files : /\ plan(x, f) \in Plan
                         /\ [plan(x, f) EXCEPT !.state = "saved", !.ino = NoIno] \in Plan
    <3>1. ASSUME NEW p \in Plan PROVE [p EXCEPT !.state = "saved", !.ino = NoIno] \in Plan
      BY DEF Plan
    <3>2. \A f \in Files : plan(x, f) \in Plan
      BY SessionTypes
    <3> QED BY <3>1, <3>2
  <2>3. /\ s \in Session /\ s.pc = rx[x].then /\ s.cur = rx[x].cur /\ s.acked = rx[x].acked
        /\ \A f \in Files : s.plan[f] = IF f \in placed THEN [plan(x, f) EXCEPT !.state = "saved", !.ino = NoIno]
                                        ELSE plan(x, f)
    <3> HIDE DEF placed
    <3> QED BY <1>1, <1>8, <2>2 DEF Session
  <2> HIDE DEF s
  <2>4. /\ rx' \in [Transfers -> Session] /\ rx'[x].pc = rx[x].then /\ rx'[x].acked = rx[x].acked /\ cur(x)' = NoOpenFile
        /\ \A f \in Files : plan(x, f)' = IF f \in placed THEN [plan(x, f) EXCEPT !.state = "saved", !.ino = NoIno]
                                          ELSE plan(x, f)
    <3>1. s \in Session
      BY <2>3
    <3>2. rx' \in [Transfers -> Session] /\ rx'[x] = s /\ cur(x)' = s.cur /\ \A f \in Files : plan(x, f)' = s.plan[f]
      BY <2>1, <3>1 DEF TInv, TransferTypeOK, cur, plan
    <3> QED BY <1>1, <2>3, <3>2 DEF plan
  <2>5. rx[x].then \in {"data", "finish"} /\ Going(x) /\ ~rx[x].acked
    BY <1>0, <1>1, <1>8 DEF Session, Going, SessionOK
  <2>6. SessionOK(x)'
    <3>1. up' /\ cur(x)' = NoOpenFile /\ ~rx'[x].acked /\ rx'[x].pc \in {"data", "finish"}
      BY <1>0, <2>4, <2>5
    <3> QED BY <3>1, NoSessionFields DEF SessionOK
  <2>7. ASSUME NEW f \in Files PROVE FileOK(x, f)'
    <3>0. /\ PlanOK(x, f) /\ ConsentOK(x, f) /\ PrefixOK(x, f) /\ SourceOK(x, f) /\ f # NoFile
          /\ plan(x, f) \in Plan /\ cur(x)' = cur(x)
      BY <1>1, <2>4 DEF FileOK
    <3>1. plan(x, f).state \notin {"pending", "failed"}
      BY <1>0, <1>8 DEF Pending
    <3>2. /\ plan(x, f)'.rel = plan(x, f).rel /\ plan(x, f)'.action = plan(x, f).action
          /\ plan(x, f)'.own = plan(x, f).own /\ plan(x, f)'.off = plan(x, f).off
          /\ plan(x, f)'.ownPrefix = plan(x, f).ownPrefix
          /\ plan(x, f)'.state \notin {"pending", "failed", "placed"}
          /\ plan(x, f)'.state = plan(x, f).state \/ plan(x, f)'.state = "saved"
          /\ plan(x, f).state = "todo" => plan(x, f)' = plan(x, f)
      <4>1. CASE f \in placed
        <5>1. plan(x, f)' = [plan(x, f) EXCEPT !.state = "saved", !.ino = NoIno] /\ plan(x, f).state = "placed"
          BY <2>4, <4>1
        <5> QED BY <3>0, <5>1 DEF Plan
      <4>2. CASE f \notin placed
        <5>1. plan(x, f)' = plan(x, f) /\ plan(x, f).state # "placed"
          BY <2>4, <4>2
        <5> QED BY <3>1, <5>1
      <4> QED BY <4>1, <4>2
    <3>3. rx[x].then = "finish" => plan(x, f).action = "skip" \/ plan(x, f)'.state \in {"saved", "skipped"}
      <4>1. rx[x].then = "finish" => ~(plan(x, f).action \in Wanted /\ plan(x, f).state = "todo")
        BY <1>0, <1>1 DEF SessionOK, Asked, Wanted
      <4>2. plan(x, f).action \in {"send", "resume", "skip"}
            /\ plan(x, f).state \in {"todo", "pending", "placed", "saved", "failed", "skipped"}
        BY <1>0, <3>0 DEF Plan, PlanOK, Early
      <4> QED BY <3>1, <3>2, <4>1, <4>2 DEF Wanted
    <3>4. PlanOK(x, f)'
      BY <1>0, <2>4, <2>5, <3>0, <3>2, <3>3, NoSessionFields DEF PlanOK, Early
    <3>5. ConsentOK(x, f)'
      BY <2>5, <3>0, <3>2 DEF ConsentOK, NeedsConsent
    <3>6. BatchOK(x, f)' /\ SnapshotOK(x, f)' /\ SameOK(x, f)'
      BY <2>4, <2>5, <3>2 DEF BatchOK, SnapshotOK, SameOK
    <3>7. PrefixOK(x, f)'
      BY <1>0, <2>5, <3>0, <3>2 DEF PrefixOK, Size
    <3>8. SourceOK(x, f)'
      BY <1>0, <3>0, <3>2 DEF SourceOK
    <3> QED BY <3>4, <3>5, <3>6, <3>7, <3>8 DEF FileOK
  <2> QED BY <1>4, <1>5, <1>6, <2>4, <2>6, <2>7, Assembled
<1> QED BY <1>7, <1>8

-----------------------------------------------------------------------------
\* Short sequences of source contents are versions.
LEMMA VersionsSeq ==
  ASSUME NEW v \in Seq(SourceData), Len(v) <= MaxTime
  PROVE  v \in BoundedSeq(SourceData, MaxTime)
<1>1. v \in [1..Len(v) -> SourceData] /\ Len(v) \in Nat
  BY LenProperties
<1>2. Len(v) \in 0..MaxTime
  BY <1>1, FolderAssumption
<1>3. BoundedSeq(SourceData, MaxTime) = UNION {[1..m -> SourceData] : m \in 0..MaxTime}
  BY DEF BoundedSeq, SeqOf
<1> QED BY <1>1, <1>2, <1>3

\* The versions of a source stay, and new ones come after them.
LEMMA SourceGrows ==
  ASSUME TInv, NEW x \in Transfers, src' \in [Transfers -> [Files -> Source]],
         UNCHANGED <<folder, listed, rx, reported>>,
         \A f \in Files : /\ Len(src'[x][f].versions) \in Nat
                          /\ Len(src[x][f].versions) <= Len(src'[x][f].versions)
                          /\ \A k \in 1..Len(src[x][f].versions) :
                                k \in DOMAIN src'[x][f].versions /\ src'[x][f].versions[k] = src[x][f].versions[k]
  PROVE  TInv'
<1>0. /\ TransferTypeOK /\ SessionOK(x) /\ rx \in [Transfers -> Session] /\ (\A f \in Files : FileOK(x, f))
      /\ (cur(x) # NoOpenFile => rx[x].pc = "data")
  BY SessionTypes
<1>1. rx' = rx /\ up' = up /\ ino' = ino /\ slot' = slot /\ partial' = partial /\ listed' = listed
  BY DEF folder, names
<1>2. cur(x)' = cur(x) /\ (\A f \in Files : plan(x, f)' = plan(x, f)) /\ Going(x)' = Going(x) /\ Asked(x)' = Asked(x)
      /\ Empties(x)' = Empties(x)
  BY <1>1 DEF cur, plan, Going, Asked, Empties
<1>3. SessionOK(x)'
  <2>1. cur(x).file # NoFile => cur(x).file \in Files
    BY SessionTypes DEF OpenFile
  <2> QED BY <1>0, <1>1, <1>2, <2>1 DEF SessionOK
<1>4. ASSUME NEW f \in Files PROVE FileOK(x, f)'
  <2>0. /\ PlanOK(x, f) /\ ConsentOK(x, f) /\ BatchOK(x, f) /\ PrefixOK(x, f) /\ SourceOK(x, f)
        /\ SnapshotOK(x, f) /\ SameOK(x, f) /\ plan(x, f)' = plan(x, f)
    BY <1>0, <1>2 DEF FileOK
  <2>1. /\ src[x][f].versions \in Seq(SourceData) /\ Len(src[x][f].versions) \in Nat \ {0}
        /\ DOMAIN src[x][f].versions = 1..Len(src[x][f].versions)
        /\ listed[x][f].mtime \in Nat /\ listed[x][f].mtime <= Len(src[x][f].versions)
        /\ listed[x][f].mtime > 0 => src'[x][f].versions[listed[x][f].mtime] = src[x][f].versions[listed[x][f].mtime]
    <3>1. src[x][f].versions \in Seq(SourceData) /\ Len(src[x][f].versions) \in Nat \ {0} /\ listed[x][f] \in Entry
      BY <1>0, SourceTypes
    <3>2. listed[x][f].mtime \in Nat /\ listed[x][f].mtime <= Len(src[x][f].versions)
      BY <2>0, <3>1, FolderAssumption DEF Entry, SourceOK
    <3> QED BY <3>1, <3>2
  <2>2. PlanOK(x, f)'
    BY <1>1, <1>2, <2>0 DEF PlanOK
  <2>3. ConsentOK(x, f)'
    BY <1>1, <1>2, <2>0 DEF ConsentOK, NeedsConsent
  <2>4. BatchOK(x, f)'
    BY <1>1, <2>0 DEF BatchOK, IsFile
  <2>5. PrefixOK(x, f)'
    BY <1>1, <1>2, <2>0 DEF PrefixOK, Size
  <2>6. SourceOK(x, f)'
    <3>1. listed[x][f].mtime = Len(src'[x][f].versions) => listed[x][f].mtime = Len(src[x][f].versions)
      BY <2>1
    <3>2. listed[x][f].mtime <= Len(src'[x][f].versions)
      BY <2>1
    <3> QED BY <1>1, <1>2, <2>0, <2>1, <3>1, <3>2 DEF SourceOK
  <2>7. SnapshotOK(x, f)'
    <3>1. plan(x, f).state \in {"pending", "placed"} => listed[x][f].mtime > 0
      BY <2>0 DEF PlanOK, SourceOK
    <3> QED BY <1>1, <2>0, <2>1, <3>1 DEF SnapshotOK
  <2>8. SameOK(x, f)'
    BY <1>1, <2>0, <2>1 DEF SameOK, IsFile
  <2> QED BY <2>2, <2>3, <2>4, <2>5, <2>6, <2>7, <2>8 DEF FileOK
<1>5. listed' \in [Transfers -> [Files -> Entry]] /\ rx' \in [Transfers -> Session]
  BY <1>0, <1>1 DEF TransferTypeOK
<1> QED BY <1>0, <1>1, <1>2, <1>3, <1>4, <1>5, FolderKept, Assembled

\* A source file gets a new version.
LEMMA EditSourceInv ==
  ASSUME TInv, NEW x \in Transfers, NEW f \in Files, NEW d \in SourceData, EditSource(x, f, d)
  PROVE  TInv'
<1>0. /\ mtime(x, f) < MaxTime /\ UNCHANGED <<folder, listed, rx, reported>> /\ TransferTypeOK
      /\ src' = [src EXCEPT ![x][f] = [versions |-> Append(@.versions, d), readable |-> TRUE]]
  BY SessionTypes DEF EditSource
<1>1. /\ \A g \in Files : src[x][g].versions \in Seq(SourceData) /\ Len(src[x][g].versions) \in Nat
      /\ mtime(x, f) = Len(src[x][f].versions) /\ src \in [Transfers -> [Files -> Source]]
  BY <1>0, SourceTypes DEF TransferTypeOK
<1> DEFINE v == Append(src[x][f].versions, d)
<1>2. /\ v \in Seq(SourceData) /\ Len(v) = Len(src[x][f].versions) + 1
      /\ \A k \in 1..Len(src[x][f].versions) : v[k] = src[x][f].versions[k] /\ k \in DOMAIN v
  BY <1>1
<1> HIDE DEF v
<1>3. src'[x][f].versions = v /\ src'[x][f] = [versions |-> v, readable |-> TRUE]
      /\ \A g \in Files : g # f => src'[x][g] = src[x][g]
  BY <1>0, <1>1 DEF v
<1>4. [versions |-> v, readable |-> TRUE] \in Source
  <2>1. Len(v) <= MaxTime
    BY <1>0, <1>1, <1>2, FolderAssumption
  <2>2. v # <<>>
    BY <1>1, <1>2, EmptySeq
  <2>3. v \in BoundedSeq(SourceData, MaxTime)
    BY <1>2, <2>1, VersionsSeq
  <2> QED BY <2>2, <2>3 DEF Source
<1>5. src' \in [Transfers -> [Files -> Source]]
  BY <1>0, <1>1, <1>4 DEF v
<1>6. ASSUME NEW g \in Files
      PROVE  /\ Len(src'[x][g].versions) \in Nat
             /\ Len(src[x][g].versions) <= Len(src'[x][g].versions)
             /\ \A k \in 1..Len(src[x][g].versions) :
                   k \in DOMAIN src'[x][g].versions /\ src'[x][g].versions[k] = src[x][g].versions[k]
  <2>1. CASE g = f
    BY <1>1, <1>2, <1>3, <2>1
  <2>2. CASE g # f
    BY <1>1, <1>3, <2>2
  <2> QED BY <2>1, <2>2
<1> QED BY <1>0, <1>5, <1>6, SourceGrows

\* A source file is taken away, or is back.
LEMMA HideSourceInv ==
  ASSUME TInv, NEW x \in Transfers, NEW f \in Files, HideSource(x, f)
  PROVE  TInv'
<1>0. /\ UNCHANGED <<folder, listed, rx, reported>> /\ TransferTypeOK
      /\ src' = [src EXCEPT ![x][f].readable = ~@]
  BY SessionTypes DEF HideSource
<1>1. /\ \A g \in Files : src[x][g].versions \in Seq(SourceData) /\ Len(src[x][g].versions) \in Nat
      /\ src \in [Transfers -> [Files -> Source]] /\ src[x][f] \in Source
  BY <1>0, SourceTypes DEF TransferTypeOK
<1>2. \A g \in Files : src'[x][g].versions = src[x][g].versions
  BY <1>0, <1>1 DEF Source
<1>3. [src[x][f] EXCEPT !.readable = ~src[x][f].readable] \in Source
  BY <1>1 DEF Source
<1>4. src' \in [Transfers -> [Files -> Source]]
  <2>1. src' = [src EXCEPT ![x] = [src[x] EXCEPT ![f] = [src[x][f] EXCEPT !.readable = ~src[x][f].readable]]]
    BY <1>0
  <2> QED BY <1>1, <1>3, <2>1
<1>5. ASSUME NEW g \in Files
      PROVE  /\ Len(src'[x][g].versions) \in Nat
             /\ Len(src[x][g].versions) <= Len(src'[x][g].versions)
             /\ \A k \in 1..Len(src[x][g].versions) :
                   k \in DOMAIN src'[x][g].versions /\ src'[x][g].versions[k] = src[x][g].versions[k]
  BY <1>1, <1>2
<1> QED BY <1>0, <1>4, <1>5, SourceGrows

-----------------------------------------------------------------------------
\* While every session is over, the folder may change as it does.
LEMMA IdleKept ==
  ASSUME TInv, \A x \in Transfers : rx[x].pc = "off" /\ (rx'[x] = rx[x] \/ rx'[x] = NoSession),
         rx' \in [Transfers -> Session], FolderTypeOK', FolderShape', UNCHANGED <<src, listed, reported>>
  PROVE  TInv'
<1>1. ASSUME NEW x \in Transfers PROVE SessionOK(x)' /\ cur(x)' = NoOpenFile /\ \A f \in Files : FileOK(x, f)'
  <2>1. CASE rx'[x] = NoSession
    BY <2>1, SessionsOver, NoSessionFields DEF cur
  <2>2. CASE rx'[x] = rx[x]
    <3>1. SessionOK(x) /\ (\A f \in Files : FileOK(x, f) /\ f # NoFile) /\ cur(x) = NoOpenFile /\ rx[x].pc = "off"
      BY SessionTypes
    <3>2. cur(x)' = NoOpenFile /\ rx'[x].pc = "off" /\ ~Going(x)' /\ \A f \in Files : plan(x, f)' = plan(x, f)
      BY <2>2, <3>1 DEF cur, plan, Going
    <3>3. SessionOK(x)'
      BY <3>2, NoSessionFields DEF SessionOK
    <3>4. ASSUME NEW f \in Files PROVE FileOK(x, f)'
      <4>1. /\ PlanOK(x, f) /\ ConsentOK(x, f) /\ SourceOK(x, f) /\ plan(x, f)' = plan(x, f)
            /\ plan(x, f).state \notin {"pending", "placed"} /\ cur(x)' = cur(x)
        BY <3>1, <3>2 DEF FileOK, PlanOK
      <4>2. PlanOK(x, f)'
        BY <2>2, <4>1 DEF PlanOK
      <4>3. ConsentOK(x, f)'
        BY <3>2, <4>1 DEF ConsentOK, NeedsConsent
      <4>4. BatchOK(x, f)' /\ PrefixOK(x, f)' /\ SnapshotOK(x, f)' /\ SameOK(x, f)'
        BY <3>2, <4>1 DEF BatchOK, PrefixOK, SnapshotOK, SameOK
      <4>5. SourceOK(x, f)'
        BY <2>2, <3>2, <4>1 DEF SourceOK
      <4> QED BY <4>2, <4>3, <4>4, <4>5 DEF FileOK
    <3> QED BY <3>2, <3>3, <3>4
  <2> QED BY <2>1, <2>2
<1>2. TransferTypeOK'
  BY <1>1 DEF TInv, TransferTypeOK, cur
<1>3. SessionShape'
  BY <1>1 DEF SessionShape
<1> QED BY <1>2, <1>3 DEF TInv, Alone

\* Sessions are over while the machine is down.
LEMMA DownIdle ==
  ASSUME TInv, ~up, UNCHANGED <<src, listed, rx, reported>>, FolderTypeOK', FolderShape'
  PROVE  TInv'
<1>1. \A x \in Transfers : rx[x].pc = "off" /\ rx'[x] = rx[x]
  BY DEF TInv, SessionShape, SessionOK
<1>2. rx' \in [Transfers -> Session]
  BY DEF TInv, TransferTypeOK
<1> QED BY <1>1, <1>2, IdleKept

\* What was not synced of an inode is not under a name.
LEMMA UnsyncedUnnamed ==
  ASSUME TInv, NEW i \in Inodes, ino[i].synced # Len(ino[i].data)
  PROVE  \A n \in Names : slot[n].ino # i /\ durable[n].ino # i
<1>1. NameShape /\ DeviceShape
  BY DEF TInv, FolderShape
<1> QED BY <1>1, FolderAssumption DEF NameShape, DeviceShape

\* A content of an inode decays.
LEMMA InodeDecays ==
  ASSUME TInv, ~up, NEW i \in Inodes, ino[i].synced < Len(ino[i].data), NEW d \in Data, ino[i].synced <= Len(d),
         ino' = [ino EXCEPT ![i].data = d], UNCHANGED <<up, names>>, UNCHANGED <<src, listed, rx, reported>>
  PROVE  TInv'
<1>1. FolderTypeOK /\ FolderShape /\ UNCHANGED <<up, slot, durable, partial, meta>>
  BY DEF TInv, TransferTypeOK, names
<1>2. ino[i] \in INode /\ ino[i].synced \in 0..MaxSize
  BY <1>1 DEF FolderTypeOK, INode
<1>3. ino[i].synced # Len(ino[i].data)
  BY <1>2, FolderAssumption
<1>4. \A n \in Names : slot[n].ino # i /\ durable[n].ino # i
  BY <1>3, UnsyncedUnnamed
<1>5. PICK t : t = [ino[i] EXCEPT !.data = d]
  OBVIOUS
<1>6. t \in INode /\ t.data = d /\ t.synced = ino[i].synced
  BY <1>2, <1>5 DEF INode
<1>7. ino' = [ino EXCEPT ![i] = t] /\ ino'[i] = t /\ \A j \in Inodes : j # i => ino'[j] = ino[j]
  BY <1>1, <1>5 DEF FolderTypeOK
<1>8. FolderTypeOK'
  BY <1>1, <1>6, <1>7 DEF FolderTypeOK
<1>9. FolderShape'
  <2>1. \A n \in Names : partial'[n] = partial[n] \/ partial'[n] = i
    BY <1>1
  <2>2. \A n, m \in Names : n # m /\ partial'[n] = i => partial'[m] # i
    BY <1>1, FolderAssumption DEF FolderShape, NameShape
  <2> QED BY <1>1, <1>4, <1>7, <2>1, <2>2, FolderWrites
<1> QED BY <1>8, <1>9, DownIdle

\* The tail of a content is lost.
LEMMA LoseTailInv ==
  ASSUME TInv, NEW i \in Inodes, LoseTail(i), UNCHANGED <<src, listed, rx, reported>>
  PROVE  TInv'
<1> DEFINE c == ino[i].data
           d == SubSeq(c, 1, Len(c) - 1)
<1>1. ~up /\ Len(c) > ino[i].synced /\ UNCHANGED <<up, names>> /\ ino' = [ino EXCEPT ![i].data = Front(ino[i].data)]
  BY DEF LoseTail, Size
<1>2. ino[i] \in INode
  BY DEF TInv, TransferTypeOK, FolderTypeOK
<1>3. c \in Data /\ Len(c) \in Nat /\ ino[i].synced \in Nat
  BY <1>2, DataIsSeq, FolderAssumption DEF INode
<1>4. Len(c) - 1 \in Nat /\ Len(c) - 1 <= Len(c)
  BY <1>1, <1>3
<1>5. d \in Data /\ Len(d) = Len(c) - 1
  BY <1>3, <1>4, PrefixIsData
<1>6. ino[i].synced <= Len(d) /\ ino[i].synced < Len(ino[i].data)
  BY <1>1, <1>3, <1>5
<1>7. ino' = [ino EXCEPT ![i].data = d]
  BY <1>1 DEF Front
<1> HIDE DEF d
<1> QED BY <1>1, <1>5, <1>6, <1>7, InodeDecays

\* A block turns into junk.
LEMMA LoseBlockInv ==
  ASSUME TInv, NEW i \in Inodes, NEW k \in 1..MaxSize, LoseBlock(i, k), UNCHANGED <<src, listed, rx, reported>>
  PROVE  TInv'
<1> DEFINE c == ino[i].data
           d == [c EXCEPT ![k] = Junk]
<1>1. ~up /\ k \in (ino[i].synced + 1)..Len(c) /\ UNCHANGED <<up, names>> /\ ino' = [ino EXCEPT ![i].data[k] = Junk]
  BY DEF LoseBlock, Size
<1>2. ino[i] \in INode
  BY DEF TInv, TransferTypeOK, FolderTypeOK
<1>3. c \in Data /\ Len(c) \in Nat /\ ino[i].synced \in Nat /\ c \in Seq(Block) /\ Len(c) <= MaxSize
  BY <1>2, DataIsSeq, FolderAssumption DEF INode
<1>4. d \in Seq(Block) /\ Len(d) = Len(c)
  BY <1>1, <1>3 DEF Block
<1>5. d \in Data
  BY <1>3, <1>4, DataIsSeq
<1>6. ino[i].synced <= Len(d) /\ ino[i].synced < Len(ino[i].data)
  BY <1>1, <1>3, <1>4
<1>7. ino' = [ino EXCEPT ![i].data = d]
  BY <1>1
<1> HIDE DEF d
<1> QED BY <1>1, <1>5, <1>6, <1>7, InodeDecays

\* The partials and sidecars of a machine that is down are lost.
LEMMA LosePartialInv ==
  ASSUME TInv, NEW n \in Names, LosePartial(n) \/ LoseMeta(n), UNCHANGED <<src, listed, rx, reported>>
  PROVE  TInv'
<1>0. FolderTypeOK /\ FolderShape
  BY DEF TInv, TransferTypeOK
<1>1. /\ ~up /\ UNCHANGED <<up, ino, slot, durable>> /\ \A m \in Names : partial'[m] \in {partial[m], NoIno}
      /\ partial' \in [Names -> Inodes \cup {NoIno}] /\ meta' \in [Names -> Entry \cup {NoMeta}]
  BY <1>0 DEF LosePartial, LoseMeta, FolderTypeOK
<1>2. FolderTypeOK' /\ FolderShape'
  BY <1>0, <1>1, FolderSame DEF FolderTypeOK
<1> QED BY <1>1, <1>2, DownIdle

\* A rename is undone.
LEMMA UndoRenameInv ==
  ASSUME TInv, NEW n \in Names, UndoRename(n), UNCHANGED <<src, listed, rx, reported>>
  PROVE  TInv'
<1>0. FolderTypeOK /\ FolderShape /\ NameShape /\ DeviceShape /\ ReportShape
  BY DEF TInv, TransferTypeOK, FolderShape
<1>1. /\ ~up /\ slot[n] # durable[n] /\ UNCHANGED <<up, ino, durable>>
      /\ slot' = [slot EXCEPT ![n] = durable[n]]
  BY DEF UndoRename
<1>2. slot'[n] = durable[n] /\ \A m \in Names : m # n => slot'[m] = slot[m]
  BY <1>0, <1>1 DEF FolderTypeOK
<1>3. IsFile(n) => slot[n].ino # durable[n].ino /\ slot[n].ino \in Inodes
  <2>1. slot[n] \in Slot /\ durable[n] \in Slot
    BY <1>0 DEF FolderTypeOK
  <2>2. IsFile(n) => slot[n].kind = "file" /\ slot[n].ino \in Inodes
    BY <1>0 DEF IsFile, FolderTypeOK
  <2>3. durable[n].kind # "file" => durable[n].ino = NoIno
    BY <1>0 DEF NameShape
  <2> QED BY <1>1, <2>1, <2>2, <2>3, FolderAssumption DEF Slot
<1>4. /\ \A m \in Names : m # n => partial'[m] = partial[m]
      /\ partial'[n] = partial[n] \/ (IsFile(n) /\ partial[n] = NoIno /\ partial'[n] = slot[n].ino)
      /\ partial' \in [Names -> Inodes \cup {NoIno}]
  <2>1. CASE IsFile(n) /\ partial[n] = NoIno
    <3>1. partial' = [partial EXCEPT ![n] = slot[n].ino]
      BY <2>1 DEF UndoRename
    <3> QED BY <1>0, <1>3, <2>1, <3>1 DEF FolderTypeOK
  <2>2. CASE ~(IsFile(n) /\ partial[n] = NoIno)
    <3>1. partial' = partial
      BY <2>2 DEF UndoRename
    <3>2. partial' \in [Names -> Inodes \cup {NoIno}]
      BY <1>0, <3>1 DEF FolderTypeOK
    <3>3. partial'[n] = partial[n] /\ \A m \in Names : m # n => partial'[m] = partial[m]
      BY <3>1
    <3> QED BY <3>2, <3>3, Zenon
  <2> QED BY <2>1, <2>2
<1>5. meta' \in [Names -> Entry \cup {NoMeta}]
  <2>1. CASE IsFile(n) /\ partial[n] = NoIno
    <3>1. PICK m \in {meta[n], [size |-> Size(slot[n].ino), mtime |-> ino[slot[n].ino].mtime]} : meta' = [meta EXCEPT ![n] = m]
      BY <2>1 DEF UndoRename
    <3>2. ino[slot[n].ino] \in INode
      BY <1>0, <1>3, <2>1 DEF FolderTypeOK
    <3>3. Size(slot[n].ino) \in 0..MaxSize /\ ino[slot[n].ino].mtime \in 0..MaxTime
      BY <3>2, DataIsSeq DEF Size, INode
    <3>4. m \in Entry \cup {NoMeta}
      BY <1>0, <3>1, <3>3 DEF FolderTypeOK, Entry
    <3> QED BY <1>0, <3>1, <3>4 DEF FolderTypeOK
  <2>2. CASE ~(IsFile(n) /\ partial[n] = NoIno)
    <3>1. meta' = meta
      BY <2>2 DEF UndoRename
    <3> QED BY <1>0, <3>1 DEF FolderTypeOK
  <2> QED BY <2>1, <2>2
<1>6. FolderTypeOK'
  <2>1. slot' \in [Names -> Slot]
    BY <1>0, <1>1 DEF FolderTypeOK
  <2>2. \A m \in Names : slot'[m].kind = "file" => slot'[m].ino \in Inodes
    BY <1>0, <1>2 DEF FolderTypeOK, NameShape
  <2> QED BY <1>0, <1>1, <1>4, <1>5, <2>1, <2>2 DEF FolderTypeOK
<1>7. NameShape'
  <2>1. ASSUME NEW m \in Names
        PROVE  /\ slot'[m].kind # "file" => slot'[m].ino = NoIno
               /\ durable'[m].kind = "file" => durable'[m].ino \in Inodes
               /\ durable'[m].kind # "file" => durable'[m].ino = NoIno
    BY <1>0, <1>1, <1>2 DEF NameShape
  <2>2. ASSUME NEW m \in Names, NEW k \in Names
        PROVE  partial'[m] # NoIno => partial'[m] # slot'[k].ino /\ partial'[m] # durable'[k].ino
    <3>1. CASE m # n \/ partial'[n] = partial[n]
      <4>1. partial'[m] = partial[m]
        BY <1>4, <3>1
      <4> QED BY <1>0, <1>1, <1>2, <4>1 DEF NameShape
    <3>2. CASE m = n /\ IsFile(n) /\ partial[n] = NoIno /\ partial'[n] = slot[n].ino
      <4>1. slot[n].ino # NoIno /\ slot[n].ino # durable[n].ino /\ slot'[n].ino = durable[n].ino /\ durable' = durable
        BY <1>1, <1>2, <1>3, <3>2, FolderAssumption
      <4>2. k # n => slot[n].ino # slot[k].ino /\ slot[n].ino # durable[k].ino /\ slot'[k] = slot[k]
        BY <1>0, <1>2, <4>1 DEF NameShape
      <4> QED BY <3>2, <4>1, <4>2
    <3> QED BY <1>4, <3>1, <3>2
  <2>3. ASSUME NEW m \in Names, NEW k \in Names, m # k
        PROVE  /\ slot'[m].ino # NoIno => slot'[m].ino # slot'[k].ino /\ slot'[m].ino # durable'[k].ino
               /\ durable'[m].ino # NoIno => durable'[m].ino # durable'[k].ino
    <3>1. /\ slot[m].ino # NoIno => slot[m].ino # slot[k].ino /\ slot[m].ino # durable[k].ino
          /\ durable[m].ino # NoIno => durable[m].ino # durable[k].ino
          /\ slot[k].ino # NoIno => slot[k].ino # slot[m].ino /\ slot[k].ino # durable[m].ino
      BY <1>0, <2>3 DEF NameShape
    <3>2. slot'[m] \in {slot[m], durable[m]} /\ slot'[k] \in {slot[k], durable[k]} /\ durable' = durable
      BY <1>1, <1>2
    <3> QED BY <3>1, <3>2
  <2>4. ASSUME NEW m \in Names, NEW k \in Names, m # k
        PROVE  partial'[m] # NoIno => partial'[m] # partial'[k]
    <3>1. /\ partial[m] # NoIno => partial[m] # partial[k] /\ partial[m] # slot[n].ino
          /\ partial[k] # NoIno => partial[k] # slot[n].ino
      BY <1>0, <2>4 DEF NameShape
    <3>2. partial'[m] \in {partial[m], slot[n].ino} /\ partial'[k] \in {partial[k], slot[n].ino}
          /\ (m # n => partial'[m] = partial[m]) /\ (k # n => partial'[k] = partial[k])
      BY <1>4
    <3> QED BY <2>4, <3>1, <3>2
  <2> QED BY <2>1, <2>2, <2>3, <2>4 DEF NameShape
<1>8. DeviceShape'
  BY <1>0, <1>1, <1>2 DEF DeviceShape
<1>9. ReportShape'
  BY <1>0, <1>1, <1>2 DEF ReportShape, IsFile
<1> QED BY <1>1, <1>6, <1>7, <1>8, <1>9, DownIdle DEF FolderShape

\* The machine boots: what is there is on the device.
LEMMA BootInv ==
  ASSUME TInv, Boot, UNCHANGED <<src, listed, rx, reported>>
  PROVE  TInv'
<1>0. /\ FolderTypeOK /\ FolderShape /\ ~up /\ up' = TRUE /\ durable' = slot /\ UNCHANGED <<slot, partial, meta>>
      /\ ino' = [i \in Inodes |-> Synced(ino[i])]
  BY DEF TInv, TransferTypeOK, Boot
<1>1. \A i \in Inodes : /\ ino'[i] \in INode /\ ino'[i].data = ino[i].data /\ ino'[i].verified = ino[i].verified
                        /\ ino'[i].root = ino[i].root /\ ino'[i].synced = Len(ino[i].data)
                        /\ ino'[i].synced <= Len(ino'[i].data)
  <2> SUFFICES ASSUME NEW i \in Inodes
               PROVE  /\ ino'[i] \in INode /\ ino'[i].data = ino[i].data /\ ino'[i].verified = ino[i].verified
                      /\ ino'[i].root = ino[i].root /\ ino'[i].synced = Len(ino[i].data)
                      /\ ino'[i].synced <= Len(ino'[i].data)
    OBVIOUS
  <2>1. ino[i] \in INode /\ Len(ino[i].data) \in 0..MaxSize
    BY <1>0, DataIsSeq DEF FolderTypeOK, INode
  <2>2. ino'[i] = [ino[i] EXCEPT !.synced = Len(ino[i].data)]
    BY <1>0 DEF Synced
  <2> QED BY <2>1, <2>2, FolderAssumption DEF INode
<1>2. FolderTypeOK'
  <2>1. ino' \in [Inodes -> INode]
    BY <1>0, <1>1
  <2> QED BY <1>0, <1>1, <2>1 DEF FolderTypeOK
<1>3. FolderShape'
  BY <1>0, <1>1, FolderTouched
<1> QED BY <1>0, <1>2, <1>3, DownIdle

\* The power fails.
LEMMA PowerLossInv ==
  ASSUME TInv, PowerLoss
  PROVE  TInv'
<1>0. /\ up' = FALSE /\ UNCHANGED <<ino, names, src, listed, reported>>
      /\ rx' = [x \in Transfers |-> IF rx[x].pc # "off" THEN NoSession ELSE rx[x]]
  BY DEF PowerLoss
<1>1. /\ FolderTypeOK /\ FolderShape /\ UNCHANGED <<slot, durable, partial, meta>> /\ rx \in [Transfers -> Session]
  BY <1>0 DEF TInv, TransferTypeOK, names
<1>2. FolderTypeOK' /\ FolderShape'
  BY <1>0, <1>1, FolderSame DEF FolderTypeOK
<1>3. rx' \in [Transfers -> Session]
  BY <1>0, <1>1, FreshRecords
<1>4. ASSUME NEW x \in Transfers PROVE SessionOK(x)' /\ cur(x)' = NoOpenFile /\ \A f \in Files : FileOK(x, f)'
  <2>1. CASE rx[x].pc # "off"
    <3>1. rx'[x] = NoSession
      BY <1>0, <2>1
    <3> QED BY <1>0, <3>1, SessionsOver, NoSessionFields DEF cur
  <2>2. CASE rx[x].pc = "off"
    <3>1. /\ SessionOK(x) /\ (\A f \in Files : FileOK(x, f) /\ f # NoFile) /\ cur(x) = NoOpenFile /\ rx'[x] = rx[x]
      BY <1>0, <2>2, SessionTypes
    <3>2. cur(x)' = NoOpenFile /\ rx'[x].pc = "off" /\ ~Going(x)' /\ \A f \in Files : plan(x, f)' = plan(x, f)
      BY <2>2, <3>1 DEF cur, plan, Going
    <3>3. SessionOK(x)'
      BY <3>2, NoSessionFields DEF SessionOK
    <3>4. ASSUME NEW f \in Files PROVE FileOK(x, f)'
      <4>1. /\ PlanOK(x, f) /\ ConsentOK(x, f) /\ SourceOK(x, f) /\ plan(x, f)' = plan(x, f)
            /\ plan(x, f).state \notin {"pending", "placed"} /\ cur(x)' = cur(x)
        BY <2>2, <3>1, <3>2 DEF FileOK, PlanOK
      <4>2. PlanOK(x, f)'
        BY <3>1, <4>1 DEF PlanOK
      <4>3. ConsentOK(x, f)'
        BY <3>2, <4>1 DEF ConsentOK, NeedsConsent
      <4>4. BatchOK(x, f)' /\ PrefixOK(x, f)' /\ SnapshotOK(x, f)' /\ SameOK(x, f)'
        BY <3>2, <4>1 DEF BatchOK, PrefixOK, SnapshotOK, SameOK
      <4>5. SourceOK(x, f)'
        BY <1>0, <3>1, <3>2, <4>1 DEF SourceOK
      <4> QED BY <4>2, <4>3, <4>4, <4>5 DEF FileOK
    <3> QED BY <3>2, <3>3, <3>4
  <2> QED BY <2>1, <2>2
<1>5. TransferTypeOK'
  BY <1>0, <1>2, <1>3, <1>4 DEF TInv, TransferTypeOK, cur
<1>6. SessionShape'
  BY <1>4 DEF SessionShape
<1> QED BY <1>2, <1>5, <1>6 DEF TInv, Alone

\* The user saves a file: the names stay apart.
LEMMA UserFolder ==
  ASSUME FolderTypeOK, FolderShape, NEW n \in Names, NEW i \in Inodes, NEW t \in INode,
         t.synced = Len(t.data), t.synced <= Len(t.data), ~t.verified,
         ino' = [ino EXCEPT ![i] = t],
         \A m \in Names : slot[m].ino # i /\ durable[m].ino # i /\ partial[m] # i,
         slot' = [slot EXCEPT ![n] = [kind |-> "file", ino |-> i]],
         durable' = [durable EXCEPT ![n] = [kind |-> "file", ino |-> i]],
         reported' = [reported EXCEPT ![n] = NoReport], reported \in [Names -> Data \cup {NoReport}],
         UNCHANGED <<up, partial, meta>>
  PROVE  FolderTypeOK' /\ FolderShape' /\ reported' \in [Names -> Data \cup {NoReport}]
<1>1. /\ ino'[i] = t /\ (\A j \in Inodes : j # i => ino'[j] = ino[j]) /\ i # NoIno
      /\ slot'[n].kind = "file" /\ slot'[n].ino = i /\ durable'[n] = slot'[n]
      /\ \A m \in Names : m # n => slot'[m] = slot[m] /\ durable'[m] = durable[m]
  BY FolderAssumption DEF FolderTypeOK
<1>2. FolderTypeOK'
  <2>1. slot' \in [Names -> Slot] /\ durable' \in [Names -> Slot]
    BY DEF FolderTypeOK, Slot
  <2> QED BY <1>1, <2>1 DEF FolderTypeOK
<1>3. NameShape'
  <2>1. ASSUME NEW m \in Names
        PROVE  /\ slot'[m].kind # "file" => slot'[m].ino = NoIno
               /\ durable'[m].kind = "file" => durable'[m].ino \in Inodes
               /\ durable'[m].kind # "file" => durable'[m].ino = NoIno
    BY <1>1 DEF FolderShape, NameShape
  <2>2. ASSUME NEW m \in Names, NEW k \in Names
        PROVE  partial'[m] # NoIno => partial'[m] # slot'[k].ino /\ partial'[m] # durable'[k].ino
    BY <1>1 DEF FolderShape, NameShape
  <2>3. ASSUME NEW m \in Names, NEW k \in Names, m # k
        PROVE  /\ slot'[m].ino # NoIno => slot'[m].ino # slot'[k].ino /\ slot'[m].ino # durable'[k].ino
               /\ durable'[m].ino # NoIno => durable'[m].ino # durable'[k].ino
               /\ partial'[m] # NoIno => partial'[m] # partial'[k]
    BY <1>1, <2>3 DEF FolderShape, NameShape
  <2> QED BY <2>1, <2>2, <2>3 DEF NameShape
<1>4. \A m \in Names : m # n =>
          /\ slot[m].kind = "file" => slot[m].ino \in Inodes /\ ino'[slot[m].ino] = ino[slot[m].ino]
          /\ durable[m].kind = "file" => durable[m].ino \in Inodes /\ ino'[durable[m].ino] = ino[durable[m].ino]
  BY <1>1 DEF FolderShape, NameShape, FolderTypeOK
<1>5. DeviceShape'
  <2>1. ASSUME NEW m \in Names, NEW s \in {slot'[m], durable'[m]}, s.kind = "file"
        PROVE  /\ ino'[s.ino].synced = Len(ino'[s.ino].data)
               /\ ino'[s.ino].verified => ino'[s.ino].data = ino'[s.ino].root
    <3>1. CASE m = n
      BY <1>1, <2>1, <3>1
    <3>2. CASE m # n
      BY <1>1, <1>4, <2>1, <3>2 DEF FolderShape, DeviceShape
    <3> QED BY <3>1, <3>2
  <2> QED BY <2>1 DEF DeviceShape
<1>6. reported'[n] = NoReport /\ \A m \in Names : m # n => reported'[m] = reported[m]
  OBVIOUS
<1>7. ReportShape'
  BY <1>1, <1>4, <1>6 DEF FolderShape, ReportShape, IsFile
<1> QED BY <1>2, <1>3, <1>5, <1>7 DEF FolderShape

\* The user saves a file.
LEMMA UserWriteInv ==
  ASSUME TInv, NEW n \in Names, NEW d \in UserData, UserWrite(n, d)
  PROVE  TInv'
<1>i. PICK i : i = Fresh
  OBVIOUS
<1>t. PICK t : t = [EmptyINode EXCEPT !.data = d, !.synced = Len(d)]
  OBVIOUS
<1>0. /\ up /\ Cardinality(Free) > 1 /\ UNCHANGED <<up, partial, meta, src, listed, rx>>
      /\ ino' = [ino EXCEPT ![i] = t]
      /\ slot' = [slot EXCEPT ![n] = [kind |-> "file", ino |-> i]]
      /\ durable' = [durable EXCEPT ![n] = [kind |-> "file", ino |-> i]]
      /\ reported' = [reported EXCEPT ![n] = NoReport]
  BY <1>i, <1>t DEF UserWrite
<1>1. Free # {}
  <2>1. Free = {} => Cardinality(Free) = 0
    BY FS_EmptySet
  <2> QED BY <1>0, <2>1
<1>2. /\ i \in Inodes
      /\ \A m \in Names : slot[m].ino # i /\ durable[m].ino # i /\ partial[m] # i
      /\ \A x \in Transfers : cur(x).ino # i
      /\ \A x \in Transfers, f \in Files : plan(x, f).ino # i /\ plan(x, f).seen.ino # i
  BY <1>i, <1>1, FreshUnused
<1>3. d \in Data /\ Len(d) \in 0..MaxSize
  BY TransferAssumption, DataIsSeq
<1>4. t \in INode /\ t.data = d /\ t.synced = Len(t.data) /\ t.synced <= Len(t.data) /\ ~t.verified
  <2>1. t.data = d /\ t.synced = Len(d) /\ t.mtime = 0 /\ t.verified = FALSE /\ t.root = <<>>
    BY <1>t DEF EmptyINode
  <2>2. t \in INode
    <3>1. EmptyINode \in INode
      BY FreshRecords
    <3> QED BY <1>t, <1>3, <3>1 DEF INode
  <2>3. Len(d) <= Len(d)
    BY <1>3, FolderAssumption
  <2> QED BY <2>1, <2>2, <2>3
<1>5. FolderTypeOK /\ FolderShape /\ reported \in [Names -> Data \cup {NoReport}]
  BY DEF TInv, TransferTypeOK
<1>6. FolderTypeOK' /\ FolderShape' /\ reported' \in [Names -> Data \cup {NoReport}]
  BY <1>0, <1>2, <1>4, <1>5, UserFolder
<1>7. /\ ino'[i] = t /\ (\A j \in Inodes : j # i => ino'[j] = ino[j])
      /\ slot'[n].kind = "file" /\ slot'[n].ino = i
      /\ \A m \in Names : m # n => slot'[m] = slot[m]
  BY <1>0, <1>2, <1>5 DEF FolderTypeOK
<1>8. ASSUME NEW x \in Transfers PROVE SessionOK(x)' /\ \A f \in Files : FileOK(x, f)'
  <2>0. /\ SessionOK(x) /\ (\A f \in Files : FileOK(x, f) /\ f \in Names /\ plan(x, f).rel \in Names)
        /\ cur(x) \in OpenFile
    BY SessionTypes
  <2>1. cur(x)' = cur(x) /\ (\A f \in Files : plan(x, f)' = plan(x, f)) /\ Going(x)' = Going(x) /\ Asked(x)' = Asked(x)
        /\ Empties(x)' = Empties(x) /\ rx' = rx /\ partial' = partial /\ src' = src /\ listed' = listed /\ up' = up
    BY <1>0 DEF cur, plan, Going, Asked, Empties
  <2>2. SessionOK(x)'
    <3>1. cur(x).file # NoFile => cur(x).file \in Files
      BY <2>0 DEF OpenFile
    <3>2. cur(x).ino # NoIno => ino'[cur(x).ino] = ino[cur(x).ino]
      BY <1>2, <1>7, <2>0 DEF OpenFile
    <3> QED BY <2>0, <2>1, <3>1, <3>2 DEF SessionOK
  <2>3. ASSUME NEW f \in Files PROVE FileOK(x, f)'
    <3>0. /\ PlanOK(x, f) /\ ConsentOK(x, f) /\ BatchOK(x, f) /\ PrefixOK(x, f) /\ SourceOK(x, f)
          /\ SnapshotOK(x, f) /\ SameOK(x, f) /\ plan(x, f)' = plan(x, f) /\ f \in Names /\ plan(x, f).rel \in Names
      BY <2>0, <2>1 DEF FileOK
    <3>1. PlanOK(x, f)'
      BY <2>1, <3>0 DEF PlanOK
    <3>2. ConsentOK(x, f)'
      BY <2>1, <3>0 DEF ConsentOK, NeedsConsent
    <3>3. plan(x, f).state \in {"pending", "placed"} => ino'[plan(x, f).ino] = ino[plan(x, f).ino]
      BY <1>2, <1>7, <3>0 DEF BatchOK
    <3>4. BatchOK(x, f)'
      <4>1. plan(x, f).state = "placed" =>
               /\ slot'[plan(x, f).rel].kind = "file"
               /\ slot'[plan(x, f).rel].ino = plan(x, f).ino \/ ~ino'[slot'[plan(x, f).rel].ino].verified
        <5>1. CASE plan(x, f).rel = n
          BY <1>4, <1>7, <5>1
        <5>2. CASE plan(x, f).rel # n
          <6>1. slot'[plan(x, f).rel] = slot[plan(x, f).rel]
            BY <1>7, <3>0, <5>2
          <6>2. slot[plan(x, f).rel].kind = "file" =>
                   ino'[slot[plan(x, f).rel].ino] = ino[slot[plan(x, f).rel].ino]
            BY <1>2, <1>5, <1>7, <3>0 DEF FolderTypeOK
          <6> QED BY <3>0, <6>1, <6>2 DEF BatchOK, IsFile
        <5> QED BY <5>1, <5>2
      <4> QED BY <2>1, <3>0, <3>3, <4>1 DEF BatchOK, IsFile
    <3>5. PrefixOK(x, f)'
      <4>1. partial[plan(x, f).rel] # NoIno => ino'[partial[plan(x, f).rel]] = ino[partial[plan(x, f).rel]]
        BY <1>2, <1>5, <1>7, <3>0 DEF FolderTypeOK
      <4> QED BY <2>1, <3>0, <4>1 DEF PrefixOK, Size
    <3>6. SourceOK(x, f)'
      BY <2>1, <3>0 DEF SourceOK
    <3>7. SnapshotOK(x, f)'
      BY <2>1, <3>0, <3>3 DEF SnapshotOK
    <3>8. SameOK(x, f)'
      <4>1. CASE f = n
        <5>1. plan(x, f)'.seen # slot'[f]
          BY <1>2, <1>7, <3>0, <4>1
        <5> QED BY <5>1 DEF SameOK
      <4>2. CASE f # n
        <5>1. slot'[f] = slot[f] /\ (slot[f].kind = "file" => ino'[slot[f].ino] = ino[slot[f].ino])
          BY <1>2, <1>5, <1>7, <3>0, <4>2 DEF FolderTypeOK
        <5> QED BY <2>1, <3>0, <5>1 DEF SameOK, IsFile
      <4> QED BY <4>1, <4>2
    <3> QED BY <3>1, <3>2, <3>4, <3>5, <3>6, <3>7, <3>8 DEF FileOK
  <2> QED BY <2>2, <2>3
<1>9. SessionShape'
  BY <1>8 DEF SessionShape
<1>10. TransferTypeOK'
  BY <1>0, <1>6 DEF TInv, TransferTypeOK
<1> QED BY <1>6, <1>9, <1>10 DEF TInv, Alone

-----------------------------------------------------------------------------
\* Partials are dropped.
LEMMA RemovedTypes ==
  ASSUME TInv, NEW S, remove(S), UNCHANGED <<up, ino, slot, durable, src, listed, reported>>
  PROVE  /\ FolderTypeOK' /\ FolderShape' /\ \A n \in Names : partial'[n] \in {partial[n], NoIno}
         /\ src' \in [Transfers -> [Files -> Source]] /\ listed' \in [Transfers -> [Files -> Entry]]
         /\ reported' \in [Names -> Data \cup {NoReport}]
<1>1. TransferTypeOK /\ FolderTypeOK /\ FolderShape
  BY DEF TInv, TransferTypeOK
<1>2. /\ \A n \in Names : partial'[n] \in {partial[n], NoIno}
      /\ partial' \in [Names -> Inodes \cup {NoIno}] /\ meta' \in [Names -> Entry \cup {NoMeta}]
  BY <1>1 DEF remove, FolderTypeOK
<1>3. FolderTypeOK'
  BY <1>1, <1>2 DEF FolderTypeOK
<1>4. FolderShape'
  BY <1>1, <1>2, FolderSame
<1>5. /\ src' \in [Transfers -> [Files -> Source]] /\ listed' \in [Transfers -> [Files -> Entry]]
      /\ reported' \in [Names -> Data \cup {NoReport}]
  BY <1>1 DEF TransferTypeOK
<1> QED BY <1>2, <1>3, <1>4, <1>5

\* What the plan of a classified file holds: the offset is inside the partial,
\* and the prefix is its beginning.
LEMMA PlannedRecord ==
  ASSUME TInv, NEW f \in Files, NEW n \in Names, NEW d \in Dispositions, NEW e \in Entry,
         d = "resume" => CanResume(n, e), NEW q, q = Planned(f, n, d, e)
  PROVE  /\ q \in Plan /\ q.rel = n /\ q.disp = d /\ q.seen = slot[n] /\ q.action = "none" /\ q.own = "none"
         /\ q.state = "todo"
         /\ d = "resume" => /\ partial[n] # NoIno /\ q.off <= Size(partial[n])
                            /\ q.prefix = SubSeq(ino[partial[n]].data, 1, q.off)
<1>1. PICK o : o = IF d = "resume" THEN Aligned(n, e) ELSE 0
  OBVIOUS
<1>2. PICK h : h = IF d = "resume" THEN SubSeq(ino[partial[n]].data, 1, o) ELSE <<>>
  OBVIOUS
<1>3. q = [NewPlan(f) EXCEPT !.rel = n, !.disp = d, !.seen = slot[n], !.off = o, !.prefix = h]
  BY <1>1, <1>2 DEF Planned
<1>4. FolderTypeOK /\ slot[n] \in Slot /\ NewPlan(f) \in Plan
  BY FreshRecords DEF TInv, TransferTypeOK, FolderTypeOK
<1>5. CASE d # "resume"
  <2>1. o = 0 /\ h = <<>> /\ o \in 0..MaxSize /\ h \in Data
    BY <1>1, <1>2, <1>5, DataIsSeq, FolderAssumption
  <2>2. q \in Plan
    BY <1>3, <1>4, <2>1 DEF Plan
  <2> QED BY <1>3, <1>5, <2>2 DEF NewPlan
<1>6. CASE d = "resume"
  <2>1. partial[n] # NoIno /\ partial[n] \in Inodes /\ Aligned(n, e) > 0
    BY <1>4, <1>6 DEF CanResume, lookup, FolderTypeOK
  <2>2. ino[partial[n]].data \in Data
    BY <1>4, <2>1 DEF FolderTypeOK, INode
  <2>3. Size(partial[n]) \in 0..MaxSize /\ e.size \in 0..MaxSize
    BY <2>2, DataIsSeq DEF Size, Entry
  <2>4. o = Least(Size(partial[n]), e.size - 1) /\ o > 0
    BY <1>1, <1>6, <2>1 DEF Aligned
  <2>5. o \in Nat /\ o <= Size(partial[n]) /\ o \in 0..MaxSize
    BY <2>3, <2>4, FolderAssumption DEF Least
  <2>6. h = SubSeq(ino[partial[n]].data, 1, o) /\ h \in Data
    BY <1>2, <1>6, <2>2, <2>5, PrefixIsData DEF Size
  <2>7. q \in Plan
    BY <1>3, <1>4, <2>5, <2>6 DEF Plan
  <2>8. q.off = o /\ q.prefix = h
    BY <1>3 DEF NewPlan
  <2>9. /\ q.rel = n /\ q.disp = d /\ q.seen = slot[n] /\ q.action = "none" /\ q.own = "none" /\ q.state = "todo"
    BY <1>3 DEF NewPlan
  <2> QED BY <2>1, <2>5, <2>6, <2>7, <2>8, <2>9
<1> QED BY <1>5, <1>6

\* What classifyOne says of the name and its partial; with --checksum a file
\* of the same size is hashed before it is called identical.
LEMMA ClassifiedOne ==
  ASSUME NEW n, NEW e, NEW c, c = classifyOne(n, e)
  PROVE  /\ c \in Dispositions
         /\ c = "resume" => slot[n] = Absent /\ CanResume(n, e)
         /\ c = "new" => slot[n] = Absent
         /\ Checksum => c # "identical"
  BY DEF classifyOne, Dispositions

\* The receiver classifies the listing.
LEMMA ClassifyInv ==
  ASSUME TInv, NEW x \in Transfers, NEW lost \in SUBSET Files, classify(x, lost)
  PROVE  TInv'
<1> DEFINE disp(f) == IF f \in lost THEN "new" ELSE classifyOne(f, listed[x][f])
           P == [f \in Files |-> Planned(f, f, disp(f), listed[x][f])]
           s == [NoSession EXCEPT !.pc = "classified", !.plan = P]
<1>0. /\ up /\ rx[x].pc = "swept" /\ (\A f \in lost : classifyOne(f, listed[x][f]) = "resume")
      /\ rx' = [rx EXCEPT ![x] = s] /\ UNCHANGED <<up, ino, slot, durable, src, listed, reported>>
  BY DEF classify
<1>1. PICK S : remove(S)
  BY DEF classify
<1>2. /\ FolderTypeOK' /\ FolderShape' /\ (\A n \in Names : partial'[n] \in {partial[n], NoIno})
      /\ src' \in [Transfers -> [Files -> Source]] /\ listed' \in [Transfers -> [Files -> Entry]]
      /\ reported' \in [Names -> Data \cup {NoReport}]
  BY <1>0, <1>1, RemovedTypes
<1>3. ASSUME NEW f \in Files
      PROVE  /\ disp(f) \in Dispositions
             /\ disp(f) = "resume" => slot[f] = Absent /\ CanResume(f, listed[x][f])
             /\ disp(f) = "new" => slot[f] = Absent
             /\ Checksum => disp(f) # "identical"
  <2>1. CASE f \in lost
    BY <1>0, <2>1, ClassifiedOne DEF Dispositions
  <2>2. CASE f \notin lost
    BY <2>2, ClassifiedOne
  <2> QED BY <2>1, <2>2
<1> HIDE DEF disp
<1>4. ASSUME NEW f \in Files
      PROVE  /\ P[f] \in Plan /\ P[f].rel = f /\ P[f].disp = disp(f) /\ P[f].seen = slot[f]
             /\ P[f].action = "none" /\ P[f].own = "none" /\ P[f].state = "todo"
             /\ disp(f) = "resume" => /\ partial[f] # NoIno /\ P[f].off <= Size(partial[f])
                                      /\ P[f].prefix = SubSeq(ino[partial[f]].data, 1, P[f].off)
  <2>1. f \in Names /\ listed[x][f] \in Entry
    BY SessionTypes DEF TransferTypeOK
  <2>2. P[f] = Planned(f, f, disp(f), listed[x][f])
    OBVIOUS
  <2> HIDE DEF P
  <2> QED BY <1>3, <2>1, <2>2, PlannedRecord
<1>5. P \in [Files -> Plan]
  <2>1. P = [f \in Files |-> P[f]]
    OBVIOUS
  <2> HIDE DEF P
  <2> QED BY <1>4, <2>1
<1> HIDE DEF P
<1>6. /\ s \in Session /\ s.pc = "classified" /\ s.plan = P /\ s.cur = NoOpenFile /\ ~s.acked
  BY <1>5, FreshRecords, NoSessionFields DEF Session
<1> HIDE DEF s
<1>7. /\ rx' \in [Transfers -> Session] /\ rx'[x].pc = "classified" /\ ~rx'[x].acked
      /\ cur(x)' = NoOpenFile /\ \A f \in Files : plan(x, f)' = P[f]
  BY <1>0, <1>6 DEF TInv, TransferTypeOK, cur, plan
<1>8. SessionOK(x)'
  BY <1>0, <1>7, NoSessionFields DEF SessionOK
<1>9. ASSUME NEW f \in Files PROVE FileOK(x, f)'
  <2>0. f # NoFile /\ f \in Names /\ SourceOK(x, f)
    BY SessionTypes DEF FileOK
  <2>1. /\ plan(x, f)'.rel = f /\ plan(x, f)'.disp = disp(f) /\ plan(x, f)'.seen = slot[f]
        /\ plan(x, f)'.action = "none" /\ plan(x, f)'.own = "none" /\ plan(x, f)'.state = "todo"
        /\ plan(x, f)'.off = P[f].off /\ plan(x, f)'.prefix = P[f].prefix
    BY <1>4, <1>7
  <2>2. PlanOK(x, f)'
    BY <1>7, <2>0, <2>1, NoSessionFields DEF PlanOK, Early
  <2>3. ConsentOK(x, f)'
    BY <1>3, <1>7, <2>1 DEF ConsentOK
  <2>4. BatchOK(x, f)' /\ SnapshotOK(x, f)'
    BY <2>1 DEF BatchOK, SnapshotOK
  <2>5. PrefixOK(x, f)'
    <3>1. partial'[f] # NoIno => partial'[f] = partial[f]
      BY <1>2, <2>0
    <3>2. disp(f) = "resume" => /\ P[f].off <= Len(ino[partial[f]].data)
                                /\ P[f].prefix = SubSeq(ino[partial[f]].data, 1, P[f].off)
      BY <1>4 DEF Size
    <3>3. ino' = ino
      BY <1>0
    <3> QED BY <2>1, <3>1, <3>2, <3>3 DEF PrefixOK, Size
  <2>6. SourceOK(x, f)'
    BY <1>0, <1>7, <2>0, <2>1, NoSessionFields DEF SourceOK
  <2>7. SameOK(x, f)'
    BY <1>3, <2>1 DEF SameOK
  <2> QED BY <2>2, <2>3, <2>4, <2>5, <2>6, <2>7 DEF FileOK
<1> QED BY <1>2, <1>7, <1>8, <1>9, Assembled

\* The plans of a session that classified its files change.
LEMMA PlansChange ==
  ASSUME TInv, NEW x \in Transfers, NEW P \in [Files -> Plan], NEW s,
         s = [rx[x] EXCEPT !.plan = P] \/ s = [rx[x] EXCEPT !.pc = "data", !.plan = P],
         rx' = [rx EXCEPT ![x] = s]
  PROVE  /\ rx' \in [Transfers -> Session] /\ rx'[x].pc \in {rx[x].pc, "data"} /\ rx'[x].pc = s.pc
         /\ rx'[x].then = rx[x].then /\ rx'[x].acked = rx[x].acked
         /\ cur(x)' = cur(x) /\ \A f \in Files : plan(x, f)' = P[f]
<1>0. rx[x] \in Session
  BY SessionTypes
<1>1. /\ s \in Session /\ s.pc \in {rx[x].pc, "data"} /\ s.plan = P /\ s.cur = rx[x].cur
      /\ s.then = rx[x].then /\ s.acked = rx[x].acked
  BY <1>0 DEF Session
<1>a. s \in Session
  BY <1>1
<1>2. rx' \in [Transfers -> Session] /\ rx'[x] = s /\ cur(x)' = s.cur /\ \A f \in Files : plan(x, f)' = s.plan[f]
  BY <1>a DEF TInv, TransferTypeOK, cur, plan
<1>3. cur(x)' = cur(x)
  BY <1>1, <1>2 DEF cur
<1> QED BY <1>1, <1>2, <1>3

\* A session that classified its files has no file open and nothing asked.
LEMMA Classified ==
  ASSUME TInv, NEW x \in Transfers, rx[x].pc = "classified", cur(x)' = cur(x), rx'[x].acked = rx[x].acked,
         rx'[x].pc \in {"classified", "data"}, up'
  PROVE  SessionOK(x)' /\ cur(x)' = NoOpenFile /\ ~rx'[x].acked
<1>1. SessionOK(x) /\ cur(x) = NoOpenFile
  BY SessionTypes
<1>2. ~rx[x].acked
  BY <1>1 DEF SessionOK
<1>3. SessionOK(x)'
  BY <1>1, <1>2, NoSessionFields DEF SessionOK
<1> QED BY <1>1, <1>2, <1>3

\* The hashes decide about the files of the same size.
LEMMA ResolveVerifyInv ==
  ASSUME TInv, NEW x \in Transfers, resolveVerify(x)
  PROVE  TInv'
<1> DEFINE verify == {f \in Files : plan(x, f).disp = "verify"}
           new(f) == IF f \in verify THEN [plan(x, f) EXCEPT !.disp = IF Matches(x, f) THEN "identical" ELSE "differs"]
                     ELSE plan(x, f)
           P == [f \in Files |-> new(f)]
           s == [rx[x] EXCEPT !.plan = P]
<1>0. /\ up /\ rx[x].pc = "classified" /\ UNCHANGED <<up, names, src, listed, reported>>
      /\ rx' = [rx EXCEPT ![x].plan = P]
      /\ ino' = [i \in Inodes |->
                   IF \E f \in verify : Matches(x, f) /\ slot[f].ino = i
                   THEN [ino[i] EXCEPT !.mtime = listed[x][CHOOSE f \in verify : slot[f].ino = i].mtime]
                   ELSE ino[i]]
  BY DEF resolveVerify
<1>u. UNCHANGED <<slot, durable, partial, meta>>
  BY <1>0 DEF names
<1>1. ASSUME NEW f \in Files
      PROVE  /\ P[f] \in Plan /\ P[f].rel = plan(x, f).rel /\ P[f].seen = plan(x, f).seen /\ P[f].off = plan(x, f).off
             /\ P[f].prefix = plan(x, f).prefix /\ P[f].action = plan(x, f).action /\ P[f].own = plan(x, f).own
             /\ P[f].ownPrefix = plan(x, f).ownPrefix /\ P[f].state = plan(x, f).state
             /\ P[f].disp = plan(x, f).disp \/ (P[f].disp = "identical" /\ Matches(x, f)) \/ P[f].disp = "differs"
  <2>1. plan(x, f) \in Plan
    BY SessionTypes
  <2>2. P[f] = new(f)
    OBVIOUS
  <2>3. CASE f \notin verify
    <3>1. P[f] = plan(x, f)
      BY <2>2, <2>3
    <3> QED BY <2>1, <3>1
  <2>4. CASE f \in verify
    <3>1. PICK d : d = IF Matches(x, f) THEN "identical" ELSE "differs"
      OBVIOUS
    <3>2. P[f] = [plan(x, f) EXCEPT !.disp = d]
      BY <2>2, <2>4, <3>1
    <3>3. d \in Dispositions /\ ((d = "identical" /\ Matches(x, f)) \/ d = "differs")
      BY <3>1 DEF Dispositions
    <3> HIDE DEF P
    <3> QED BY <2>1, <3>2, <3>3 DEF Plan
  <2> QED BY <2>3, <2>4
<1>2. P \in [Files -> Plan]
  <2>1. P = [f \in Files |-> P[f]]
    OBVIOUS
  <2> HIDE DEF P
  <2> QED BY <1>1, <2>1
<1>3. ASSUME NEW i \in Inodes
      PROVE  /\ ino'[i] \in INode /\ ino'[i].data = ino[i].data /\ ino'[i].verified = ino[i].verified
             /\ ino'[i].root = ino[i].root /\ ino'[i].synced = ino[i].synced
  <2>0. ino[i] \in INode /\ listed[x] \in [Files -> Entry]
    BY DEF TInv, TransferTypeOK, FolderTypeOK
  <2>1. CASE ~\E f \in verify : Matches(x, f) /\ slot[f].ino = i
    BY <1>0, <2>0, <2>1
  <2>2. CASE \E f \in verify : Matches(x, f) /\ slot[f].ino = i
    <3>1. PICK g : g = CHOOSE f \in verify : slot[f].ino = i
      OBVIOUS
    <3>2. g \in verify
      BY <2>2, <3>1
    <3>3. listed[x][g].mtime \in 0..MaxTime
      BY <2>0, <3>2 DEF Entry
    <3>4. ino'[i] = [ino[i] EXCEPT !.mtime = listed[x][g].mtime]
      BY <1>0, <2>2, <3>1
    <3> QED BY <2>0, <3>3, <3>4 DEF INode
  <2> QED BY <2>1, <2>2
<1>4. FolderTypeOK /\ FolderShape /\ rx[x] \in Session /\ rx \in [Transfers -> Session]
  BY SessionTypes
<1>5. ino' \in [Inodes -> INode]
  BY <1>0, <1>3
<1>6. FolderTypeOK'
  BY <1>0, <1>u, <1>3, <1>4, <1>5 DEF FolderTypeOK
<1>7. FolderShape'
  BY <1>0, <1>u, <1>3, <1>4, FolderTouched
<1> HIDE DEF P
<1>8. rx' = [rx EXCEPT ![x] = s] /\ s.pc = "classified"
  BY <1>0, <1>4 DEF Session
<1>9. /\ rx' \in [Transfers -> Session] /\ rx'[x].pc = "classified" /\ rx'[x].acked = rx[x].acked
      /\ cur(x)' = cur(x) /\ \A f \in Files : plan(x, f)' = P[f]
  BY <1>2, <1>8, PlansChange
<1>10. SessionOK(x)' /\ cur(x)' = NoOpenFile /\ ~rx'[x].acked
  BY <1>0, <1>9, Classified
<1>11. ASSUME NEW f \in Files PROVE FileOK(x, f)'
  <2>0. /\ PlanOK(x, f) /\ ConsentOK(x, f) /\ PrefixOK(x, f) /\ SourceOK(x, f) /\ SameOK(x, f)
        /\ f # NoFile /\ f \in Names /\ plan(x, f).rel \in Names
    BY SessionTypes DEF FileOK
  <2>1. /\ plan(x, f)'.rel = plan(x, f).rel /\ plan(x, f)'.seen = plan(x, f).seen /\ plan(x, f)'.off = plan(x, f).off
        /\ plan(x, f)'.prefix = plan(x, f).prefix /\ plan(x, f)'.action = plan(x, f).action
        /\ plan(x, f)'.own = plan(x, f).own /\ plan(x, f)'.ownPrefix = plan(x, f).ownPrefix
        /\ plan(x, f)'.state = plan(x, f).state
        /\ \/ plan(x, f)'.disp = plan(x, f).disp
           \/ plan(x, f)'.disp = "identical" /\ Matches(x, f)
           \/ plan(x, f)'.disp = "differs"
    BY <1>1, <1>9
  <2>2. plan(x, f).state = "todo" /\ plan(x, f).action = "none"
    BY <1>0, <2>0 DEF PlanOK
  <2>3. PlanOK(x, f)'
    BY <1>9, <1>10, <2>0, <2>1, <2>2, NoSessionFields DEF PlanOK, Early
  <2>4. ConsentOK(x, f)'
    BY <2>0, <2>1, <2>2 DEF ConsentOK
  <2>5. BatchOK(x, f)' /\ SnapshotOK(x, f)'
    BY <2>1, <2>2 DEF BatchOK, SnapshotOK
  <2>6. PrefixOK(x, f)'
    <3>1. Going(x)
      BY <1>0 DEF Going
    <3>2. cur(x).file # f
      BY <1>9, <1>10, <2>0, NoSessionFields
    <3>3. plan(x, f)'.disp = "resume" => plan(x, f).disp = "resume"
      BY <2>1
    <3>4. partial[plan(x, f).rel] # NoIno => ino'[partial[plan(x, f).rel]].data = ino[partial[plan(x, f).rel]].data
      BY <1>3, <1>4, <2>0 DEF FolderTypeOK
    <3> QED BY <1>u, <2>0, <2>1, <2>2, <3>1, <3>2, <3>3, <3>4 DEF PrefixOK, Size
  <2>7. SourceOK(x, f)'
    <3>1. cur(x)'.file # f /\ rx[x].pc # "off"
      BY <1>0, <1>10, <2>0, NoSessionFields
    <3> QED BY <1>0, <2>0, <2>1, <3>1 DEF SourceOK
  <2>8. SameOK(x, f)'
    <3> SUFFICES ASSUME Checksum, plan(x, f)'.disp = "identical", plan(x, f)'.seen = slot'[f]
                 PROVE  slot'[f].kind = "file" /\ \E v \in DOMAIN src'[x][f].versions : ino'[slot'[f].ino].data = src'[x][f].versions[v]
      BY DEF SameOK, IsFile
    <3>1. IsFile(f) /\ \E v \in DOMAIN src[x][f].versions : ino[slot[f].ino].data = src[x][f].versions[v]
      <4>1. CASE plan(x, f).disp = "identical"
        BY <1>0, <1>u, <2>0, <2>1, <4>1 DEF SameOK
      <4>2. CASE plan(x, f).disp # "identical"
        <5>1. Matches(x, f)
          BY <2>1, <4>2
        <5>2. IsFile(f) /\ ino[slot[f].ino].data = data(x, f)
          BY <5>1 DEF Matches
        <5>3. /\ Len(src[x][f].versions) \in DOMAIN src[x][f].versions
              /\ data(x, f) = src[x][f].versions[Len(src[x][f].versions)]
          BY SourceTypes DEF TInv
        <5> QED BY <5>2, <5>3
      <4> QED BY <4>1, <4>2
    <3>2. slot[f].ino \in Inodes
      BY <1>4, <2>0, <3>1 DEF FolderTypeOK, IsFile
    <3>3. ino'[slot[f].ino].data = ino[slot[f].ino].data
      BY <1>3, <3>2
    <3> QED BY <1>0, <1>u, <3>1, <3>3 DEF IsFile
  <2> QED BY <2>3, <2>4, <2>5, <2>6, <2>7, <2>8 DEF FileOK
<1>12. /\ src' \in [Transfers -> [Files -> Source]] /\ listed' \in [Transfers -> [Files -> Entry]]
       /\ reported' \in [Names -> Data \cup {NoReport}]
  BY <1>0 DEF TInv, TransferTypeOK
<1> QED BY <1>6, <1>7, <1>9, <1>10, <1>11, <1>12, Assembled

\* The decision on a plan: what was not there is asked for, what needs consent
\* only with it.
LEMMA DecidedRecord ==
  ASSUME NEW p \in Plan, NEW replace, NEW q, q = Decided(p, replace)
  PROVE  /\ q \in Plan /\ q.rel = p.rel /\ q.disp = p.disp /\ q.seen = p.seen /\ q.off = p.off /\ q.prefix = p.prefix
         /\ q.own = p.own /\ q.ownPrefix = p.ownPrefix /\ q.state = p.state
         /\ q.action \in {"send", "resume", "skip"}
         /\ q.action = "send" => p.disp = "new" \/ NeedsConsent(p)
         /\ q.action = "resume" => p.disp = "resume"
<1>1. PICK a : a = CASE p.disp = "new" -> "send"
                     [] p.disp = "resume" -> "resume"
                     [] NeedsConsent(p) /\ replace -> "send"
                     [] OTHER -> "skip"
  OBVIOUS
<1>2. q = [p EXCEPT !.action = a]
  BY <1>1 DEF Decided
<1>3. /\ a \in {"send", "resume", "skip"} /\ (a = "send" => p.disp = "new" \/ NeedsConsent(p))
      /\ (a = "resume" => p.disp = "resume")
  BY <1>1 DEF NeedsConsent
<1> QED BY <1>2, <1>3 DEF Plan

\* The plan of a file under the policy the user chose.
Applied(x, f, policy) ==
    CASE policy = "replace" -> Replaced(plan(x, f))
      [] policy = "rename" -> Retargeted(x, f, plan(x, f))
      [] OTHER -> plan(x, f)

\* A policy asks for nothing that is there under its name, but for what needs
\* consent, and keeps what was hashed of a partial.
LEMMA AppliedRecord ==
  ASSUME TInv, NEW x \in Transfers, NEW f \in Files, NEW policy \in {"keep", "replace", "rename"},
         rx[x].pc = "classified", NEW a, a = Applied(x, f, policy),
         policy = "rename" /\ NeedsConsent(plan(x, f)) => FreeName(f) \in Names /\ slot[FreeName(f)] = Absent
  PROVE  /\ a \in Plan /\ a.rel \in {f, FreeName(f)} /\ a.state = "todo"
         /\ a.disp \in {"new", "resume"} => a.seen = Absent
         /\ a.disp = "resume" /\ partial[a.rel] # NoIno =>
               a.off <= Size(partial[a.rel]) /\ a.prefix = SubSeq(ino[partial[a.rel]].data, 1, a.off)
         /\ a.own = "none" \/ (a.own = plan(x, f).own /\ a.off = plan(x, f).off /\ a.ownPrefix = plan(x, f).ownPrefix)
<1>0. /\ plan(x, f) \in Plan /\ PlanOK(x, f) /\ ConsentOK(x, f) /\ PrefixOK(x, f) /\ Going(x) /\ cur(x).file # f
  BY SessionTypes, NoSessionFields DEF FileOK, Going
<1>1. /\ plan(x, f).rel \in {f, FreeName(f)} /\ plan(x, f).state = "todo"
      /\ plan(x, f).disp \in {"new", "resume"} => plan(x, f).seen = Absent
      /\ plan(x, f).disp = "resume" /\ partial[plan(x, f).rel] # NoIno =>
               /\ plan(x, f).off <= Size(partial[plan(x, f).rel])
               /\ plan(x, f).prefix = SubSeq(ino[partial[plan(x, f).rel]].data, 1, plan(x, f).off)
  BY <1>0 DEF PlanOK, ConsentOK, PrefixOK
<1>2. CASE a = plan(x, f)
  BY <1>0, <1>1, <1>2
<1>3. CASE policy = "replace" /\ a # plan(x, f)
  <2>1. a = [plan(x, f) EXCEPT !.disp = "refused"]
    BY <1>3 DEF Applied, Replaced
  <2>2. /\ a \in Plan /\ a.rel = plan(x, f).rel /\ a.state = plan(x, f).state /\ a.disp = "refused"
        /\ a.own = plan(x, f).own /\ a.off = plan(x, f).off /\ a.ownPrefix = plan(x, f).ownPrefix
    BY <1>0, <2>1 DEF Plan, Dispositions
  <2> QED BY <1>1, <2>2
<1>4. CASE policy = "rename" /\ a # plan(x, f)
  <2>1. PICK d : d = IF CanResume(FreeName(f), listed[x][f]) THEN "resume" ELSE "new"
    OBVIOUS
  <2>2. NeedsConsent(plan(x, f)) /\ a = Planned(f, FreeName(f), d, listed[x][f])
    BY <1>4, <2>1 DEF Applied, Retargeted
  <2>3. /\ d \in Dispositions /\ (d = "resume" => CanResume(FreeName(f), listed[x][f])) /\ listed[x][f] \in Entry
        /\ FreeName(f) \in Names /\ slot[FreeName(f)] = Absent
    BY <1>4, <2>1, <2>2 DEF Dispositions, TInv, TransferTypeOK
  <2>4. /\ a \in Plan /\ a.rel = FreeName(f) /\ a.disp = d /\ a.seen = Absent /\ a.own = "none" /\ a.state = "todo"
        /\ d = "resume" => /\ a.off <= Size(partial[FreeName(f)])
                           /\ a.prefix = SubSeq(ino[partial[FreeName(f)]].data, 1, a.off)
    BY <2>2, <2>3, PlannedRecord
  <2> QED BY <2>4
<1>5. policy = "keep" => a = plan(x, f)
  BY DEF Applied
<1> QED BY <1>2, <1>3, <1>4, <1>5

\* The user decides.
LEMMA DecideInv ==
  ASSUME TInv, NEW x \in Transfers, NEW policy \in {"keep", "replace", "rename"}, decide(x, policy)
  PROVE  TInv'
<1> DEFINE P == [f \in Files |-> Decided(Applied(x, f, policy), policy = "replace")]
           s == [rx[x] EXCEPT !.pc = "data", !.plan = P]
<1>0. /\ up /\ rx[x].pc = "classified" /\ UNCHANGED <<up, ino, slot, durable, src, listed, reported>>
      /\ \A f \in Files : policy = "rename" /\ NeedsConsent(plan(x, f)) => FreeName(f) \in Names /\ slot[FreeName(f)] = Absent
  BY DEF decide
<1>1. rx' = [rx EXCEPT ![x].pc = "data", ![x].plan = P]
  BY DEF decide, Applied
<1>2. /\ FolderTypeOK' /\ FolderShape' /\ (\A n \in Names : partial'[n] \in {partial[n], NoIno})
      /\ src' \in [Transfers -> [Files -> Source]] /\ listed' \in [Transfers -> [Files -> Entry]]
      /\ reported' \in [Names -> Data \cup {NoReport}]
  <2>1. CASE policy = "rename"
    <3>1. PICK S : remove(S)
      BY <2>1 DEF decide
    <3> QED BY <1>0, <3>1, RemovedTypes
  <2>2. CASE policy # "rename"
    <3>1. UNCHANGED <<partial, meta>>
      BY <2>2 DEF decide
    <3>2. UNCHANGED <<folder, reported>>
      BY <1>0, <3>1 DEF folder, names
    <3>3. /\ src' \in [Transfers -> [Files -> Source]] /\ listed' \in [Transfers -> [Files -> Entry]]
      BY <1>0 DEF TInv, TransferTypeOK
    <3> QED BY <3>1, <3>2, <3>3, FolderKept
  <2> QED BY <2>1, <2>2
<1>3. ASSUME NEW f \in Files
      PROVE  /\ P[f] \in Plan /\ P[f].rel \in {f, FreeName(f)} /\ P[f].rel \in Names /\ P[f].state = "todo"
             /\ P[f].disp \in {"new", "resume"} => P[f].seen = Absent
             /\ P[f].disp = "resume" /\ partial[P[f].rel] # NoIno =>
                   /\ P[f].off <= Size(partial[P[f].rel])
                   /\ P[f].prefix = SubSeq(ino[partial[P[f].rel]].data, 1, P[f].off)
             /\ \/ P[f].own = "none"
                \/ P[f].own = plan(x, f).own /\ P[f].off = plan(x, f).off /\ P[f].ownPrefix = plan(x, f).ownPrefix
             /\ P[f].action \in {"send", "resume", "skip"}
             /\ P[f].action = "send" => P[f].disp = "new" \/ NeedsConsent(P[f])
             /\ P[f].action = "resume" => P[f].disp = "resume"
  <2>1. PICK a : a = Applied(x, f, policy)
    OBVIOUS
  <2>2. /\ a \in Plan /\ a.rel \in {f, FreeName(f)} /\ a.state = "todo"
        /\ a.disp \in {"new", "resume"} => a.seen = Absent
        /\ a.disp = "resume" /\ partial[a.rel] # NoIno =>
              a.off <= Size(partial[a.rel]) /\ a.prefix = SubSeq(ino[partial[a.rel]].data, 1, a.off)
        /\ a.own = "none" \/ (a.own = plan(x, f).own /\ a.off = plan(x, f).off /\ a.ownPrefix = plan(x, f).ownPrefix)
    BY <1>0, <2>1, AppliedRecord
  <2>3. P[f] = Decided(a, policy = "replace")
    BY <2>1
  <2> HIDE DEF P
  <2>4. /\ P[f] \in Plan /\ P[f].rel = a.rel /\ P[f].disp = a.disp /\ P[f].seen = a.seen /\ P[f].off = a.off
        /\ P[f].prefix = a.prefix /\ P[f].own = a.own /\ P[f].ownPrefix = a.ownPrefix /\ P[f].state = a.state
        /\ P[f].action \in {"send", "resume", "skip"}
        /\ P[f].action = "send" => a.disp = "new" \/ NeedsConsent(a)
        /\ P[f].action = "resume" => a.disp = "resume"
    BY <2>2, <2>3, DecidedRecord
  <2>5. NeedsConsent(P[f]) = NeedsConsent(a)
    BY <2>4 DEF NeedsConsent
  <2>6. a.rel \in Names
    BY <2>2 DEF Plan
  <2> QED BY <2>2, <2>4, <2>5, <2>6
<1>4. P \in [Files -> Plan]
  <2>1. P = [f \in Files |-> P[f]]
    OBVIOUS
  <2> HIDE DEF P
  <2> QED BY <1>3, <2>1
<1> HIDE DEF P
<1>5. rx' = [rx EXCEPT ![x] = s] /\ s.pc = "data"
  <2>1. rx[x] \in Session /\ rx \in [Transfers -> Session]
    BY SessionTypes
  <2> QED BY <1>1, <2>1 DEF Session
<1>6. /\ rx' \in [Transfers -> Session] /\ rx'[x].pc = "data" /\ rx'[x].acked = rx[x].acked
      /\ cur(x)' = cur(x) /\ \A f \in Files : plan(x, f)' = P[f]
  BY <1>4, <1>5, PlansChange
<1>7. SessionOK(x)' /\ cur(x)' = NoOpenFile /\ ~rx'[x].acked
  BY <1>0, <1>6, Classified
<1>8. ASSUME NEW f \in Files PROVE FileOK(x, f)'
  <2>0. f # NoFile /\ f \in Names /\ SourceOK(x, f) /\ plan(x, f)' = P[f]
    BY <1>6, SessionTypes DEF FileOK
  <2>1. PlanOK(x, f)'
    BY <1>3, <1>6, <1>7, <2>0, NoSessionFields DEF PlanOK, Early
  <2>2. ConsentOK(x, f)'
    <3>1. NeedsConsent(plan(x, f))' = NeedsConsent(P[f])
      BY <2>0 DEF NeedsConsent
    <3> QED BY <1>3, <2>0, <3>1 DEF ConsentOK
  <2>3. BatchOK(x, f)' /\ SnapshotOK(x, f)'
    BY <1>3, <2>0 DEF BatchOK, SnapshotOK
  <2>4. PrefixOK(x, f)'
    <3>1. partial'[P[f].rel] # NoIno => partial'[P[f].rel] = partial[P[f].rel]
      BY <1>2, <1>3
    <3>2. P[f].disp = "resume" /\ partial[P[f].rel] # NoIno =>
                   /\ P[f].off <= Len(ino[partial[P[f].rel]].data)
                   /\ P[f].prefix = SubSeq(ino[partial[P[f].rel]].data, 1, P[f].off)
      BY <1>3 DEF Size
    <3>3. ino' = ino
      BY <1>0
    <3> QED BY <2>0, <3>1, <3>2, <3>3 DEF PrefixOK, Size
  <2>5. SourceOK(x, f)'
    <3>1. cur(x)'.file # f /\ rx[x].pc # "off"
      BY <1>0, <1>7, <2>0, NoSessionFields
    <3>2. \/ P[f].own = "none"
          \/ P[f].own = plan(x, f).own /\ P[f].off = plan(x, f).off /\ P[f].ownPrefix = plan(x, f).ownPrefix
      BY <1>3
    <3>3. src' = src /\ listed' = listed
      BY <1>0
    <3> QED BY <2>0, <3>1, <3>2, <3>3 DEF SourceOK
  <2>6. SameOK(x, f)'
    BY <1>6 DEF SameOK
  <2> QED BY <2>1, <2>2, <2>3, <2>4, <2>5, <2>6 DEF FileOK
<1> QED BY <1>2, <1>6, <1>7, <1>8, Assembled

-----------------------------------------------------------------------------
\* The folder the user keeps, before any transfer.
LEMMA FirstFolder ==
  ASSUME Init
  PROVE  FolderTypeOK /\ FolderShape
<1>0. /\ slot \in [Names -> {Absent} \cup [kind : {"link", "emptyDir", "fullDir"}, ino : {NoIno}]
                              \cup [kind : {"file"}, ino : IF UserData = {} THEN {} ELSE Inodes]]
      /\ (\A n \in Names : IsFile(n) => slot[n].ino = n) /\ durable = slot /\ up = TRUE
      /\ partial = [n \in Names |-> NoIno] /\ meta = [n \in Names |-> NoMeta]
      /\ reported = [n \in Names |-> NoReport]
  BY DEF Init
<1>1. ASSUME NEW n \in Names
      PROVE  /\ slot[n] \in Slot
             /\ slot[n].kind # "file" => slot[n].ino = NoIno
             /\ slot[n].kind = "file" => slot[n].ino \in Inodes /\ slot[n].ino = n /\ n # NoIno
  <2>1. CASE slot[n] = Absent
    BY <2>1, FreshRecords DEF Absent
  <2>2. CASE slot[n] \in [kind : {"link", "emptyDir", "fullDir"}, ino : {NoIno}]
    BY <2>2 DEF Slot
  <2>3. CASE slot[n] \in [kind : {"file"}, ino : IF UserData = {} THEN {} ELSE Inodes]
    <3>1. slot[n] \in [kind : {"file"}, ino : Inodes]
      BY <2>3
    <3>2. slot[n].kind = "file" /\ slot[n].ino \in Inodes /\ slot[n] \in Slot
      BY <3>1 DEF Slot
    <3> QED BY <1>0, <3>2, FolderAssumption DEF IsFile
  <2> QED BY <1>0, <2>1, <2>2, <2>3
<1>2. PICK d \in [{n \in Names : IsFile(n)} -> UserData] :
          ino = [i \in Inodes |-> IF i \in DOMAIN d
                                  THEN [EmptyINode EXCEPT !.data = d[i], !.synced = Len(d[i])] ELSE EmptyINode]
  BY DEF Init
<1>3. ASSUME NEW i \in Inodes
      PROVE  ino[i] \in INode /\ ino[i].synced = Len(ino[i].data) /\ ~ino[i].verified /\ ino[i].synced <= Len(ino[i].data)
  <2>0. EmptyINode \in INode
    BY FreshRecords
  <2>1. CASE i \in DOMAIN d
    <3>1. ino[i] = [EmptyINode EXCEPT !.data = d[i], !.synced = Len(d[i])]
      BY <1>2, <2>1
    <3>2. d[i] \in Data /\ Len(d[i]) \in 0..MaxSize
      BY <2>1, TransferAssumption, DataIsSeq
    <3>3. ino[i] \in INode
      BY <2>0, <3>1, <3>2 DEF INode
    <3>4. ino[i].synced = Len(d[i]) /\ ino[i].data = d[i] /\ ~ino[i].verified
      BY <3>1 DEF EmptyINode
    <3> QED BY <3>2, <3>3, <3>4, FolderAssumption
  <2>2. CASE i \notin DOMAIN d
    <3>1. ino[i] = EmptyINode
      BY <1>2, <2>2
    <3>2. EmptyINode.synced = 0 /\ EmptyINode.data = <<>> /\ ~EmptyINode.verified /\ Len(<<>>) = 0
      BY DEF EmptyINode
    <3> QED BY <2>0, <3>1, <3>2
  <2> QED BY <2>1, <2>2
<1>4. ino \in [Inodes -> INode]
  BY <1>2, <1>3
<1>5. slot \in [Names -> Slot]
  BY <1>0, <1>1
<1>6. FolderTypeOK
  BY <1>0, <1>1, <1>3, <1>4, <1>5 DEF FolderTypeOK
<1>7. NameShape
  BY <1>0, <1>1 DEF NameShape
<1>8. DeviceShape
  BY <1>0, <1>1, <1>3 DEF DeviceShape
<1>9. ReportShape
  BY <1>0 DEF ReportShape
<1> QED BY <1>6, <1>7, <1>8, <1>9 DEF FolderShape

\* The invariant holds before any transfer.
LEMMA InitInv ==
  ASSUME Init, Alone
  PROVE  TInv
<1>0. /\ src \in [Transfers -> [Files -> [versions : {<<d>> : d \in SourceData}, readable : {TRUE}]]]
      /\ listed = [x \in Transfers |-> [f \in Files |-> [size |-> 0, mtime |-> 0]]]
      /\ rx = [x \in Transfers |-> NoSession] /\ reported = [n \in Names |-> NoReport]
  BY DEF Init
<1>1. ASSUME NEW x \in Transfers, NEW f \in Files
      PROVE  src[x][f] \in Source /\ Len(src[x][f].versions) = 1
  <2>0. src[x][f] \in [versions : {<<d>> : d \in SourceData}, readable : {TRUE}]
    BY <1>0
  <2>1. PICK d \in SourceData : src[x][f].versions = <<d>>
    BY <2>0
  <2>2. <<d>> \in Seq(SourceData) /\ Len(<<d>>) = 1 /\ <<d>> # <<>>
    OBVIOUS
  <2>3. Len(<<d>>) <= MaxTime
    BY <2>2, FolderAssumption, TransferAssumption
  <2>4. <<d>> \in BoundedSeq(SourceData, MaxTime)
    BY <2>2, <2>3, VersionsSeq
  <2>5. src[x][f] = [versions |-> <<d>>, readable |-> TRUE]
    BY <2>0, <2>1
  <2> QED BY <2>2, <2>4, <2>5 DEF Source
<1>2. src \in [Transfers -> [Files -> Source]]
  BY <1>0, <1>1
<1>3. ASSUME NEW x \in Transfers, NEW f \in Files
      PROVE  listed[x][f] \in Entry /\ listed[x][f].mtime = 0
  BY <1>0, FolderAssumption DEF Entry
<1>4. listed \in [Transfers -> [Files -> Entry]]
  BY <1>0, <1>3
<1>5. rx \in [Transfers -> Session]
  BY <1>0, FreshRecords
<1>6. TransferTypeOK
  BY <1>0, <1>2, <1>4, <1>5, FirstFolder, NoSessionFields DEF TransferTypeOK
<1>7. ASSUME NEW x \in Transfers PROVE SessionOK(x) /\ \A f \in Files : FileOK(x, f)
  <2>1. /\ cur(x) = NoOpenFile /\ (\A f \in Files : plan(x, f) = NewPlan(f))
        /\ rx[x].pc = "off" /\ rx[x].then = "off" /\ ~rx[x].acked
    BY <1>0, NoSessionFields DEF cur, plan
  <2>2. SessionOK(x)
    BY <2>1, NoSessionFields DEF SessionOK
  <2>3. ASSUME NEW f \in Files PROVE FileOK(x, f)
    <3>0. f # NoFile
      BY TransferAssumption
    <3>1. PlanOK(x, f) /\ ConsentOK(x, f)
      BY <2>1, <3>0, NoSessionFields DEF PlanOK, ConsentOK, Early, Wanted, Going, NeedsConsent
    <3>2. BatchOK(x, f) /\ PrefixOK(x, f) /\ SnapshotOK(x, f) /\ SameOK(x, f)
      BY <2>1, NoSessionFields DEF BatchOK, PrefixOK, SnapshotOK, SameOK
    <3>3. SourceOK(x, f)
      BY <1>1, <1>3, <2>1 DEF SourceOK
    <3> QED BY <3>1, <3>2, <3>3 DEF FileOK
  <2> QED BY <2>2, <2>3
<1> QED BY <1>6, <1>7, FirstFolder DEF TInv, SessionShape

\* A step that changes nothing.
LEMMA StutterInv ==
  ASSUME TInv, UNCHANGED vars
  PROVE  TInv'
<1>0. UNCHANGED <<folder, listed, rx, reported, src>>
  BY DEF vars
<1>1. CASE Transfers = {}
  <2>1. FolderShape' /\ FolderTypeOK' /\ reported' \in [Names -> Data \cup {NoReport}]
    BY <1>0, FolderKept
  <2> QED BY <1>0, <1>1, <2>1 DEF TInv, TransferTypeOK, SessionShape, Alone
<1>2. CASE Transfers # {}
  <2>1. PICK x \in Transfers : TRUE
    BY <1>2
  <2>2. src' \in [Transfers -> [Files -> Source]] /\ TransferTypeOK
    BY <1>0 DEF TInv, TransferTypeOK
  <2>3. \A f \in Files : /\ Len(src'[x][f].versions) \in Nat
                         /\ Len(src[x][f].versions) <= Len(src'[x][f].versions)
                         /\ \A k \in 1..Len(src[x][f].versions) :
                               k \in DOMAIN src'[x][f].versions /\ src'[x][f].versions[k] = src[x][f].versions[k]
    <3> SUFFICES ASSUME NEW f \in Files
                 PROVE  /\ Len(src[x][f].versions) \in Nat /\ Len(src[x][f].versions) <= Len(src[x][f].versions)
                        /\ \A k \in 1..Len(src[x][f].versions) : k \in DOMAIN src[x][f].versions
      BY <1>0
    <3>1. src[x][f].versions \in Seq(SourceData) /\ Len(src[x][f].versions) \in Nat
      BY <2>2, SourceTypes
    <3> QED BY <3>1
  <2> QED BY <1>0, <2>2, <2>3, SourceGrows
<1> QED BY <1>1, <1>2

\* The receiver's steps keep the invariant.
LEMMA ReceiveInv ==
  ASSUME TInv, NEW x \in Transfers, receive(x)
  PROVE  TInv'
<1>1. ASSUME NEW old \in SUBSET Names, sweep(x, old) PROVE TInv'
  BY <1>1, SweepInv
<1>2. ASSUME NEW lost \in SUBSET Files, classify(x, lost) PROVE TInv'
  BY <1>2, ClassifyInv
<1>3. ASSUME NEW policy \in {"keep", "replace", "rename"}, decide(x, policy) PROVE TInv'
  BY <1>3, DecideInv
<1>4. ASSUME NEW f \in Files, materialize(x, f) PROVE TInv'
  BY <1>4, MaterializeInv
<1>5. ASSUME NEW full \in BOOLEAN, writeFails(x, full) PROVE TInv'
  BY <1>5, WriteFailsInv
<1> QED BY <1>1, <1>2, <1>3, <1>4, <1>5, ResolveVerifyInv, DeclineInv, OpenDataInv, PeriodicSyncInv, FinalizeInv,
           FlushInv, SyncBatchInv, PlaceInv, FlushDoneInv, FinishRecvInv DEF receive

\* The sender's steps keep the invariant.
LEMMA SendInv ==
  ASSUME TInv, NEW x \in Transfers, send(x)
  PROVE  TInv'
<1>1. ASSUME NEW f \in Files, hashPrefix(x, f) \/ openResumed(x, f) \/ openNew(x, f) \/ skipFile(x, f) PROVE TInv'
  BY <1>1, HashPrefixInv, OpenResumedInv, OpenNewInv, SkipFileInv
<1> QED BY <1>1, WalkInv, SendBlockInv, DropFileInv DEF send

\* So does everything that happens to them.
LEMMA EnvironmentInv ==
  ASSUME TInv, Environment
  PROVE  TInv'
<1>1. ASSUME NEW x \in Transfers, NEW f \in Files, HideSource(x, f) \/ \E d \in SourceData : EditSource(x, f, d)
      PROVE  TInv'
  BY <1>1, HideSourceInv, EditSourceInv
<1>2. ASSUME NEW n \in Names, NEW d \in UserData, UserWrite(n, d) PROVE TInv'
  BY <1>2, UserWriteInv
<1>3. ASSUME NEW x \in Transfers, break(x) \/ Kill(x) PROVE TInv'
  BY <1>3, BreakInv, DeclineInv
<1>4. ASSUME Decay, UNCHANGED <<src, listed, rx, reported>> PROVE TInv'
  <2>1. ASSUME NEW i \in Inodes, LoseTail(i) PROVE TInv'
    BY <1>4, <2>1, LoseTailInv
  <2>2. ASSUME NEW i \in Inodes, NEW k \in 1..MaxSize, LoseBlock(i, k) PROVE TInv'
    BY <1>4, <2>2, LoseBlockInv
  <2>3. ASSUME NEW n \in Names, UndoRename(n) \/ LosePartial(n) \/ LoseMeta(n) PROVE TInv'
    BY <1>4, <2>3, UndoRenameInv, LosePartialInv
  <2> QED BY <1>4, <2>1, <2>2, <2>3 DEF Decay
<1>5. ASSUME Boot, UNCHANGED <<src, listed, rx, reported>> PROVE TInv'
  BY <1>5, BootInv
<1> QED BY <1>1, <1>2, <1>3, <1>4, <1>5, PowerLossInv DEF Environment

\* Every step keeps the invariant.
LEMMA StepInv ==
  ASSUME TInv, [Next]_vars
  PROVE  TInv'
  BY StutterInv, ReceiveInv, SendInv, EnvironmentInv DEF Next

\* TInv is an invariant of the engine.
THEOREM TransferInv == Alone /\ Spec => []TInv
<1>1. Alone /\ Init => TInv
  BY InitInv
<1>2. TInv /\ [Next]_vars => TInv'
  BY StepInv
<1> QED BY <1>1, <1>2, PTL DEF Spec

\* The engine's variables have their types, and no partial is open while a
\* batch is flushed.
THEOREM TransferTypes == Alone /\ Spec => []TransferTypeOK
<1>1. TInv => TransferTypeOK
  BY DEF TInv
<1> QED BY <1>1, TransferInv, PTL

\* VerifiedContent: what place renamed onto a name is what finalize verified.
THEOREM VerifiedContentHolds == Alone /\ Spec => []VerifiedContent
<1>1. TInv => VerifiedContent
  BY DEF TInv, FolderShape, DeviceShape, VerifiedContent, Placed, IsFile
<1> QED BY <1>1, TransferInv, PTL

\* UnflaggedIsSnapshot: what the sender did not flag as changed is the version
\* its walk listed.
THEOREM UnflaggedIsSnapshotHolds == Alone /\ Spec => []UnflaggedIsSnapshot
<1>1. TInv => UnflaggedIsSnapshot
  BY DEF TInv, SessionShape, FileOK, SnapshotOK, UnflaggedIsSnapshot
<1> QED BY <1>1, TransferInv, PTL

\* SkippedIsSame: with --checksum, what is skipped as identical was a version
\* of the source.
THEOREM SkippedIsSameHolds == Alone /\ Spec => []SkippedIsSame
<1>1. TInv => SkippedIsSame
  BY DEF TInv, SessionShape, FileOK, SameOK, SkippedIsSame
<1> QED BY <1>1, TransferInv, PTL

\* DoneSurvives: what OnFileDone reported stays, if every folder can be synced,
\* and an acknowledged transfer saved all that was asked for.
THEOREM DoneSurvivesHolds == Alone /\ Unsyncable = {} /\ Spec => []DoneSurvives
<1> SUFFICES ASSUME Unsyncable = {} PROVE Alone /\ Spec => []DoneSurvives
  OBVIOUS
<1>1. TInv => DoneSurvives
  <2> SUFFICES ASSUME TInv PROVE DoneSurvives
    OBVIOUS
  <2>1. \A n \in Names : reported[n] # NoReport => IsFile(n) /\ ino[slot[n].ino].data = reported[n]
    BY DEF TInv, FolderShape, ReportShape
  <2>2. \A x \in Transfers, f \in Files : rx[x].acked => plan(x, f).action = "skip" \/ plan(x, f).state \in {"saved", "skipped"}
    BY DEF TInv, SessionShape, FileOK, PlanOK
  <2> QED BY <2>1, <2>2 DEF DoneSurvives
<1> QED BY <1>1, TransferInv, PTL

\* ConsentKept: what classify found under a name is replaced only after the
\* user chose to.
THEOREM ConsentKeptHolds == Alone /\ Spec => ConsentKept
<1>1. TInv => \A n \in Names, x \in Transfers, f \in Files :
          Replaces(n) /\ plan(x, f).state = "pending" /\ plan(x, f)'.state = "placed"
                /\ plan(x, f).rel = n /\ plan(x, f).seen = slot[n]
             => Consented(x, f, n)
  <2> SUFFICES ASSUME TInv, NEW n \in Names, NEW x \in Transfers, NEW f \in Files, slot[n] # Absent,
                      plan(x, f).state = "pending", plan(x, f).rel = n, plan(x, f).seen = slot[n]
               PROVE  NeedsConsent(plan(x, f)) /\ plan(x, f).action = "send"
    BY DEF Replaces, Consented
  <2>1. PlanOK(x, f) /\ ConsentOK(x, f)
    BY DEF TInv, SessionShape, FileOK
  <2> QED BY <2>1 DEF PlanOK, ConsentOK, Wanted
<1> QED BY <1>1, TransferInv, PTL DEF ConsentKept

-----------------------------------------------------------------------------
(***************************************************************************)
(* The engine implements Delivery.  Only place, flushDone, UserWrite,      *)
(* UndoRename and Boot are steps a user sees.                              *)
(***************************************************************************)
\* What a user finds is typed, and never torn.
LEMMA ShownTypes ==
  ASSUME TInv, NEW n \in Names, NEW s \in {slot[n], durable[n]}
  PROVE  /\ Shown(s) \in Promise!Content
         /\ s.kind = "file" => /\ s.ino \in Inodes /\ Shown(s).data = ino[s.ino].data /\ ino[s.ino].data \in Data
                               /\ Shown(s) = [by |-> IF ino[s.ino].verified THEN "fsend" ELSE "user", data |-> ino[s.ino].data]
<1>0. FolderTypeOK /\ NameShape /\ DeviceShape
  BY DEF TInv, TransferTypeOK, FolderShape
<1>1. CASE s.kind = "file"
  <2>1. s.ino \in Inodes
    BY <1>0, <1>1 DEF FolderTypeOK, NameShape
  <2>2. ino[s.ino] \in INode /\ (ino[s.ino].verified => ino[s.ino].data = ino[s.ino].root)
    BY <1>0, <1>1, <2>1 DEF FolderTypeOK, DeviceShape
  <2>3. ino[s.ino].data \in Data
    BY <2>2 DEF INode
  <2>4. Shown(s) = [by |-> IF ino[s.ino].verified THEN "fsend" ELSE "user", data |-> ino[s.ino].data]
    BY <1>1, <2>2 DEF Shown
  <2> QED BY <1>1, <2>1, <2>3, <2>4 DEF Promise!Content, Promise!Owners
<1>2. CASE s.kind # "file"
  <2>1. s.kind \in {"absent", "link", "emptyDir", "fullDir"}
    BY <1>0, <1>2 DEF FolderTypeOK, Slot
  <2>2. Shown(s) = [by |-> s.kind, data |-> <<>>]
    BY <1>2 DEF Shown
  <2> QED BY <1>2, <2>1, <2>2, DataIsSeq DEF Promise!Content, Promise!Owners
<1> QED BY <1>1, <1>2

\* The folder of the first state is one of Delivery.
LEMMA InitPromise ==
  ASSUME Init, TInv
  PROVE  Promise!Init
<1>1. durable = slot /\ reported = [n \in Names |-> NoReport]
  BY DEF Init
<1>2. \A n \in Names : Shown(slot[n]) \in Promise!Content
  BY ShownTypes
<1>3. \A i \in Inodes : ~ino[i].verified
  <2>1. PICK d \in [{n \in Names : IsFile(n)} -> UserData] :
            ino = [i \in Inodes |-> IF i \in DOMAIN d
                                    THEN [EmptyINode EXCEPT !.data = d[i], !.synced = Len(d[i])] ELSE EmptyINode]
    BY DEF Init
  <2> QED BY <2>1 DEF EmptyINode
<1>4. ASSUME NEW n \in Names PROVE Shown(slot[n]).by # "fsend"
  <2>1. CASE slot[n].kind = "file"
    <3>1. slot[n].ino \in Inodes
          /\ Shown(slot[n]) = [by |-> IF ino[slot[n].ino].verified THEN "fsend" ELSE "user", data |-> ino[slot[n].ino].data]
      BY <2>1, ShownTypes
    <3>2. ~ino[slot[n].ino].verified
      BY <1>3, <3>1
    <3> QED BY <3>1, <3>2
  <2>2. CASE slot[n].kind # "file"
    <3>1. slot[n] \in Slot
      BY DEF TInv, TransferTypeOK, FolderTypeOK
    <3>2. slot[n].kind # "fsend"
      BY <3>1 DEF Slot
    <3> QED BY <2>2, <3>2 DEF Shown
  <2> QED BY <2>1, <2>2
<1> QED BY <1>1, <1>2, <1>4 DEF Promise!Init

\* A step after which the same files are under the same names is none of Delivery's.
LEMMA NotSeen ==
  ASSUME UNCHANGED <<slot, durable, reported>>,
         \A n \in Names : \A s \in {slot[n], durable[n]} : s.kind = "file" =>
            /\ ino'[s.ino].data = ino[s.ino].data /\ ino'[s.ino].verified = ino[s.ino].verified
            /\ ino'[s.ino].root = ino[s.ino].root
  PROVE  UNCHANGED Promise!vars
<1>1. \A n \in Names : Shown(slot[n])' = Shown(slot[n]) /\ Shown(durable[n])' = Shown(durable[n])
  BY DEF Shown
<1> QED BY <1>1 DEF Promise!vars

\* A step that writes to an inode a partial leads to is none of Delivery's.
LEMMA WriteNotSeen ==
  ASSUME TInv, TInv', UNCHANGED <<slot, durable, reported>>, NEW n \in Names, NEW i \in Inodes, partial'[n] = i,
         \A j \in Inodes : j # i => ino'[j] = ino[j]
  PROVE  UNCHANGED Promise!vars
<1>1. \A m \in Names : i # slot[m].ino /\ i # durable[m].ino
  BY FolderAssumption DEF TInv, FolderShape, NameShape
<1>2. \A m \in Names : \A s \in {slot[m], durable[m]} : s.kind = "file" => ino'[s.ino] = ino[s.ino]
  BY <1>1 DEF TInv, TransferTypeOK, FolderTypeOK, FolderShape, NameShape
<1> QED BY <1>2, NotSeen

\* The receiver's steps that a user does not see.
LEMMA ReceiverQuiet ==
  ASSUME TInv, NEW x \in Transfers,
         \/ \E old \in SUBSET Names : sweep(x, old)
         \/ \E lost \in SUBSET Files : classify(x, lost)
         \/ \E policy \in {"keep", "replace", "rename"} : decide(x, policy)
         \/ \E full \in BOOLEAN : writeFails(x, full)
         \/ decline(x) \/ flush(x) \/ syncFails(x) \/ finishRecv(x)
  PROVE  UNCHANGED Promise!vars
<1>1. UNCHANGED <<ino, slot, durable, reported>>
  BY DEF sweep, classify, decide, decline, flush, syncFails, finishRecv, writeFails, folder, names
<1> QED BY <1>1, NotSeen

\* The sender's steps that leave the contents alone.
LEMMA SenderQuiet ==
  ASSUME TInv, NEW x \in Transfers,
         \/ \E f \in Files : hashPrefix(x, f) \/ openNew(x, f) \/ skipFile(x, f)
         \/ Walk(x) \/ dropFile(x)
  PROVE  UNCHANGED Promise!vars
<1>1. UNCHANGED <<ino, slot, durable, reported>>
  BY DEF hashPrefix, openNew, skipFile, Walk, dropFile, folder, names
<1> QED BY <1>1, NotSeen

\* Modification times and syncs are not seen.
LEMMA SyncQuiet ==
  ASSUME TInv, NEW x \in Transfers, resolveVerify(x) \/ periodicSync(x) \/ syncBatch(x)
  PROVE  UNCHANGED Promise!vars
<1>1. UNCHANGED <<slot, durable, reported>>
  BY DEF resolveVerify, periodicSync, syncBatch, names
<1>2. ino \in [Inodes -> INode]
  BY DEF TInv, TransferTypeOK, FolderTypeOK
<1>3. ASSUME NEW i \in Inodes
      PROVE  ino'[i].data = ino[i].data /\ ino'[i].verified = ino[i].verified /\ ino'[i].root = ino[i].root
  <2>0. ino[i] \in INode
    BY <1>2
  <2>1. CASE resolveVerify(x)
    <3>1. PICK t : ino'[i] = ino[i] \/ ino'[i] = [ino[i] EXCEPT !.mtime = t]
      BY <2>1 DEF resolveVerify
    <3> QED BY <2>0, <3>1 DEF INode
  <2>2. CASE periodicSync(x)
    <3>1. ino' = [ino EXCEPT ![cur(x).ino] = Synced(ino[cur(x).ino])]
      BY <2>2 DEF periodicSync
    <3>2. ino'[i] = ino[i] \/ ino'[i] = [ino[i] EXCEPT !.synced = Len(ino[i].data)]
      BY <1>2, <3>1 DEF Synced
    <3> QED BY <2>0, <3>2 DEF INode
  <2>3. CASE syncBatch(x)
    <3>1. ino'[i] = ino[i] \/ ino'[i] = [ino[i] EXCEPT !.synced = Len(ino[i].data)]
      BY <2>3 DEF syncBatch, Synced
    <3> QED BY <2>0, <3>1 DEF INode
  <2> QED BY <2>1, <2>2, <2>3
<1>4. \A n \in Names : \A s \in {slot[n], durable[n]} : s.kind = "file" => s.ino \in Inodes
  BY DEF TInv, TransferTypeOK, FolderTypeOK, FolderShape, NameShape
<1> QED BY <1>1, <1>3, <1>4, NotSeen

\* What is written to a partial is not seen.
LEMMA WriteQuiet ==
  ASSUME TInv, TInv', NEW x \in Transfers,
         \/ \E f \in Files : materialize(x, f) \/ openResumed(x, f)
         \/ openData(x) \/ sendBlock(x) \/ finalize(x)
  PROVE  UNCHANGED Promise!vars
<1>0. /\ ino \in [Inodes -> INode] /\ partial \in [Names -> Inodes \cup {NoIno}]
      /\ \A f \in Files : plan(x, f).rel \in Names
  BY SessionTypes DEF FolderTypeOK
<1>1. ASSUME NEW f \in Files, materialize(x, f) PROVE UNCHANGED Promise!vars
  <2>1. PICK n : n = plan(x, f).rel
    OBVIOUS
  <2>2. PICK i : i = PartialInode(n)
    OBVIOUS
  <2>3. CanCreate(n) /\ UNCHANGED <<slot, durable, reported>> /\ partial' = [partial EXCEPT ![n] = i]
    BY <1>1, <2>1, <2>2 DEF materialize
  <2>4. PICK t : ino' = [ino EXCEPT ![i] = t]
    BY <1>1, <2>1, <2>2 DEF materialize
  <2>5. n \in Names /\ i \in Inodes
    BY <1>0, <2>1, <2>2, <2>3, PartialInodeUnused
  <2>6. partial'[n] = i /\ \A j \in Inodes : j # i => ino'[j] = ino[j]
    BY <1>0, <2>3, <2>4, <2>5
  <2> QED BY <2>3, <2>5, <2>6, WriteNotSeen
<1>2. ASSUME NEW f \in Files, openResumed(x, f) PROVE UNCHANGED Promise!vars
  <2>1. UNCHANGED <<slot, durable, partial, reported>>
    BY <1>2 DEF openResumed, names
  <2>2. CASE partial[plan(x, f).rel] = NoIno
    <3>1. ino' = ino
      BY <1>2, <2>2 DEF openResumed
    <3> QED BY <2>1, <3>1, NotSeen
  <2>3. CASE partial[plan(x, f).rel] # NoIno
    <3>1. PICK i : i = partial[plan(x, f).rel]
      OBVIOUS
    <3>2. PICK t : ino' = [ino EXCEPT ![i] = t]
      BY <1>2, <2>3, <3>1 DEF openResumed
    <3>3. i \in Inodes /\ partial'[plan(x, f).rel] = i /\ plan(x, f).rel \in Names
      BY <1>0, <2>1, <2>3, <3>1
    <3>4. \A j \in Inodes : j # i => ino'[j] = ino[j]
      BY <1>0, <3>2
    <3> QED BY <2>1, <3>3, <3>4, WriteNotSeen
  <2> QED BY <2>2, <2>3
<1>3. CASE openData(x)
  <2>1. PICK n : n = plan(x, cur(x).file).rel
    OBVIOUS
  <2>2. PICK i : i = PartialInode(n)
    OBVIOUS
  <2>3. /\ CanCreate(n) /\ UNCHANGED <<slot, durable, reported>> /\ partial' = [partial EXCEPT ![n] = i]
        /\ ino' = [ino EXCEPT ![i] = EmptyINode] /\ cur(x) # NoOpenFile
    BY <1>3, <2>1, <2>2, NoSessionFields DEF openData, create
  <2>4. n \in Names
    BY <2>1, <2>3, WritingFacts
  <2>5. i \in Inodes
    BY <2>2, <2>3, <2>4, PartialInodeUnused
  <2>6. partial'[n] = i /\ \A j \in Inodes : j # i => ino'[j] = ino[j]
    BY <1>0, <2>3, <2>4, <2>5
  <2> QED BY <2>3, <2>4, <2>5, <2>6, WriteNotSeen
<1>4. ASSUME Writing(x)
      PROVE  /\ plan(x, cur(x).file).rel \in Names /\ cur(x).ino = partial[plan(x, cur(x).file).rel] /\ cur(x).ino \in Inodes
  <2>1. cur(x).ino # NoIno /\ cur(x) # NoOpenFile
    BY <1>4, NoSessionFields DEF Writing
  <2>2. plan(x, cur(x).file).rel \in Names /\ cur(x) \in OpenFile /\ cur(x).ino = partial[plan(x, cur(x).file).rel]
    BY <2>1, WritingFacts
  <2> QED BY <2>1, <2>2 DEF OpenFile
<1>5. CASE sendBlock(x)
  <2>1. Writing(x) /\ UNCHANGED <<slot, durable, partial, reported>>
    BY <1>5 DEF sendBlock, names
  <2>2. PICK t : ino' = [ino EXCEPT ![cur(x).ino] = t]
    BY <1>5 DEF sendBlock
  <2>3. \A j \in Inodes : j # cur(x).ino => ino'[j] = ino[j]
    BY <1>0, <2>2
  <2> QED BY <1>4, <2>1, <2>3, WriteNotSeen
<1>6. CASE finalize(x)
  <2>1. Writing(x) /\ UNCHANGED <<slot, durable, reported>>
    BY <1>6 DEF finalize
  <2>2. CASE cur(x).got = cur(x).sent
    <3>1. partial' = partial
      BY <1>6, <2>2 DEF finalize
    <3>2. \A j \in Inodes : j # cur(x).ino => ino'[j] = ino[j]
      BY <1>4, <1>6, <2>1, <2>2 DEF finalize
    <3> QED BY <1>4, <2>1, <3>1, <3>2, WriteNotSeen
  <2>3. CASE cur(x).got # cur(x).sent
    <3>1. ino' = ino
      BY <1>6, <2>3 DEF finalize
    <3> QED BY <2>1, <3>1, NotSeen
  <2> QED BY <2>2, <2>3
<1> QED BY <1>1, <1>2, <1>3, <1>5, <1>6

\* What happens to the sources, the sessions and unsynced contents is not seen.
LEMMA EnvironmentQuiet ==
  ASSUME TInv,
         \/ \E x \in Transfers, f \in Files : HideSource(x, f) \/ \E d \in SourceData : EditSource(x, f, d)
         \/ \E x \in Transfers : break(x) \/ Kill(x)
         \/ PowerLoss
         \/ /\ \/ \E i \in Inodes : LoseTail(i)
               \/ \E i \in Inodes, k \in 1..MaxSize : LoseBlock(i, k)
               \/ \E n \in Names : LosePartial(n) \/ LoseMeta(n)
            /\ UNCHANGED <<src, listed, rx, reported>>
  PROVE  UNCHANGED Promise!vars
<1>1. UNCHANGED <<slot, durable, reported>>
  BY DEF HideSource, EditSource, break, Kill, PowerLoss, LoseTail, LoseBlock, LosePartial, LoseMeta, folder, names
<1>2. CASE ino' = ino
  BY <1>1, <1>2, NotSeen
<1>3. ASSUME NEW i \in Inodes, LoseTail(i) \/ \E k \in 1..MaxSize : LoseBlock(i, k)
      PROVE  UNCHANGED Promise!vars
  <2>0. ino \in [Inodes -> INode] /\ ino[i] \in INode
    BY DEF TInv, TransferTypeOK, FolderTypeOK
  <2>1. ino[i].synced # Len(ino[i].data)
    <3>1. ino[i].synced \in Nat /\ Len(ino[i].data) \in Nat
      BY <2>0, DataIsSeq, FolderAssumption DEF INode
    <3> QED BY <1>3, <3>1 DEF LoseTail, LoseBlock, Size
  <2>2. \A n \in Names : slot[n].ino # i /\ durable[n].ino # i
    BY <2>1, UnsyncedUnnamed
  <2>3. \A j \in Inodes : j # i => ino'[j] = ino[j]
    <3>1. PICK d : ino' = [ino EXCEPT ![i].data = d]
      BY <1>3 DEF LoseTail, LoseBlock
    <3> QED BY <2>0, <3>1
  <2>4. \A n \in Names : \A s \in {slot[n], durable[n]} : s.kind = "file" => s.ino \in Inodes /\ s.ino # i
    BY <2>2 DEF TInv, TransferTypeOK, FolderTypeOK, FolderShape, NameShape
  <2> QED BY <1>1, <2>3, <2>4, NotSeen
<1>4. ino' = ino \/ \E i \in Inodes : LoseTail(i) \/ \E k \in 1..MaxSize : LoseBlock(i, k)
  BY DEF HideSource, EditSource, break, Kill, PowerLoss, LosePartial, LoseMeta, folder
<1> QED BY <1>2, <1>3, <1>4

\* place: a received file appears under its name.
LEMMA PlaceSeen ==
  ASSUME TInv, NEW x \in Transfers, place(x)
  PROVE  Promise!Next \/ UNCHANGED Promise!vars
<1>1. PICK f : f = Min(Pending(x))
  OBVIOUS
<1> DEFINE p == plan(x, f)
           n == p.rel
           refused == NeedsConsent(p) /\ slot[n].kind = "fullDir"
           fails == partial[n] = NoIno \/ (slot[n].kind \in {"emptyDir", "fullDir"} /\ ~NeedsConsent(p))
<1>2. rx[x].pc = "place" /\ Pending(x) # {} /\ UNCHANGED <<ino, durable>>
  BY DEF place
<1>3. f \in Files /\ p.state = "pending"
  <2>1. Pending(x) \in SUBSET Files
    BY DEF Pending
  <2>2. f \in Pending(x)
    BY <1>1, <1>2, <2>1, MinFile
  <2> QED BY <2>2 DEF Pending
<1>4. CASE refused \/ fails
  <2>1. UNCHANGED <<slot, reported>>
    BY <1>1, <1>4 DEF place
  <2> QED BY <1>2, <2>1, NotSeen
<1>5. CASE ~refused /\ ~fails
  <2>0. PICK m, i, d : m = n /\ i = p.ino /\ d = ino[i].data
    OBVIOUS
  <2>1. /\ slot' = [slot EXCEPT ![m] = [kind |-> "file", ino |-> partial[m]]]
        /\ reported' = [reported EXCEPT ![m] = NoReport]
    BY <1>1, <1>5, <2>0 DEF place
  <2>2. m \in Names /\ i \in Inodes /\ partial[m] = i /\ ino[i].verified /\ ino[i].data = ino[i].root
    BY <1>2, <1>3, <2>0, SessionTypes DEF FileOK, BatchOK
  <2>3. d = ino[i].data /\ d \in Data
    BY <2>0, <2>2 DEF TInv, TransferTypeOK, FolderTypeOK, INode
  <2>4. slot \in [Names -> Slot] /\ reported \in [Names -> Data \cup {NoReport}]
    BY DEF TInv, TransferTypeOK, FolderTypeOK
  <2>5. slot'[m] = [kind |-> "file", ino |-> i] /\ \A k \in Names : k # m => slot'[k] = slot[k]
    BY <2>1, <2>2, <2>4
  <2>6. Shown(slot[m])' = [by |-> "fsend", data |-> d]
    BY <1>2, <2>2, <2>3, <2>5 DEF Shown
  <2>7. \A k \in Names : k # m => Shown(slot[k])' = Shown(slot[k])
    BY <1>2, <2>5 DEF Shown
  <2>8. \A k \in Names : Shown(durable[k])' = Shown(durable[k])
    BY <1>2 DEF Shown
  <2>9. reported'[m] = NoReport /\ \A k \in Names : k # m => reported'[k] = reported[k]
    BY <2>1, <2>2, <2>4
  <2>10. Promise!Receive(m, d)
    BY <2>2, <2>6, <2>7, <2>8, <2>9 DEF Promise!Receive
  <2> QED BY <2>2, <2>3, <2>10 DEF Promise!Next
<1> QED BY <1>4, <1>5

\* flushDone: what was placed is on the device and reported.
LEMMA FlushDoneSeen ==
  ASSUME TInv, Unsyncable = {}, NEW x \in Transfers, flushDone(x)
  PROVE  Promise!Next
<1>0. PICK S : S = SyncedNames(x)
  OBVIOUS
<1> DEFINE rep(n) == \E f \in Files : plan(x, f).state = "placed" /\ plan(x, f).rel = n /\ slot[n].ino = plan(x, f).ino
<1>1. /\ UNCHANGED <<ino, slot>>
      /\ durable' = [n \in Names |-> IF n \in S THEN slot[n] ELSE durable[n]]
      /\ reported' = [n \in Names |-> IF rep(n) THEN ino[slot[n].ino].data ELSE reported[n]]
  BY <1>0 DEF flushDone
<1>2. S \in SUBSET Names /\ \A n \in Names : n \in S <=> \E f \in Files : plan(x, f).state = "placed" /\ plan(x, f).rel = n
  BY <1>0, SessionTypes DEF SyncedNames
<1>3. reported \in [Names -> Data \cup {NoReport}]
  BY DEF TInv, TransferTypeOK
<1>4. ASSUME NEW f \in Files, plan(x, f).state = "placed"
      PROVE  /\ slot[plan(x, f).rel].kind = "file" /\ ino[plan(x, f).ino].verified
             /\ slot[plan(x, f).rel].ino = plan(x, f).ino \/ ~ino[slot[plan(x, f).rel].ino].verified
  BY <1>4, SessionTypes DEF FileOK, BatchOK, IsFile
<1> HIDE DEF rep
<1>5. ASSUME NEW n \in Names
      PROVE  (reported'[n] # NoReport) = (reported[n] # NoReport \/ (n \in S /\ Shown(slot[n]).by = "fsend"))
  <2>1. CASE n \notin S
    BY <1>1, <1>2, <2>1 DEF rep
  <2>2. CASE n \in S
    <3>1. PICK f \in Files : plan(x, f).state = "placed" /\ plan(x, f).rel = n
      BY <1>2, <2>2
    <3>2. /\ slot[n].kind = "file" /\ ino[plan(x, f).ino].verified
          /\ slot[n].ino = plan(x, f).ino \/ ~ino[slot[n].ino].verified
      BY <1>4, <3>1
    <3>3. /\ Shown(slot[n]) = [by |-> IF ino[slot[n].ino].verified THEN "fsend" ELSE "user", data |-> ino[slot[n].ino].data]
          /\ ino[slot[n].ino].data \in Data
      BY <3>2, ShownTypes
    <3>4. CASE slot[n].ino = plan(x, f).ino
      <4>1. reported'[n] = ino[slot[n].ino].data
        BY <1>1, <3>1, <3>4 DEF rep
      <4>2. reported'[n] # NoReport
        BY <3>3, <4>1, TransferAssumption
      <4>3. Shown(slot[n]).by = "fsend"
        BY <3>2, <3>3, <3>4
      <4> QED BY <2>2, <4>2, <4>3
    <3>5. CASE slot[n].ino # plan(x, f).ino
      <4>1. ASSUME NEW g \in Files, plan(x, g).rel = n PROVE g = f
        BY <3>1, <4>1, RelDistinct
      <4>2. ~rep(n)
        BY <3>5, <4>1 DEF rep
      <4>3. reported'[n] = reported[n]
        BY <1>1, <4>2
      <4>4. Shown(slot[n]).by # "fsend"
        BY <3>2, <3>3, <3>5
      <4> QED BY <4>3, <4>4
    <3> QED BY <3>4, <3>5
  <2> QED BY <2>1, <2>2
<1>6. \A n \in Names : Shown(slot[n])' = Shown(slot[n])
  BY <1>1 DEF Shown
<1>7. \A n \in Names : Shown(durable[n])' = IF n \in S THEN Shown(slot[n]) ELSE Shown(durable[n])
  BY <1>1 DEF Shown
<1>8. Promise!Commit(S)
  BY <1>5, <1>6, <1>7 DEF Promise!Commit
<1> QED BY <1>2, <1>8 DEF Promise!Next

\* UserWrite: the user saves a file.
LEMMA UserWriteSeen ==
  ASSUME TInv, NEW n \in Names, NEW d \in UserData, UserWrite(n, d)
  PROVE  Promise!Next
<1>i. PICK i : i = Fresh
  OBVIOUS
<1>t. PICK t : t = [EmptyINode EXCEPT !.data = d, !.synced = Len(d)]
  OBVIOUS
<1>0. /\ Cardinality(Free) > 1 /\ ino' = [ino EXCEPT ![i] = t]
      /\ slot' = [slot EXCEPT ![n] = [kind |-> "file", ino |-> i]]
      /\ durable' = [durable EXCEPT ![n] = [kind |-> "file", ino |-> i]]
      /\ reported' = [reported EXCEPT ![n] = NoReport]
  BY <1>i, <1>t DEF UserWrite
<1>1. Free # {}
  <2>1. Free = {} => Cardinality(Free) = 0
    BY FS_EmptySet
  <2> QED BY <1>0, <2>1
<1>2. i \in Inodes /\ \A m \in Names : slot[m].ino # i /\ durable[m].ino # i
  BY <1>i, <1>1, FreshUnused
<1>3. t.data = d /\ ~t.verified /\ d \in Data
  BY <1>t, TransferAssumption DEF EmptyINode
<1>4. /\ ino \in [Inodes -> INode] /\ slot \in [Names -> Slot] /\ durable \in [Names -> Slot]
      /\ reported \in [Names -> Data \cup {NoReport}]
      /\ \A m \in Names : \A s \in {slot[m], durable[m]} : s.kind = "file" => s.ino \in Inodes
  BY DEF TInv, TransferTypeOK, FolderTypeOK, FolderShape, NameShape
<1>5. /\ ino'[i] = t /\ (\A j \in Inodes : j # i => ino'[j] = ino[j])
      /\ slot'[n] = [kind |-> "file", ino |-> i] /\ durable'[n] = [kind |-> "file", ino |-> i]
      /\ (\A m \in Names : m # n => slot'[m] = slot[m] /\ durable'[m] = durable[m])
      /\ reported'[n] = NoReport /\ (\A m \in Names : m # n => reported'[m] = reported[m])
  BY <1>0, <1>2, <1>4
<1>6. Shown(slot[n])' = [by |-> "user", data |-> d] /\ Shown(durable[n])' = [by |-> "user", data |-> d]
  BY <1>3, <1>5 DEF Shown
<1>7. ASSUME NEW m \in Names, m # n
      PROVE  Shown(slot[m])' = Shown(slot[m]) /\ Shown(durable[m])' = Shown(durable[m])
  <2>1. \A s \in {slot[m], durable[m]} : s.kind = "file" => ino'[s.ino] = ino[s.ino]
    BY <1>2, <1>4, <1>5
  <2>2. slot'[m] = slot[m] /\ durable'[m] = durable[m]
    BY <1>5, <1>7
  <2> QED BY <2>1, <2>2 DEF Shown
<1>8. Promise!UserSave(n, d)
  BY <1>5, <1>6, <1>7 DEF Promise!UserSave
<1> QED BY <1>3, <1>8 DEF Promise!Next

\* UndoRename: only what was not reported is undone.
LEMMA UndoSeen ==
  ASSUME TInv, Unsyncable = {}, NEW n \in Names, UndoRename(n), reported' = reported
  PROVE  Promise!Next
<1>1. slot[n] # durable[n] /\ slot' = [slot EXCEPT ![n] = durable[n]] /\ UNCHANGED <<ino, durable>>
  BY DEF UndoRename
<1>2. reported[n] = NoReport
  BY <1>1 DEF TInv, FolderShape, ReportShape
<1>3. slot \in [Names -> Slot]
  BY DEF TInv, TransferTypeOK, FolderTypeOK
<1>4. slot'[n] = durable[n] /\ \A m \in Names : m # n => slot'[m] = slot[m]
  BY <1>1, <1>3
<1>5. Shown(slot[n])' = Shown(durable[n]) /\ \A m \in Names : m # n => Shown(slot[m])' = Shown(slot[m])
  BY <1>1, <1>4 DEF Shown
<1>6. \A m \in Names : Shown(durable[m])' = Shown(durable[m])
  BY <1>1 DEF Shown
<1>7. Promise!Undo(n)
  BY <1>2, <1>5, <1>6 DEF Promise!Undo
<1> QED BY <1>7 DEF Promise!Next

\* Boot: what is there is on the device.
LEMMA BootSeen ==
  ASSUME TInv, Boot, reported' = reported
  PROVE  Promise!Next
<1>1. durable' = slot /\ slot' = slot /\ ino' = [i \in Inodes |-> Synced(ino[i])]
  BY DEF Boot
<1>2. ASSUME NEW i \in Inodes
      PROVE  ino'[i].data = ino[i].data /\ ino'[i].verified = ino[i].verified /\ ino'[i].root = ino[i].root
  <2>1. ino[i] \in INode
    BY DEF TInv, TransferTypeOK, FolderTypeOK
  <2>2. ino'[i] = [ino[i] EXCEPT !.synced = Len(ino[i].data)]
    BY <1>1 DEF Synced
  <2> QED BY <2>1, <2>2 DEF INode
<1>3. \A n \in Names : slot[n].kind = "file" => slot[n].ino \in Inodes
  BY DEF TInv, TransferTypeOK, FolderTypeOK
<1>4. \A n \in Names : Shown(slot[n])' = Shown(slot[n]) /\ Shown(durable[n])' = Shown(slot[n])
  BY <1>1, <1>2, <1>3 DEF Shown
<1>5. Promise!Settle
  BY <1>4 DEF Promise!Settle
<1> QED BY <1>5 DEF Promise!Next

\* Every step of the engine is a step of Delivery, or none.
LEMMA StepPromise ==
  ASSUME TInv, TInv', Unsyncable = {}, [Next]_vars
  PROVE  [Promise!Next]_(Promise!vars)
<1>1. ASSUME NEW x \in Transfers, receive(x) PROVE [Promise!Next]_(Promise!vars)
  BY <1>1, ReceiverQuiet, SyncQuiet, WriteQuiet, PlaceSeen, FlushDoneSeen DEF receive
<1>2. ASSUME NEW x \in Transfers, send(x) PROVE [Promise!Next]_(Promise!vars)
  BY <1>2, SenderQuiet, WriteQuiet DEF send
<1>3. CASE Environment
  <2>1. ASSUME Decay, UNCHANGED <<src, listed, rx, reported>> PROVE [Promise!Next]_(Promise!vars)
    BY <2>1, EnvironmentQuiet, UndoSeen DEF Decay
  <2> QED BY <1>3, <2>1, EnvironmentQuiet, UserWriteSeen, BootSeen DEF Environment
<1>4. CASE UNCHANGED vars
  <2>1. UNCHANGED <<ino, slot, durable, reported>>
    BY <1>4 DEF vars, folder, names
  <2> QED BY <2>1, NotSeen
<1> QED BY <1>1, <1>2, <1>3, <1>4 DEF Next

\* DeliveryPromise: the engine implements Delivery, if every folder can be synced.
THEOREM TransferImplementsDelivery == Alone /\ Unsyncable = {} /\ Spec => DeliveryPromise
<1> SUFFICES ASSUME Unsyncable = {} PROVE Alone /\ Spec => DeliveryPromise
  OBVIOUS
<1>1. Alone /\ Init => Promise!Init
  BY InitInv, InitPromise
<1>2. TInv /\ TInv' /\ [Next]_vars => [Promise!Next]_(Promise!vars)
  BY StepPromise
<1> QED BY <1>1, <1>2, TransferInv, PTL DEF Spec, DeliveryPromise, Promise!Spec

\* What Delivery implies for the engine: what is reported is a whole received
\* file, and a power loss would find the same one.
THEOREM ReportedIsDurable == Alone /\ Unsyncable = {} /\ Spec => []Promise!DoneIsDurable
  BY TransferImplementsDelivery, Promise!DoneDurable, PTL DEF DeliveryPromise
=============================================================================
