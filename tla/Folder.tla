------------------------------- MODULE Folder -------------------------------
(***************************************************************************)
(* The receive folder as the receiver's code sees it: the names a user     *)
(* sees, the partial downloads under .fsend with their sidecars            *)
(* (internal/transfer/partials.go), and the file contents behind both.     *)
(*                                                                         *)
(* Files are inodes: a rename moves a name, an open handle keeps writing   *)
(* to the inode it opened.  Contents are sequences of hash blocks, and a   *)
(* hash is the sequence it covers.  What the operating system promises     *)
(* after a power loss is modelled from how the code relies on it: the      *)
(* blocks of an inode that were not synced may be cut off or turn into     *)
(* junk, and a rename whose folder was not synced may be undone.           *)
(***************************************************************************)
EXTENDS Integers, Sequences, FiniteSets, SequencesExt

CONSTANTS
    Names,     \* the relative paths, as numbers
    Inodes,    \* bound: the inodes in use at once
    NoIno, NoMeta,
    Blocks,    \* contents of a hash block
    Junk,      \* a block that was never written, or lost
    MaxSize,   \* bound: blocks in a file
    MaxTime    \* bound: modification times

ASSUME FolderAssumption ==
    /\ NoIno \notin Inodes
    /\ Junk \notin Blocks
    /\ MaxSize \in Nat /\ MaxTime \in Nat
    /\ NoMeta \notin [size : 0..MaxSize, mtime : 0..MaxTime]

VARIABLES
    up,        \* the machine is running
    ino,       \* the inodes
    slot,      \* what a user finds under a name
    durable,   \* what a power loss may put back there
    partial,   \* <id>.partial
    meta       \* <id>.meta, the source version its partial was written from

names == <<slot, durable, partial, meta>>
folder == <<up, ino, names>>

Data == BoundedSeq(Blocks \cup {Junk}, MaxSize)
Entry == [size : 0..MaxSize, mtime : 0..MaxTime]   \* also what a listing says of a file

\* A file's blocks, how many of them are on the device, its modification time
\* (0: of its last write), and, as history, the content it was verified to be.
INode == [data : Data, synced : 0..MaxSize, mtime : 0..MaxTime, verified : BOOLEAN, root : Data]
EmptyINode == [data |-> <<>>, synced |-> 0, mtime |-> 0, verified |-> FALSE, root |-> <<>>]

Slot == [kind : {"absent", "file", "link", "emptyDir", "fullDir"}, ino : Inodes \cup {NoIno}]
Absent == [kind |-> "absent", ino |-> NoIno]

FolderTypeOK ==
    /\ up \in BOOLEAN
    /\ ino \in [Inodes -> INode]
    /\ \A i \in Inodes : ino[i].synced <= Len(ino[i].data)
    /\ slot \in [Names -> Slot] /\ durable \in [Names -> Slot]
    /\ \A n \in Names : slot[n].kind = "file" => slot[n].ino \in Inodes
    /\ partial \in [Names -> Inodes \cup {NoIno}]
    /\ meta \in [Names -> Entry \cup {NoMeta}]

-----------------------------------------------------------------------------
IsFile(n) == slot[n].kind = "file"
Size(i) == Len(ino[i].data)

\* The inodes some name leads to.
Linked == {slot[n].ino : n \in Names} \cup {durable[n].ino : n \in Names} \cup {partial[n] : n \in Names}

\* The least of the smaller sizes.
Least(a, b) == IF a < b THEN a ELSE b

\* f.Truncate(k): blocks past the old end read as zeros.
Truncated(f, k) == [f EXCEPT !.data = [j \in 1..k |-> IF j <= Len(f.data) THEN f.data[j] ELSE Junk],
                             !.synced = Least(f.synced, k)]

\* f.WriteAt of block b at offset k.
Written(f, k, b) ==
    LET len == IF k < Len(f.data) THEN Len(f.data) ELSE k + 1
    IN  [f EXCEPT !.data = [j \in 1..len |-> IF j = k + 1 THEN b
                                             ELSE IF j <= Len(f.data) THEN f.data[j] ELSE Junk],
                  !.synced = Least(f.synced, k)]

\* fsyncData
Synced(f) == [f EXCEPT !.synced = Len(f.data)]

\* (ps *partialStore) lookup: the partial was written from version e.
lookup(n, e) == partial[n] # NoIno /\ meta[n] = e /\ Size(partial[n]) <= e.size

\* lookup removes a partial that is there and does not match.
Stale(n, e) == partial[n] # NoIno /\ ~lookup(n, e)

\* (ps *partialStore) remove, of every name in S.
remove(S) ==
    /\ partial' = [n \in Names |-> IF n \in S THEN NoIno ELSE partial[n]]
    /\ meta' = [n \in Names |-> IF n \in S THEN NoMeta ELSE meta[n]]

createKeeps(n, i) ==   \* mutant: opened without O_TRUNC
    /\ ino' = [ino EXCEPT ![i] = IF partial[n] = NoIno THEN EmptyINode ELSE @]
    /\ partial' = [partial EXCEPT ![n] = i]

\* (ps *partialStore) create writes the sidecar first and then opens the data
\* file, which truncates the inode of a partial that is already there.
createMeta(n, e) == meta' = [meta EXCEPT ![n] = e]
create(n, i) ==
    /\ ino' = [ino EXCEPT ![i] = EmptyINode]
    /\ partial' = [partial EXCEPT ![n] = i]

-----------------------------------------------------------------------------
\* While the machine is down, what was not synced decays, piece by piece.
LoseTail(i) ==
    /\ ~up
    /\ Size(i) > ino[i].synced
    /\ ino' = [ino EXCEPT ![i].data = Front(@)]
    /\ UNCHANGED <<up, names>>

LoseBlock(i, k) ==
    /\ ~up
    /\ k \in (ino[i].synced + 1)..Size(i)
    /\ ino[i].data[k] # Junk
    /\ ino' = [ino EXCEPT ![i].data[k] = Junk]
    /\ UNCHANGED <<up, names>>

\* A rename onto n that its folder was not synced for is undone; the sidecar
\* that was dropped after it is back with it, or not.
UndoRename(n) ==
    /\ ~up
    /\ slot[n] # durable[n]
    /\ slot' = [slot EXCEPT ![n] = durable[n]]
    /\ IF IsFile(n) /\ partial[n] = NoIno
       THEN /\ partial' = [partial EXCEPT ![n] = slot[n].ino]
            /\ \E m \in {meta[n], [size |-> Size(slot[n].ino), mtime |-> ino[slot[n].ino].mtime]} :
                  meta' = [meta EXCEPT ![n] = m]
       ELSE UNCHANGED <<partial, meta>>
    /\ UNCHANGED <<up, ino, durable>>

\* Nothing under .fsend is synced by name.
LosePartial(n) ==
    /\ ~up
    /\ partial[n] # NoIno
    /\ partial' = [partial EXCEPT ![n] = NoIno]
    /\ UNCHANGED <<up, ino, slot, durable, meta>>

LoseMeta(n) ==
    /\ ~up
    /\ meta[n] # NoMeta
    /\ meta' = [meta EXCEPT ![n] = NoMeta]
    /\ UNCHANGED <<up, ino, slot, durable, partial>>

Decay ==
    \/ \E i \in Inodes : LoseTail(i)
    \/ \E i \in Inodes, k \in 1..MaxSize : LoseBlock(i, k)
    \/ \E n \in Names : UndoRename(n) \/ LosePartial(n) \/ LoseMeta(n)

Boot ==
    /\ ~up
    /\ up' = TRUE
    /\ ino' = [i \in Inodes |-> Synced(ino[i])]
    /\ durable' = slot
    /\ UNCHANGED <<slot, partial, meta>>
=============================================================================
