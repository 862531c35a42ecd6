----------------------------- MODULE MCTransfer -----------------------------
(* Instances of the transfer engine for TLC. *)
EXTENDS Transfer, TLC

CONSTANTS b1, b2

\* What sources and user files hold.
OneBlock == {<<b1>>}
OneOrNone == {<<>>, <<b1>>}
OneEach == {<<b1>>, <<b2>>}
Pair == {<<b1, b2>>}
Twin == {<<b1, b1>>}
TwoBlocks == {<<b1, b2>>, <<b2, b2>>}
Growing == TwoBlocks \cup {<<b1, b1, b2>>}

\* The contents of an inode that no name and no session leads to are never
\* read again: states that differ in them only are one.
View == <<up, [i \in Inodes |-> IF i \in Linked \cup Open THEN ino[i] ELSE EmptyINode],
          names, src, listed, rx, reported>>
=============================================================================
