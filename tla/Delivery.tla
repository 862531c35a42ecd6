------------------------------ MODULE Delivery ------------------------------
(***************************************************************************)
(* What the receive folder promises its user (internal/transfer): a file   *)
(* arrives under its name whole and in one step, a power loss can take it  *)
(* back only until it was reported as done (OnFileDone), and what it takes *)
(* back is replaced by what was there before.  Transfer implements this.   *)
(***************************************************************************)
EXTENDS TLAPS

CONSTANTS
    Names,
    Data       \* contents of files

VARIABLES
    content,   \* per name, whose file is there ("fsend": a whole received one) and what it holds
    before,    \* what a power loss may put back there
    done       \* the file there was reported as done

vars == <<content, before, done>>

Owners == {"absent", "link", "emptyDir", "fullDir", "user", "fsend"}
Content == [by : Owners, data : Data]

Init ==
    /\ content \in [Names -> Content]
    /\ \A n \in Names : content[n].by # "fsend"
    /\ before = content
    /\ done = [n \in Names |-> FALSE]

\* A received file appears under its name.
Receive(n, d) ==
    /\ content' = [content EXCEPT ![n] = [by |-> "fsend", data |-> d]]
    /\ done' = [done EXCEPT ![n] = FALSE]
    /\ UNCHANGED before

\* The files under S are on the device, and the received ones are reported.
Commit(S) ==
    /\ before' = [n \in Names |-> IF n \in S THEN content[n] ELSE before[n]]
    /\ done' = [n \in Names |-> done[n] \/ (n \in S /\ content[n].by = "fsend")]
    /\ UNCHANGED content

\* A power loss undoes what was not reported.
Undo(n) ==
    /\ ~done[n]
    /\ content' = [content EXCEPT ![n] = before[n]]
    /\ UNCHANGED <<before, done>>

\* After a boot, what is there is on the device.
Settle ==
    /\ before' = content
    /\ UNCHANGED <<content, done>>

UserSave(n, d) ==
    /\ content' = [content EXCEPT ![n] = [by |-> "user", data |-> d]]
    /\ before' = [before EXCEPT ![n] = [by |-> "user", data |-> d]]
    /\ done' = [done EXCEPT ![n] = FALSE]

Next ==
    \/ \E n \in Names, d \in Data : Receive(n, d) \/ UserSave(n, d)
    \/ \E S \in SUBSET Names : Commit(S)
    \/ \E n \in Names : Undo(n)
    \/ Settle

Spec == Init /\ [][Next]_vars

-----------------------------------------------------------------------------
\* What was reported as done is a whole received file, and a power loss would
\* find the same file there.
DoneIsDurable ==
    \A n \in Names : done[n] => content[n].by = "fsend" /\ before[n] = content[n]

\* A reported file changes only when the user or a later transfer puts
\* another one in its place: it is never undone.
DoneKept ==
    [][\A n \in Names : done[n] /\ content'[n] # content[n] => ~done'[n]]_vars

DTypeOK ==
    /\ content \in [Names -> Content]
    /\ before \in [Names -> Content]
    /\ done \in [Names -> BOOLEAN]

\* Every step of the promise keeps the reported files durable.
LEMMA DoneIsDurableStep == DTypeOK /\ DoneIsDurable /\ [Next]_vars => DTypeOK' /\ DoneIsDurable'
<1> SUFFICES ASSUME DTypeOK, DoneIsDurable, [Next]_vars PROVE DTypeOK' /\ DoneIsDurable'
  OBVIOUS
<1> USE DEF DTypeOK, DoneIsDurable, Content, Owners
<1>1. ASSUME NEW n \in Names, NEW d \in Data, Receive(n, d) PROVE DTypeOK' /\ DoneIsDurable'
  BY <1>1 DEF Receive
<1>2. ASSUME NEW n \in Names, NEW d \in Data, UserSave(n, d) PROVE DTypeOK' /\ DoneIsDurable'
  BY <1>2 DEF UserSave
<1>3. ASSUME NEW S \in SUBSET Names, Commit(S) PROVE DTypeOK' /\ DoneIsDurable'
  BY <1>3 DEF Commit
<1>4. ASSUME NEW n \in Names, Undo(n) PROVE DTypeOK' /\ DoneIsDurable'
  BY <1>4 DEF Undo
<1>5. CASE Settle
  BY <1>5 DEF Settle
<1>6. CASE UNCHANGED vars
  BY <1>6 DEF vars
<1> QED BY <1>1, <1>2, <1>3, <1>4, <1>5, <1>6 DEF Next

\* The promise implies that what OnFileDone reported survives.
THEOREM DoneDurable == Spec => []DoneIsDurable
<1>1. Init => DTypeOK /\ DoneIsDurable
  BY DEF Init, DTypeOK, DoneIsDurable
<1> QED BY <1>1, DoneIsDurableStep, PTL DEF Spec

\* The promise implies that a reported file is never undone.
THEOREM DoneNeverUndone == Spec => DoneKept
<1>1. Init => DTypeOK /\ DoneIsDurable
  BY DEF Init, DTypeOK, DoneIsDurable
<1>2. DTypeOK /\ DoneIsDurable /\ [Next]_vars => [\A n \in Names : done[n] /\ content'[n] # content[n] => ~done'[n]]_vars
  BY DEF DTypeOK, DoneIsDurable, Next, Receive, UserSave, Commit, Undo, Settle, vars
<1> QED BY <1>1, <1>2, DoneIsDurableStep, PTL DEF Spec, DoneKept
=============================================================================
