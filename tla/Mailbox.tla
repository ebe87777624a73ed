------------------------------ MODULE Mailbox ------------------------------
(***************************************************************************)
(* The delivery method "Filesystem" (EEHlib/delivery/filesystem.py) with   *)
(* an mbox: several workers deliver to one user's box, and a mail reader,  *)
(* another process, works on it too.  The locks are those of Python's      *)
(* mailbox module: fcntl.lockf, which belongs to the process, so that it   *)
(* does not keep two workers apart and is given up by whichever of them    *)
(* unlocks or closes the file first, and then the dotlock, a file made by  *)
(* link.  A worker comes in at "open" and is taken back at "delivered".    *)
(***************************************************************************)
EXTENDS Naturals, Sequences

CONSTANTS
    Worker, Conn, None,
    Missing,     \* a box that is not there
    Eeh, Reader  \* the two processes

\* Assumed where the method is used, of these constants.
MailboxAssumption ==
    /\ None \notin Conn \cup Worker
    /\ Reader \notin Worker \cup {None} /\ Eeh \notin Worker \cup {Reader, None}
    /\ Missing \notin Seq(Conn)

VARIABLES
    pc, job, result,
    dotlocks,    \* what the box's directory allows
    file,        \* the messages in the box
    lockf,       \* the process that holds the fcntl lock
    dotlock,     \* who made the file <box>.lock
    offset,      \* the end of the box as each worker found it
    reader,      \* what the mail reader holds
    created,     \* boxes made by opening them: no box, one or more times
    lost,        \* messages written and overwritten or truncated since
    buffered     \* messages whose flush failed: they are left to close

boxVars == <<dotlocks, file, lockf, dotlock, offset, reader, created, lost, buffered>>

BoxLabel == {"open", "create", "lockf", "dotlock", "seek", "write", "unlock",
             "remove", "close"}

BoxTypeOK ==
    /\ dotlocks \in {"link", "rename", "skip"}
    /\ file \in Seq(Conn) \cup {Missing}
    /\ lockf \in {None, Eeh, Reader}
    /\ dotlock \in Worker \cup {None, Reader, Eeh}
    /\ offset \in [Worker -> Nat]
    /\ reader \in {"away", "lockf", "both"}
    /\ created \in 0 .. 2
    /\ lost \subseteq Conn
    /\ buffered \subseteq Conn

\* A dotlock of Eeh's own is what a crash has left behind.  The box may be new
\* where the locks work.
BoxInit ==
    /\ dotlocks \in {"link", "rename", "skip"}
    /\ file \in {<<>>, Missing}
    /\ file = Missing => dotlocks = "link"
    /\ lockf = None
    /\ dotlock \in {None, Eeh}
    /\ dotlock = Eeh => dotlocks = "link" /\ file = <<>>
    /\ offset = [w \in Worker |-> 0]
    /\ reader = "away"
    /\ created = 0
    /\ lost = {}
    /\ buffered = {}

At(w, label) == pc[w] = label
Goto(w, label) == pc' = [pc EXCEPT ![w] = label]

Content == {file[i] : i \in DOMAIN file}
Messages == IF file = Missing THEN {} ELSE Content

----------------------------------------------------------------------------
(* deliver: opening the box, outside the try. *)

Open(w) ==
    /\ At(w, "open")
    /\ Goto(w, IF file = Missing THEN "create" ELSE "lockf")
    /\ UNCHANGED <<result, boxVars>>

\* Opened for writing: whatever is in it by now is gone.
Create(w) ==
    /\ At(w, "create")
    /\ file' = <<>>
    /\ lost' = lost \cup Messages
    /\ created' = IF created = 0 THEN 1 ELSE 2
    /\ Goto(w, "lockf")
    /\ UNCHANGED <<result, dotlocks, lockf, dotlock, offset, reader, buffered>>

OpenRaises(w) ==
    /\ pc[w] \in {"open", "create"}
    /\ Goto(w, "delivered")
    /\ result' = [result EXCEPT ![w] = "raised"]
    /\ UNCHANGED boxVars

----------------------------------------------------------------------------
(* lock: the process's fcntl lock, then the dotlock. *)

LockF(w) ==
    /\ At(w, "lockf")
    /\ lockf # Reader
    /\ lockf' = Eeh
    /\ Goto(w, "dotlock")
    /\ UNCHANGED <<result, dotlocks, file, dotlock, offset, reader, created, lost, buffered>>

\* The failure that deliver reports; the box is closed but not unlocked.
Fails(w) ==
    /\ Goto(w, "close")
    /\ result' = [result EXCEPT ![w] = "False"]

LockFClash(w) ==
    /\ At(w, "lockf")
    /\ lockf = Reader
    /\ Fails(w)
    /\ UNCHANGED boxVars

DotlockFree == dotlocks = "rename" \/ dotlock = None

\* Mutant: the dotlock is not asked for.
DotlockTaken(w) ==
    /\ At(w, "dotlock")
    /\ dotlock' = w
    /\ Goto(w, "seek")
    /\ UNCHANGED <<result, dotlocks, file, lockf, offset, reader, created, lost, buffered>>

\* By link; by rename where links are not allowed, which takes it from
\* whoever has it; not at all in a directory that cannot be written.
DotLock(w) ==
    /\ At(w, "dotlock")
    /\ \/ dotlocks = "skip" /\ UNCHANGED dotlock
       \/ dotlocks # "skip" /\ DotlockFree /\ dotlock' = w
    /\ Goto(w, "seek")
    /\ UNCHANGED <<result, dotlocks, file, lockf, offset, reader, created, lost, buffered>>

\* Somebody has it, or its temporary file, whose name two workers share, is
\* there: the fcntl lock is given up, another worker's with it.
DotLockFails(w) ==
    /\ At(w, "dotlock")
    /\ lockf' = IF lockf = Eeh THEN None ELSE lockf
    /\ Fails(w)
    /\ UNCHANGED <<dotlocks, file, dotlock, offset, reader, created, lost, buffered>>

----------------------------------------------------------------------------
(* add: the end of the box is looked up, then written at. *)

Seek(w) ==
    /\ At(w, "seek")
    /\ offset' = [offset EXCEPT ![w] = Len(file)]
    /\ Goto(w, "write")
    /\ UNCHANGED <<result, dotlocks, file, lockf, dotlock, reader, created, lost, buffered>>

Unlocks(w, r) ==
    /\ Goto(w, "unlock")
    /\ result' = [result EXCEPT ![w] = r]

\* At the end that was found, whatever is there by now.
Put(w) ==
    IF offset[w] < Len(file)
      THEN /\ file' = [file EXCEPT ![offset[w] + 1] = job[w]]
           /\ lost' = lost \cup {file[offset[w] + 1]}
      ELSE file' = Append(file, job[w]) /\ UNCHANGED lost

Write(w) ==
    /\ At(w, "write")
    /\ Put(w)
    /\ Unlocks(w, "True")
    /\ UNCHANGED <<dotlocks, lockf, dotlock, offset, reader, created, buffered>>

\* Mutant: what was written stays.
WriteFailsLate(w) ==
    /\ At(w, "write")
    /\ file' = Append(file, job[w])
    /\ Unlocks(w, "False")
    /\ UNCHANGED <<dotlocks, lockf, dotlock, offset, reader, created, lost, buffered>>

\* Formatting or writing raises: the box is cut where the message began.
WriteFails(w) ==
    /\ At(w, "write")
    /\ LET kept == SubSeq(file, 1, IF offset[w] < Len(file) THEN offset[w] ELSE Len(file))
       IN  /\ file' = kept
           /\ lost' = lost \cup {file[i] : i \in Len(kept) + 1 .. Len(file)}
    /\ Unlocks(w, "False")
    /\ UNCHANGED <<dotlocks, lockf, dotlock, offset, reader, created, buffered>>

\* The flush after it is outside the try that cuts: the message is still in
\* the buffer of the open file.
FlushFails(w) ==
    /\ At(w, "write")
    /\ buffered' = buffered \cup {job[w]}
    /\ Unlocks(w, "False")
    /\ UNCHANGED <<dotlocks, file, lockf, dotlock, offset, reader, created, lost>>

----------------------------------------------------------------------------
(* finally: unlock and close. *)

Unlock(w) ==
    /\ At(w, "unlock")
    /\ lockf' = IF lockf = Eeh THEN None ELSE lockf
    /\ Goto(w, "remove")
    /\ UNCHANGED <<result, dotlocks, file, dotlock, offset, reader, created, lost, buffered>>

\* Whoever made it.
Remove(w) ==
    /\ At(w, "remove")
    /\ dotlock' = None
    /\ Goto(w, "close")
    /\ UNCHANGED <<result, dotlocks, file, lockf, offset, reader, created, lost, buffered>>

\* What close finds in the buffer it writes, with no lock any more, or it
\* raises; where the message is written, syncing may raise.
CloseFile(w) ==
    \/ /\ job[w] \notin buffered
       /\ UNCHANGED <<file, lost>>
       /\ \E r \in {result[w], "raised"} : result' = [result EXCEPT ![w] = r]
    \/ /\ job[w] \in buffered
       /\ Put(w)
       /\ UNCHANGED result
    \/ /\ job[w] \in buffered
       /\ UNCHANGED <<file, lost>>
       /\ result' = [result EXCEPT ![w] = "raised"]

\* Closing any descriptor of the file ends the process's fcntl lock.
Close(w) ==
    /\ At(w, "close")
    /\ CloseFile(w)
    /\ lockf' = IF lockf = Eeh THEN None ELSE lockf
    /\ offset' = [offset EXCEPT ![w] = 0]
    /\ Goto(w, "delivered")
    /\ UNCHANGED <<dotlocks, dotlock, reader, created, buffered>>

BoxDeliver(w) ==
    \/ Open(w) \/ Create(w) \/ OpenRaises(w)
    \/ LockF(w) \/ LockFClash(w) \/ DotLock(w) \/ DotLockFails(w)
    \/ Seek(w) \/ Write(w) \/ WriteFails(w) \/ FlushFails(w)
    \/ Unlock(w) \/ Remove(w) \/ Close(w)

----------------------------------------------------------------------------
(* The mail reader locks the box the same way. *)

ReaderLockF ==
    /\ reader = "away" /\ file # Missing
    /\ lockf = None
    /\ lockf' = Reader
    /\ reader' = "lockf"
    /\ UNCHANGED <<pc, result, dotlocks, file, dotlock, offset, created, lost, buffered>>

ReaderDotLock ==
    /\ reader = "lockf"
    /\ dotlocks = "skip" \/ DotlockFree
    /\ dotlock' = IF dotlocks = "skip" THEN dotlock ELSE Reader
    /\ reader' = "both"
    /\ UNCHANGED <<pc, result, dotlocks, file, lockf, offset, created, lost, buffered>>

ReaderGivesUp ==
    /\ reader # "away"
    /\ lockf' = None
    /\ dotlock' = IF reader = "both" THEN None ELSE dotlock
    /\ reader' = "away"
    /\ UNCHANGED <<pc, result, dotlocks, file, offset, created, lost, buffered>>

MailReader == ReaderLockF \/ ReaderDotLock \/ ReaderGivesUp

----------------------------------------------------------------------------
(* Properties. *)

Writing(w) == pc[w] \in {"seek", "write", "unlock"}

\* Where dotlocks are made by link, the box belongs to one worker or to the
\* mail reader from the look at its end to the unlocking, although the fcntl
\* lock is lost under the worker that has it (deliver, lock, unlock).
OneWriter ==
    dotlocks = "link" =>
        /\ \A v, w \in Worker : Writing(v) /\ Writing(w) => v = w
        /\ reader = "both" => \A w \in Worker : ~Writing(w)

\* What deliver needs to keep its word: dotlocks made by link, a box that
\* was not made twice, each time emptied, by workers who found none, and no
\* message left to close.
Reliable == dotlocks = "link" /\ created < 2 /\ buffered = {}

\* Such a box keeps every message it ever had: whoever writes at the end he
\* has looked up finds it still the end (deliver, add).
Kept == Reliable => lost = {}

=============================================================================
