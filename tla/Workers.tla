------------------------------ MODULE Workers ------------------------------
(***************************************************************************)
(* The background of the server: channels submit their messages to the     *)
(* executor (EEHlib/channel.py, sleep), whose queue has no bound and whose *)
(* threads are few; each thread runs process_message for one message of    *)
(* one recipient: it asks the user driver (module ListDriver), delivers    *)
(* (Mailbox or Lmtp, by configuration) and the channel is woken with a     *)
(* status.  ProcessMessage has the rest of process_message, with drivers   *)
(* that answer arbitrarily; here are the drivers, with nothing around.     *)
(***************************************************************************)
EXTENDS Naturals, Sequences, FiniteSets

CONSTANTS
    Worker, Conn, None, Missing, Eeh, Reader,
    User, Recipient, AllowLists, DenyLists, MaxEdits, MaxHung,
    Regular    \* connections whose clients use the dummy, again and again


VARIABLES
    queue,      \* the executor's work queue
    status,     \* what each channel was woken with
    method,     \* the configured delivery
    pc, job, result,
    allow, deny, edits, emptied, due, wl_users, bl_users, new_wl, new_bl,
    dotlocks, file, lockf, dotlock, offset, reader, created, lost, buffered,
    eenforce, username, link, taken

Users == INSTANCE ListDriver
Box == INSTANCE Mailbox
Server == INSTANCE Lmtp

ASSUME WorkersAssumption ==
    /\ Users!ListAssumption /\ Box!MailboxAssumption /\ Server!LmtpAssumption
    /\ Regular \subseteq Conn

pool == <<queue, status, method, job>>
listVars == <<allow, deny, edits, emptied, due, wl_users, bl_users, new_wl, new_bl>>
boxVars == <<dotlocks, file, lockf, dotlock, offset, reader, created, lost, buffered>>
lmtpVars == <<eenforce, username, link, taken>>
vars == <<pool, pc, result, listVars, boxVars, lmtpVars>>

TypeOK ==
    /\ queue \in Seq(Conn)
    /\ status \in [Conn -> {"none", "waiting", "250", "550", "554"}]
    /\ method \in {"Dummy", "Filesystem", "LMTP"}
    /\ pc \in [Worker -> {"idle", "judged", "delivered"} \cup Users!ListLabel
                            \cup Box!BoxLabel \cup Server!LmtpLabel]
    /\ job \in [Worker -> Conn \cup {None}]
    /\ \A w \in Worker : job[w] = None <=> pc[w] = "idle"
    /\ result \in [Worker -> {None, "True", "False", "raised"}]
    /\ Users!ListTypeOK /\ Box!BoxTypeOK /\ Server!LmtpTypeOK

\* Each part of the configuration varies where it matters.
Init ==
    /\ queue = <<>>
    /\ status = [c \in Conn |-> "none"]
    /\ method \in {"Dummy", "Filesystem", "LMTP"}
    /\ pc = [w \in Worker |-> "idle"]
    /\ job = [w \in Worker |-> None]
    /\ result = [w \in Worker |-> None]
    /\ Users!ListInit
    /\ due = (method = "Dummy")
    /\ emptied = (method # "Dummy")
    /\ Box!BoxInit
    /\ method # "Filesystem" => file = Missing
    /\ Server!LmtpInit
    /\ method # "LMTP" => ~eenforce /\ ~username

At(w, label) == pc[w] = label
Goto(w, label) == pc' = [pc EXCEPT ![w] = label]

----------------------------------------------------------------------------
(* The executor. *)

\* Mutant: max_workers threads, less the one that counts.
PoolShort == {w \in Worker : w # CHOOSE v \in Worker : TRUE}

Pool == Worker

\* A message is complete: the channel goes to the background.  With the
\* dummy, which stores nothing, clients go on and on; otherwise each sends
\* one message.
Submit(c) ==
    /\ IF method = "Dummy" THEN c \in Regular /\ status[c] # "waiting"
                           ELSE status[c] = "none"
    /\ status' = [status EXCEPT ![c] = "waiting"]
    /\ queue' = Append(queue, c)
    /\ UNCHANGED <<method, job, pc, result, listVars, boxVars, lmtpVars>>

\* A thread takes the head of the queue and calls is_accepted_user.
Take(w) ==
    /\ w \in Pool
    /\ At(w, "idle")
    /\ queue # <<>>
    /\ job' = [job EXCEPT ![w] = Head(queue)]
    /\ queue' = Tail(queue)
    /\ Goto(w, "due")
    /\ UNCHANGED <<status, method, result, listVars, boxVars, lmtpVars>>

----------------------------------------------------------------------------
(* process_message between its calls. *)

\* Mutant: the thread keeps its work item.
AnswerKeeps(w, s) ==
    /\ status' = [status EXCEPT ![job[w]] = s]
    /\ result' = [result EXCEPT ![w] = None]
    /\ Goto(w, "idle")
    /\ UNCHANGED <<queue, method, job, listVars, boxVars, lmtpVars>>

\* The status is the future's result and wake_data pushes it.
Answer(w, s) ==
    /\ status' = [status EXCEPT ![job[w]] = s]
    /\ job' = [job EXCEPT ![w] = None]
    /\ result' = [result EXCEPT ![w] = None]
    /\ Goto(w, "idle")
    /\ UNCHANGED <<queue, method, listVars, boxVars, lmtpVars>>

\* The user is accepted: deliver is called; the dummy's only says True.
StartDelivery(w) ==
    /\ At(w, "judged") /\ result[w] = "True"
    /\ CASE method = "Filesystem" -> Goto(w, "open") /\ UNCHANGED result
         [] method = "LMTP" -> Goto(w, "connect") /\ UNCHANGED result
         [] method = "Dummy" -> Goto(w, "delivered") /\ UNCHANGED result
    /\ UNCHANGED <<pool, listVars, boxVars, lmtpVars>>

NotDelivered(w) ==
    /\ \/ At(w, "judged") /\ result[w] = "False"
       \/ At(w, "delivered") /\ result[w] = "False"
    /\ Answer(w, "550")

Delivered(w) ==
    /\ At(w, "delivered") /\ result[w] = "True"
    /\ Answer(w, "250")

\* wake_data turns an exception into an answer.
Raised(w) ==
    /\ At(w, "judged") \/ At(w, "delivered")
    /\ result[w] = "raised"
    /\ Answer(w, "554")

Process(w) ==
    \/ StartDelivery(w) \/ NotDelivered(w) \/ Delivered(w) \/ Raised(w)

----------------------------------------------------------------------------
WorkerStep(w) ==
    \/ Take(w)
    \/ Process(w)
    \/ Users!IsAcceptedUser(w) /\ UNCHANGED <<pool, boxVars, lmtpVars>>
    \/ Box!BoxDeliver(w) /\ UNCHANGED <<pool, listVars, lmtpVars>>
    \/ Server!LmtpDeliver(w) /\ UNCHANGED <<pool, listVars, boxVars>>

\* The administrator edits where nothing else of the environment moves.
Administrator ==
    /\ method = "Dummy"
    /\ Users!EditAllow \/ Users!EditDeny
    /\ UNCHANGED <<pool, boxVars, lmtpVars>>

Expire ==
    /\ method = "Dummy"
    /\ Users!Expire
    /\ UNCHANGED <<pool, boxVars, lmtpVars>>

MailReader ==
    /\ method = "Filesystem"
    /\ Box!MailReader
    /\ UNCHANGED <<pool, listVars, lmtpVars>>

Hang(w) ==
    /\ Server!Hang(w)
    /\ UNCHANGED <<pool, listVars, boxVars>>

\* Nobody sends any more, and no thread has work that goes on.
Rest ==
    /\ \A c \in Conn : status[c] # "none"
    /\ \A w \in Worker : pc[w] \in {"idle", "hung"}
    /\ UNCHANGED vars

Next ==
    \/ \E c \in Conn : Submit(c)
    \/ \E w \in Worker : WorkerStep(w) \/ Hang(w)
    \/ Administrator \/ Expire \/ MailReader \/ Rest

Spec == Init /\ [][Next]_vars

\* Every thread that does not hang goes on, time passes, and with the dummy
\* mail keeps coming.
FairSpec ==
    /\ Spec
    /\ \A w \in Worker : WF_vars(WorkerStep(w))
    /\ WF_vars(Expire)
    /\ \A c \in Regular : WF_vars(method = "Dummy" /\ Submit(c))

----------------------------------------------------------------------------
(* Properties. *)

Steady == Users!Steady
CatchesUp == method = "Dummy" => Users!CatchesUp
OneWriter == Box!OneWriter
Kept == Box!Kept
Enforced == Server!Enforced

\* A message is answered unless its own delivery hangs: sessions that hang
\* are fewer than the threads, and the queue is first in, first out (sleep).
Served ==
    \A c \in Conn :
        status[c] = "waiting"
            ~> status[c] # "waiting" \/ \E w \in Worker : job[w] = c /\ At(w, "hung")

\* The messages that are in the box or with the server now.
Stored == Box!Messages \cup taken

\* While deliver can be relied on.
Reliable == method = "Filesystem" => Box!Reliable

\* What the callers of deliver have heard.
Told ==
    [c \in Conn |->
        LET word == IF \E w \in Worker : job[w] = c /\ At(w, "delivered")
                    THEN result[CHOOSE w \in Worker : job[w] = c /\ At(w, "delivered")]
                    ELSE "none"
        IN  IF method = "Dummy" THEN "nothing"
            ELSE CASE status[c] = "250" \/ word = "True" -> "stored"
                   [] status[c] = "550" \/ word = "False" -> "not stored"
                   [] status[c] = "554" \/ word = "raised" -> "exception"
                   [] OTHER -> "nothing"]

Promise ==
    INSTANCE Delivery
        WITH Mail <- Conn, stored <- Stored, told <- Told, reliable <- Reliable

\* Both methods keep the promise of module Delivery to process_message.
\* LMTP keeps it always.  Filesystem keeps it as long as dotlocks are made by
\* link, no flush has failed and no two workers have both made the box: then
\* True says that the message is in the box and stays there, False that it is
\* not and never will be, whatever else fails and whoever else delivers
\* (Delivery.deliver of filesystem and lmtp).
ImplementsDelivery == Promise!Spec

=============================================================================
