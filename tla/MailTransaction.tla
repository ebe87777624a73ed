-------------------------- MODULE MailTransaction --------------------------
(***************************************************************************)
(* What a connection promises, seen from outside: mail transactions one    *)
(* after the other.  An envelope grows command by command, is frozen once  *)
(* the text begins, is handed over whole and exactly once, and is gone     *)
(* before the next one begins.  A transaction that is broken off hands     *)
(* nothing over.  SmtpSession implements this.                             *)
(***************************************************************************)
EXTENDS Sequences

CONSTANTS Address, None

VARIABLES
    phase,     \* where the transaction is
    from, to   \* its envelope

tvars == <<phase, from, to>>

Empty == from' = None /\ to' = <<>>

Init == phase = "idle" /\ from = None /\ to = <<>>

Begin ==
    /\ phase = "idle" /\ phase' = "mail"
    /\ from' \in Address
    /\ UNCHANGED to

AddRecipient ==
    /\ phase \in {"mail", "rcpt"} /\ phase' = "rcpt"
    /\ \E a \in Address : to' = Append(to, a)
    /\ UNCHANGED from

BeginText ==
    /\ phase = "rcpt" /\ phase' = "data"
    /\ UNCHANGED <<from, to>>

HandOver ==
    /\ phase = "data" /\ phase' = "processing"
    /\ UNCHANGED <<from, to>>

\* The connection may have gone while the message was processed.
Finish ==
    /\ phase = "processing" /\ phase' \in {"idle", "closed"}
    /\ Empty

Reset ==
    /\ phase \in {"mail", "rcpt"} /\ phase' = "idle"
    /\ Empty

Close ==
    /\ phase \in {"idle", "mail", "rcpt", "data"} /\ phase' = "closed"
    /\ Empty

Next == Begin \/ AddRecipient \/ BeginText \/ HandOver \/ Finish \/ Reset \/ Close

\* A message that was handed over is finished.
Spec == Init /\ [][Next]_tvars /\ WF_tvars(Finish)

=============================================================================
