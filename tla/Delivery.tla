------------------------------ MODULE Delivery ------------------------------
(***************************************************************************)
(* What process_message may believe of a delivery method: while it can be  *)
(* relied on, deliver returns True only for a message that is stored and   *)
(* stays so, and False only for one that is not and never will be; an      *)
(* exception says nothing.  After a fault it may believe nothing, except   *)
(* that it hears of each message once.  Module Workers shows what          *)
(* delivery/filesystem and delivery/lmtp promise, and what a fault is.     *)
(***************************************************************************)
CONSTANT Mail    \* messages, each handed to deliver once

VARIABLES
    stored,    \* messages in the mailbox or with the server behind it
    told,      \* what process_message heard of each message
    reliable   \* no fault yet

promise == <<stored, told, reliable>>

Word == {"stored", "not stored", "exception"}

Init ==
    /\ stored = {}
    /\ told = [m \in Mail |-> "nothing"]
    /\ reliable \in BOOLEAN

\* The backend takes the message.
Store(m) ==
    /\ reliable /\ told[m] = "nothing"
    /\ stored' = stored \cup {m}
    /\ UNCHANGED <<told, reliable>>

\* deliver comes back: True, False or an exception.
Tell(m) ==
    /\ reliable /\ told[m] = "nothing"
    /\ \E word \in Word :
        /\ word = "stored" => m \in stored
        /\ word = "not stored" => m \notin stored
        /\ told' = [told EXCEPT ![m] = word]
    /\ UNCHANGED <<stored, reliable>>

\* A fault, or what may happen after one.
Fault ==
    /\ reliable' = FALSE
    /\ stored' \in SUBSET Mail
    /\ told' \in [Mail -> Word \cup {"nothing"}]
    /\ \A m \in Mail : told[m] # "nothing" => told'[m] = told[m]

Next == Fault \/ \E m \in Mail : Store(m) \/ Tell(m)

Spec == Init /\ [][Next]_promise

=============================================================================
