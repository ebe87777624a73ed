-------------------------------- MODULE Lmtp --------------------------------
(***************************************************************************)
(* The delivery method "LMTP" (EEHlib/delivery/lmtp.py): one session of    *)
(* smtplib.LMTP for each message.  The server answers as it likes, or not  *)
(* at all: no call has a time limit.  An exception's arguments matter: the *)
(* handlers join or format them, which raises if they are not strings, or  *)
(* if there is only one.                                                   *)
(* A worker comes in at "connect" and is taken back at "delivered".        *)
(***************************************************************************)
EXTENDS Naturals, FiniteSets

CONSTANTS
    Worker, Conn, None,
    MaxHung            \* bound on the sessions that hang

\* Assumed where the method is used, of these constants.
LmtpAssumption == MaxHung \in Nat /\ None \notin Conn

VARIABLES
    pc, job, result,
    eenforce,    \* "Enforce encryption"
    username,    \* whether the url has a user name
    link,        \* each session's connection
    taken        \* messages the server has accepted

lmtpConfig == <<eenforce, username>>
lmtpVars == <<lmtpConfig, link, taken>>

LmtpLabel == {"connect", "lhlo", "starttls", "lhlo again", "login", "mail",
              "reply", "hung"}

LmtpTypeOK ==
    /\ eenforce \in BOOLEAN /\ username \in BOOLEAN
    /\ link \in [Worker -> {"none", "plain", "tls"}]
    /\ taken \subseteq Conn

LmtpInit ==
    /\ eenforce \in BOOLEAN
    /\ username \in BOOLEAN
    /\ link = [w \in Worker |-> "none"]
    /\ taken = {}

At(w, label) == pc[w] = label
Goto(w, label) == pc' = [pc EXCEPT ![w] = label]

\* deliver returns or raises; the connection goes with its local variable.
Return(w, r) ==
    /\ pc' = [pc EXCEPT ![w] = "delivered"]
    /\ result' = [result EXCEPT ![w] = r]
    /\ link' = [link EXCEPT ![w] = "none"]

Connect(w) ==
    /\ At(w, "connect")
    /\ link' = [link EXCEPT ![w] = "plain"]
    /\ Goto(w, "lhlo")
    /\ UNCHANGED <<result, lmtpConfig, taken>>

ConnectFails(w) ==
    /\ At(w, "connect")
    /\ Return(w, "False")
    /\ UNCHANGED <<lmtpConfig, taken>>

AfterEncryption == IF username THEN "login" ELSE "mail"

\* LHLO, before and after STARTTLS: anything but 250 gives up.
Lhlo(w) ==
    /\ \/ At(w, "lhlo") /\ Goto(w, "starttls")
       \/ At(w, "lhlo again") /\ Goto(w, AfterEncryption)
    /\ UNCHANGED <<result, lmtpVars>>

\* It is not in a try: a connection that breaks raises.
LhloFails(w) ==
    /\ At(w, "lhlo") \/ At(w, "lhlo again")
    /\ \E r \in {"False", "raised"} : Return(w, r)
    /\ UNCHANGED <<lmtpConfig, taken>>

StartTls(w) ==
    /\ At(w, "starttls")
    /\ link' = [link EXCEPT ![w] = "tls"]
    /\ Goto(w, "lhlo again")
    /\ UNCHANGED <<result, lmtpConfig, taken>>

\* Mutant: a failure is only logged.
StartTlsFailsQuietly(w) ==
    /\ At(w, "starttls")
    /\ Goto(w, AfterEncryption)
    /\ UNCHANGED <<result, lmtpVars>>

\* The server does not offer it: if it need not, the session goes on in clear.
StartTlsFails(w) ==
    /\ At(w, "starttls")
    /\ IF eenforce
         THEN Return(w, "False")
         ELSE Goto(w, AfterEncryption) /\ UNCHANGED <<result, link>>
    /\ UNCHANGED <<lmtpConfig, taken>>

\* The server refuses or the handshake fails: the exception's arguments are a
\* number and bytes, and joining them raises.
StartTlsRaises(w) ==
    /\ At(w, "starttls")
    /\ Return(w, "raised")
    /\ UNCHANGED <<lmtpConfig, taken>>

Login(w) ==
    /\ At(w, "login")
    /\ Goto(w, "mail")
    /\ UNCHANGED <<result, lmtpVars>>

\* Not offered, or the wrong password, whose exception cannot be joined.
LoginFails(w) ==
    /\ At(w, "login")
    /\ \E r \in {"False", "raised"} : Return(w, r)
    /\ UNCHANGED <<lmtpConfig, taken>>

\* sendmail: the sender or the text is refused, which has two arguments or
\* more; the recipient is refused or the connection breaks, which has one.
SendmailFails(w) ==
    /\ At(w, "mail")
    /\ \E r \in {"False", "raised"} : Return(w, r)
    /\ UNCHANGED <<lmtpConfig, taken>>

\* The server takes the message, and says so.
SendText(w) ==
    /\ At(w, "mail")
    /\ taken' = taken \cup {job[w]}
    /\ Goto(w, "reply")
    /\ UNCHANGED <<result, lmtpConfig, link>>

SendmailReturns(w) ==
    /\ At(w, "reply")
    /\ Return(w, "True")
    /\ UNCHANGED <<lmtpConfig, taken>>

\* The connection breaks before the server says so.
ReplyLost(w) ==
    /\ At(w, "reply")
    /\ Return(w, "raised")
    /\ UNCHANGED <<lmtpConfig, taken>>

\* The server is silent, at any time.
Hang(w) ==
    /\ pc[w] \in LmtpLabel \ {"hung"}
    /\ Cardinality({v \in Worker : At(v, "hung")}) < MaxHung
    /\ Goto(w, "hung")
    /\ UNCHANGED <<result, lmtpVars>>

LmtpDeliver(w) ==
    \/ Connect(w) \/ ConnectFails(w)
    \/ Lhlo(w) \/ LhloFails(w)
    \/ StartTls(w) \/ StartTlsFails(w) \/ StartTlsRaises(w)
    \/ Login(w) \/ LoginFails(w)
    \/ SendmailFails(w) \/ SendText(w)
    \/ SendmailReturns(w) \/ ReplyLost(w)

----------------------------------------------------------------------------
(* Properties. *)

\* With "Enforce encryption" neither password nor message leaves in clear,
\* whichever of the failures of STARTTLS is met (deliver).
Enforced ==
    \A w \in Worker :
        eenforce /\ pc[w] \in {"login", "mail", "reply"} => link[w] = "tls"

=============================================================================
