---------------------------- MODULE SmtpSession ----------------------------
(***************************************************************************)
(* A channel and the client it was written for: smtplib.SMTP and every     *)
(* mail server that does not pipeline (EEH does not announce PIPELINING).  *)
(* The client waits for the banner and then for the answer to each line    *)
(* before it sends the next, sends at least one line of text before the    *)
(* end-of-data mark, and may go away at any time.  It keeps a ledger of    *)
(* what the answers told it: the properties compare the ledger with the    *)
(* channel.  Where two threads have met in producer_fifo (overlapped) an   *)
(* answer may be there twice or not at all: most properties end there, and *)
(* what the client would say then is not followed (SmtpChannel's may say   *)
(* anything).                                                              *)
(***************************************************************************)
EXTENDS SmtpChannel

CONSTANTS
    MaxRcpt,   \* recipients a client gives one message
    MaxBody    \* lines of text in a message

ASSUME MaxRcptAssumption == MaxRcpt \in Nat \ {0}
ASSUME MaxBodyAssumption == MaxBody \in Nat \ {0}
ASSUME NoLineAssumption == None \notin Line

VARIABLES
    awaiting,          \* the line whose answer is outstanding, or None
    cphase,            \* "command", "data", "handshake" or "gone"
    cfrom, cto, cbody  \* the transaction the answers add up to

ledger == <<cfrom, cto, cbody>>
client == <<awaiting, cphase, ledger>>
svars  == <<vars, client>>

STypeOK ==
    /\ TypeOK
    /\ awaiting \in Line \cup {None}
    /\ cphase \in {"command", "data", "handshake", "gone"}
    /\ cfrom \in Address \cup {None}
    /\ cto \in Seq(Address)
    /\ cbody \in Seq(Line)

SInit ==
    /\ Init
    /\ awaiting = Bare("NOOP")      \* the banner is an answer to nothing
    /\ cphase = "command"
    /\ cfrom = None
    /\ cto = <<>>
    /\ cbody = <<>>

\* The commands of smtplib, with the arguments of this instance.
Commands ==
    {line \in ClientLines : line.verb \notin {"TEXT", "DOT", "GARBAGE", "PART"}}

Texts == {line \in ClientLines : line.verb = "TEXT"}

Send(line) ==
    /\ ~overlapped
    /\ net' = Append(net, line)
    /\ UNCHANGED <<server, eof, replies>>

\* putcmd
SendCommand ==
    /\ cphase = "command" /\ awaiting = None
    /\ \E line \in Commands :
        /\ line.verb = "RCPT" => Len(cto) < MaxRcpt
        /\ Send(line)
        /\ awaiting' = line
    /\ UNCHANGED <<cphase, ledger>>

\* data: the text needs no answer, the mark that ends it does.
SendText ==
    /\ cphase = "data" /\ awaiting = None
    /\ Len(cbody) < MaxBody
    /\ \E line \in Texts : Send(line) /\ cbody' = Append(cbody, line)
    /\ UNCHANGED <<awaiting, cphase, cfrom, cto>>

SendDot ==
    /\ cphase = "data" /\ awaiting = None
    /\ cbody # <<>>
    /\ Send(Bare("DOT"))
    /\ awaiting' = Bare("DOT")
    /\ UNCHANGED <<cphase, ledger>>

NoTransaction == cfrom' = None /\ cto' = <<>> /\ cbody' = <<>>

\* What a positive answer to a line means for the client.
Understand(line) ==
    CASE line.verb \in {"HELO", "EHLO", "RSET"} -> NoTransaction /\ cphase' = "command"
      [] line.verb = "STARTTLS" -> NoTransaction /\ cphase' = "handshake"
      [] line.verb = "MAIL" -> cfrom' = line.arg /\ UNCHANGED <<cto, cbody, cphase>>
      [] line.verb = "RCPT" -> cto' = Append(cto, line.arg) /\ UNCHANGED <<cfrom, cbody, cphase>>
      [] line.verb = "DATA" -> cphase' = "data" /\ UNCHANGED ledger
      [] line.verb = "QUIT" -> cphase' = "gone" /\ UNCHANGED ledger
      [] OTHER -> UNCHANGED <<cphase, ledger>>

\* getreply: any answer to the end-of-data mark ends the transaction.
ReadReply ==
    /\ cphase \in {"command", "data"} /\ awaiting # None
    /\ replies # <<>>
    /\ replies' = Tail(replies)
    /\ awaiting' = None
    /\ \/ /\ awaiting.verb = "DOT"
          /\ NoTransaction
          /\ cphase' = "command"
       \/ /\ awaiting.verb # "DOT"
          /\ Head(replies) # "5xx"
          /\ Understand(awaiting)
       \/ /\ awaiting.verb # "DOT"
          /\ Head(replies) = "5xx"
          /\ UNCHANGED <<cphase, ledger>>
    /\ UNCHANGED <<server, net, eof>>

\* starttls of smtplib ends with the handshake, and the client starts afresh.
Encrypted == HandshakeDone /\ cphase = "handshake" /\ cphase' = "command"
             /\ UNCHANGED <<awaiting, ledger>>

\* close, a time limit, a crash, a reset: the ledger stays as it was.
GoAway ==
    /\ cphase # "gone"
    /\ cphase' = "gone"
    /\ ClientClose
    /\ UNCHANGED <<awaiting, ledger>>

\* After 221 the client closes its end.
HangUp ==
    /\ cphase = "gone"
    /\ ClientClose
    /\ UNCHANGED client

\* HandshakeDone takes two: it is a step of Encrypted.
ServerStep ==
    /\ MainLoop /\ ~(tls = "handshake" /\ tls' = "tls")
    /\ UNCHANGED client

WorkerStep == WakeData /\ UNCHANGED client

SRest == Over /\ cphase = "gone" /\ eof /\ UNCHANGED svars

SNext == ServerStep \/ Encrypted \/ WorkerStep \/ SendCommand \/ SendText \/ SendDot
         \/ ReadReply \/ GoAway \/ HangUp \/ SRest

SSpec == SInit /\ [][SNext]_svars

\* The loop keeps turning and process_message returns; nothing is asked of
\* the client.
SFairSpec == SSpec /\ WF_svars(ServerStep) /\ WF_svars(WorkerStep)

----------------------------------------------------------------------------
(* The channel implements mail transactions. *)

\* Until wake_data resets it, the transaction is the one of the job.
Processing == jobs # <<>> \/ waking > 0

Transaction == INSTANCE MailTransaction WITH
    phase <- IF overlapped THEN "closed"
             ELSE IF Processing THEN "processing"
             ELSE IF ~connected THEN "closed"
             ELSE IF smtp_state = "DATA" THEN "data"
             ELSE IF rcpttos # <<>> THEN "rcpt"
             ELSE IF mailfrom # None THEN "mail" ELSE "idle",
    from <- IF overlapped THEN None
            ELSE IF jobs # <<>> THEN jobs[1].from
            ELSE IF connected \/ waking > 0 THEN mailfrom ELSE None,
    to   <- IF overlapped THEN <<>>
            ELSE IF jobs # <<>> THEN jobs[1].to
            ELSE IF connected \/ waking > 0 THEN rcpttos ELSE <<>>

----------------------------------------------------------------------------
(* Properties. *)

\* Seen from outside the handlers, sleep and the three steps of wake_data
\* perform mail transactions as MailTransaction describes them, as long as
\* main thread and worker do not send at the same time.
ImplementsTransaction == Transaction!Spec

\* What reaches process_message is what this client was told had been
\* accepted, recipient by recipient and line by line, also when the client is
\* gone before it is processed (smtp_MAIL to found_terminator and sleep).
EnvelopeIntegrity ==
    ~overlapped => \A k \in DOMAIN jobs :
        jobs[k] = [from |-> cfrom, to |-> cto, body |-> cbody]

\* Between two lines client and channel agree on where they are: they never
\* get out of step, whatever was refused on the way.
InStep ==
    ~overlapped /\ connected /\ ~closing /\ awaiting = None /\ net = <<>>
    /\ LoopIdle /\ ~eof
        => /\ mailfrom = cfrom
           /\ rcpttos = cto
           /\ smtp_state = "DATA" <=> cphase = "data"
           /\ ~Processing

\* "End data with <CR><LF>.<CR><LF>" (the 354 answer of smtp_DATA): once the
\* mark was answered, the channel takes commands again.
DataEnds ==
    connected /\ awaiting = None /\ cphase = "command" => smtp_state = "COMMAND"

\* Nothing is under way for the channel.
Quiet == net = <<>> /\ LoopIdle /\ ~Processing /\ answering = 0

\* While a client waits and nothing is under way, its answer is on the wire,
\* or the connection is closed: no line is swallowed (push, wake_data), unless
\* two threads sent at the same time.
NoLostReply ==
    awaiting # None /\ connected /\ ~eof /\ Quiet /\ ~overlapped => replies # <<>>

\* Every line that wants an answer gets it, or the connection is closed, or
\* two threads sent at the same time.
Answered ==
    awaiting # None ~> awaiting = None \/ ~connected \/ replies # <<>> \/ overlapped

\* A client that goes away is noticed: the connection is closed and its
\* message, if it was complete, is finished (RecvEof, wake_data).
Closes == eof ~> ~connected /\ ~Processing /\ answering = 0

=============================================================================
