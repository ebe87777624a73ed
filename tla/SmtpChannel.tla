---------------------------- MODULE SmtpChannel ----------------------------
(***************************************************************************)
(* One SMTP connection of EEH: a StartTLSFutureChannel (EEHlib/channel.py) *)
(* on top of smtpd.SMTPChannel and asynchat, driven by the event loop, and *)
(* the worker threads that run process_message for it.                     *)
(*                                                                         *)
(* The unit of data is a line, or the beginning of one whose end has not   *)
(* come yet.  A read hands a chunk to asynchat, whose handle_read then     *)
(* goes through ac_in_buffer one command (or one search for the            *)
(* end-of-data mark) at a time.  A worker may run wake_data, with no lock, *)
(* while the main thread is anywhere in that: a handler that looks at the  *)
(* transaction and then acts on what it saw is two steps (handler), and    *)
(* wake_data is three: the flag, the reset, the status.  What two threads  *)
(* make of producer_fifo when both send is here only what comes of it      *)
(* (overlapped); module EventLoop has the steps.  The send buffer of the   *)
(* socket never fills up, and smtputf8 is on (the shipped configuration),  *)
(* so lines stay bytes.                                                    *)
(***************************************************************************)
EXTENDS Naturals, Sequences, SequencesExt

CONSTANTS
    Address,      \* mail addresses
    Text,         \* contents of a line of a message
    None,         \* Python's None
    DataLimit,    \* data_size_limit, in lines; 0 is no limit
    HasContext,   \* smtp_server.ctx is not None
    Outcomes,     \* how process_message may end
    ClientLines,  \* the lines an arbitrary client may send
    MaxBacklog    \* bound, line by line: what may be under way when it is sent

ASSUME NoneAssumption == None \notin Address \cup Text
ASSUME DataLimitAssumption == DataLimit \in Nat
ASSUME ContextAssumption == HasContext \in BOOLEAN
ASSUME BacklogAssumption == MaxBacklog \in [ClientLines -> Nat]

\* What process_message gives the channel: a reply it can send (None, a
\* refusal, or an exception turned into 554) or one it cannot encode.
Outcome == {"delivered", "refused", "nonascii"}

ASSUME OutcomesAssumption == Outcomes \subseteq Outcome

Verb == {"HELO", "EHLO", "MAIL", "RCPT", "DATA", "RSET", "QUIT", "STARTTLS",
         "NOOP",      \* any other command answered 2xx: NOOP, VRFY, HELP
         "BAD",       \* any line answered with an error and nothing else
         "GARBAGE",   \* bytes that are not UTF-8
         "PART",      \* the beginning of the line behind it
         "TEXT", "DOT"}

\* SMTPUTF8 is the parameter of that name; REFUSED stands for one that makes
\* the command fail after it (SIZE too large, an unknown parameter).
Params == {"SMTPUTF8", "REFUSED"}

Line == [verb : {"MAIL", "RCPT"}, arg : Address, params : SUBSET Params]
        \cup [verb : {"TEXT"}, arg : Text, params : {{}}]
        \cup [verb : Verb \ {"MAIL", "RCPT", "TEXT"}, arg : {None}, params : {{}}]

ASSUME ClientLinesAssumption == ClientLines \subseteq Line

\* A line with nothing but its verb.
Bare(verb) == [verb |-> verb, arg |-> None, params |-> {}]

Reply == {"220", "221", "250", "354", "5xx"}

\* What sleep gives the executor: the arguments of process_message.
Job == [from : Address \cup {None}, to : Seq(Address), body : Seq(Line)]

NoJob == [from |-> None, to |-> <<>>, body |-> <<>>]

\* What the main thread has found true and not acted on yet: a recipient or
\* DATA may come now, the end-of-data mark is there, this is not a command,
\* it is a message, the arguments of the job are made.
Handler == {"none", "rcpt", "data", "mark", "text", "message", "job"}

VARIABLES
    smtp_state,        \* "COMMAND" or "DATA"; fixes the terminator too
    mailfrom, rcpttos, require_SMTPUTF8, num_bytes,
    seen_greeting, extended_smtp,
    ac_in_buffer,      \* lines read from the socket and not looked at yet
    received_lines,    \* lines collected without their terminator
    rest,              \* the last thing collected is the beginning of a line
    handler, args,     \* inside found_terminator, and the job it has made
    in_background,     \* the channel answers no to readable and writable
    jobs,              \* futures of this channel that have not completed
    waking, answering, \* callbacks before their reset, before their push
    ahead,             \* a message ended while another was to be reset
    overlapped,        \* two threads have sent at the same time
    connected, closing,  \* closing: None is in producer_fifo
    tls,               \* "plain", "handshake" or "tls"
    net, eof, replies  \* the wire: lines unread, client gone, answers unread

transaction == <<smtp_state, mailfrom, rcpttos, require_SMTPUTF8, num_bytes>>
greeting    == <<seen_greeting, extended_smtp>>
input       == <<ac_in_buffer, received_lines, rest>>
within      == <<handler, args>>
callbacks   == <<waking, answering>>
work        == <<in_background, jobs, waking, answering>>
history     == <<ahead, overlapped>>
link        == <<connected, closing, tls>>
wire        == <<net, eof, replies>>
vars        == <<transaction, greeting, input, within, work, history, link, wire>>

TypeOK ==
    /\ smtp_state \in {"COMMAND", "DATA"}
    /\ mailfrom \in Address \cup {None}
    /\ rcpttos \in Seq(Address)
    /\ require_SMTPUTF8 \in BOOLEAN
    /\ num_bytes \in Nat
    /\ seen_greeting \in BOOLEAN
    /\ extended_smtp \in BOOLEAN
    /\ ac_in_buffer \in Seq(Line)
    /\ received_lines \in Seq(Line)
    /\ rest \in BOOLEAN
    /\ handler \in Handler
    /\ args \in Job
    /\ in_background \in BOOLEAN
    /\ jobs \in Seq(Job)
    /\ waking \in Nat /\ answering \in Nat
    /\ ahead \in BOOLEAN /\ overlapped \in BOOLEAN
    /\ connected \in BOOLEAN
    /\ closing \in BOOLEAN
    /\ tls \in {"plain", "handshake", "tls"}
    /\ net \in Seq(Line)
    /\ eof \in BOOLEAN
    /\ replies \in Seq(Reply)

\* A connection that has just been accepted: the banner is on its way.
Init ==
    /\ smtp_state = "COMMAND"
    /\ mailfrom = None
    /\ rcpttos = <<>>
    /\ require_SMTPUTF8 = FALSE
    /\ num_bytes = 0
    /\ seen_greeting = FALSE
    /\ extended_smtp = FALSE
    /\ ac_in_buffer = <<>>
    /\ received_lines = <<>>
    /\ rest = FALSE
    /\ handler = "none"
    /\ args = NoJob
    /\ in_background = FALSE
    /\ jobs = <<>>
    /\ waking = 0 /\ answering = 0
    /\ ahead = FALSE /\ overlapped = FALSE
    /\ connected = TRUE
    /\ closing = FALSE
    /\ tls = "plain"
    /\ net = <<>>
    /\ eof = FALSE
    /\ replies = <<"220">>

----------------------------------------------------------------------------
(* Pieces the handlers share. *)

\* push: append to producer_fifo and send its head.  Behind a None the head
\* closes the channel; during a handshake the socket is detached and sending
\* fails; a peer that is gone makes the send fail sooner or later.  Where two
\* threads meet in it, one may delete what the other has just appended.
Push(reply) ==
    \/ /\ connected /\ ~closing /\ tls # "handshake"
       /\ replies' = Append(replies, reply)
       /\ UNCHANGED connected
    \/ /\ ~connected \/ closing \/ tls = "handshake" \/ eof
       /\ connected' = FALSE
       /\ UNCHANGED replies
    \/ overlapped /\ tls # "handshake" /\ UNCHANGED <<connected, replies>>

\* Mutant: the recipients become None instead of an empty list.
SetPostDataStateNone ==
    /\ smtp_state' = "COMMAND"
    /\ mailfrom' = None
    /\ rcpttos' = None
    /\ require_SMTPUTF8' = FALSE
    /\ num_bytes' = 0

\* _set_post_data_state
SetPostDataState ==
    /\ smtp_state' = "COMMAND"
    /\ mailfrom' = None
    /\ rcpttos' = <<>>
    /\ require_SMTPUTF8' = FALSE
    /\ num_bytes' = 0

\* _set_rset_state
SetRsetState ==
    /\ SetPostDataState
    /\ received_lines' = <<>>

\* handle_read is not running.  A line is in the buffer until its handler
\* is through with it.
LoopIdle == ac_in_buffer = <<>>

\* The loop over the buffer takes the next thing.
Turn == ~LoopIdle /\ handler = "none"

\* The head of the buffer is a command line of this kind.
AtCommand(verb) ==
    /\ Turn
    /\ smtp_state = "COMMAND"
    /\ received_lines = <<>> /\ ~rest
    /\ Head(ac_in_buffer).verb = verb

\* found_terminator takes it.
Command(verb) ==
    /\ AtCommand(verb)
    /\ ac_in_buffer' = Tail(ac_in_buffer)
    /\ UNCHANGED <<rest, within, history>>

\* A command that has been looked at is carried out.
Resume(step) ==
    /\ handler = step /\ handler' = "none"
    /\ ac_in_buffer' = Tail(ac_in_buffer)
    /\ UNCHANGED <<rest, history>>

\* An exception leaves the loop over ac_in_buffer: handle_error closes the
\* channel and the rest of the buffer is never looked at.
Abort ==
    /\ ac_in_buffer' = <<>>
    /\ connected' = FALSE
    /\ UNCHANGED <<transaction, greeting, received_lines, rest, within, work, history,
                   closing, tls, wire>>

\* The commands that push an answer and leave everything else as it is.
Answer(reply) ==
    /\ Push(reply)
    /\ UNCHANGED <<transaction, greeting, received_lines, work, closing, tls, net, eof>>

----------------------------------------------------------------------------
(* Command handlers. *)

\* smtp_HELO and smtp_EHLO reset the transaction and may be repeated.
Greet ==
    \E verb \in {"HELO", "EHLO"} :
        /\ Command(verb)
        /\ SetRsetState
        /\ seen_greeting' = TRUE
        /\ extended_smtp' = (extended_smtp \/ verb = "EHLO")
        /\ Push("250")
        /\ UNCHANGED <<work, closing, tls, net, eof>>

\* smtp_MAIL is refused before it looks at the parameters.
MailRefused(line) ==
    \/ ~seen_greeting
    \/ ~extended_smtp /\ line.params # {}
    \/ mailfrom # None

\* smtp_MAIL: SMTPUTF8 takes effect before the parameters that may still
\* refuse the command.
Mail ==
    /\ Command("MAIL")
    /\ LET line == Head(ac_in_buffer)
       IN  \/ MailRefused(line) /\ Answer("5xx")
           \/ /\ ~MailRefused(line)
              /\ require_SMTPUTF8' = (require_SMTPUTF8 \/ "SMTPUTF8" \in line.params)
              /\ \/ "REFUSED" \in line.params /\ Push("5xx") /\ UNCHANGED mailfrom
                 \/ "REFUSED" \notin line.params /\ Push("250") /\ mailfrom' = line.arg
              /\ UNCHANGED <<smtp_state, rcpttos, num_bytes, greeting,
                             received_lines, work, closing, tls, net, eof>>

\* smtp_RCPT recognises no parameter.
RcptAccepted(line) ==
    /\ seen_greeting
    /\ mailfrom # None
    /\ line.params = {}

RcptRefused ==
    /\ Command("RCPT")
    /\ ~RcptAccepted(Head(ac_in_buffer))
    /\ Answer("5xx")

\* smtp_RCPT has looked at mailfrom ...
RcptCheck ==
    /\ AtCommand("RCPT")
    /\ RcptAccepted(Head(ac_in_buffer))
    /\ handler' = "rcpt"
    /\ UNCHANGED <<transaction, greeting, input, args, work, history, link, wire>>

\* ... and appends the address.
Rcpt ==
    /\ Resume("rcpt")
    /\ rcpttos' = Append(rcpttos, Head(ac_in_buffer).arg)
    /\ Push("250")
    /\ UNCHANGED <<smtp_state, mailfrom, require_SMTPUTF8, num_bytes, greeting,
                   received_lines, args, work, closing, tls, net, eof>>

\* Mutant: the recipients are not looked at.
DataAcceptedUnaddressed == seen_greeting

\* smtp_DATA
DataAccepted == seen_greeting /\ rcpttos # <<>>

DataRefused == Command("DATA") /\ ~DataAccepted /\ Answer("5xx")

\* smtp_DATA has looked at rcpttos ...
DataCheck ==
    /\ AtCommand("DATA")
    /\ DataAccepted
    /\ handler' = "data"
    /\ UNCHANGED <<transaction, greeting, input, args, work, history, link, wire>>

\* ... and asks for the text.
Data ==
    /\ Resume("data")
    /\ smtp_state' = "DATA"
    /\ Push("354")
    /\ UNCHANGED <<mailfrom, rcpttos, require_SMTPUTF8, num_bytes, greeting,
                   received_lines, args, work, closing, tls, net, eof>>

\* Mutant: the answer and nothing else.
RsetNothing == Command("RSET") /\ Answer("250")

\* smtp_RSET
Rset ==
    /\ Command("RSET")
    /\ SetRsetState
    /\ Push("250")
    /\ UNCHANGED <<greeting, work, closing, tls, net, eof>>

\* smtp_QUIT: the answer, then None behind it (close_when_done).
Quit ==
    /\ Command("QUIT")
    /\ Push("221")
    /\ closing' = TRUE
    /\ UNCHANGED <<transaction, greeting, received_lines, work, tls, net, eof>>

StartTlsOffered == HasContext /\ tls = "plain"

\* Mutant: the transaction survives.
StartTlsKeeps ==
    /\ Command("STARTTLS")
    /\ StartTlsOffered
    /\ connected /\ ~closing
    /\ replies' = Append(replies, "220")
    /\ tls' = "handshake"
    /\ UNCHANGED <<transaction, received_lines, greeting, work, connected, closing, net, eof>>

\* smtp_STARTTLS: the answer goes out in clear, then the socket is wrapped and
\* a TLSHandshaker takes the place of the channel in the socket map.
StartTls ==
    /\ Command("STARTTLS")
    /\ StartTlsOffered
    /\ connected /\ ~closing
    /\ replies' = Append(replies, "220")
    /\ tls' = "handshake"
    /\ SetRsetState
    /\ UNCHANGED <<greeting, work, connected, closing, net, eof>>

\* The answer could not be sent: wrap_socket raises on the closed socket.
StartTlsBroken ==
    /\ AtCommand("STARTTLS")
    /\ StartTlsOffered
    /\ ~connected \/ closing \/ eof
    /\ Abort

StartTlsRefused == Command("STARTTLS") /\ ~StartTlsOffered /\ Answer("5xx")

\* smtp_NOOP, smtp_VRFY, smtp_HELP
Noop == Command("NOOP") /\ Answer("250")

\* The error branches of found_terminator and of every handler, smtp_EXPN,
\* and lines of text that arrive where a command is expected.
Bad == \E verb \in {"BAD", "TEXT", "DOT"} : Command(verb) /\ Answer("5xx")

\* str(line, 'utf-8') raises.
Garbage == AtCommand("GARBAGE") /\ Abort

----------------------------------------------------------------------------
(* Collecting a message. *)

\* A line is complete if nothing was collected that it ends.
Ends(i) == IF i > 1 THEN ac_in_buffer[i - 1].verb # "PART" ELSE ~rest

\* Mutant: the CR LF of the DATA command counts.
EndsDataAtOnce(i) == ac_in_buffer[i].verb = "DOT"

\* The i-th buffered line completes CR LF . CR LF.  The first CR LF must have
\* been collected with (or held back after) a line of the message: it is
\* never the one that ended the DATA command.
EndsData(i) ==
    /\ ac_in_buffer[i].verb = "DOT"
    /\ i > 1 \/ received_lines # <<>>
    /\ Ends(i)

\* collect_incoming_data drops a chunk once the limit has been passed.
OverLimit == DataLimit # 0 /\ num_bytes > DataLimit

\* Mutant: the last chunk replaces the ones before it.
CollectedLast(lines) == lines

Collected(lines) == IF OverLimit THEN received_lines ELSE received_lines \o lines

Counted(lines) ==
    IF DataLimit = 0 \/ OverLimit THEN num_bytes ELSE num_bytes + Len(lines)

\* No end-of-data mark in the buffer: collect it all.
Collect ==
    /\ Turn
    /\ smtp_state = "DATA"
    /\ \A i \in DOMAIN ac_in_buffer : ~EndsData(i)
    /\ received_lines' = Collected(ac_in_buffer)
    /\ num_bytes' = Counted(ac_in_buffer)
    /\ rest' = (Last(ac_in_buffer).verb = "PART")
    /\ ac_in_buffer' = <<>>
    /\ UNCHANGED <<smtp_state, mailfrom, rcpttos, require_SMTPUTF8, greeting, within,
                   work, history, link, wire>>

\* The mark is at i: collect what is before it.
Mark ==
    /\ Turn
    /\ smtp_state = "DATA"
    /\ \E i \in DOMAIN ac_in_buffer :
        LET lines == SubSeq(ac_in_buffer, 1, i - 1)
        IN  /\ EndsData(i)
            /\ \A j \in 1 .. i - 1 : ~EndsData(j)
            /\ received_lines' = IF lines = <<>> THEN received_lines ELSE Collected(lines)
            /\ num_bytes' = Counted(lines)
            /\ ac_in_buffer' = SubSeq(ac_in_buffer, i, Len(ac_in_buffer))
    /\ rest' = FALSE
    /\ handler' = "mark"
    /\ ahead' = (ahead \/ jobs # <<>> \/ waking > 0)
    /\ UNCHANGED <<smtp_state, mailfrom, rcpttos, require_SMTPUTF8, greeting, args,
                   work, overlapped, link, wire>>

\* found_terminator ends with an answer, or with the job.
Conclude(step) == Resume(step) /\ received_lines' = <<>>

\* found_terminator begins: not in COMMAND state,
NoCommand ==
    /\ handler = "mark" /\ smtp_state # "COMMAND"
    /\ handler' = "text"
    /\ UNCHANGED <<transaction, greeting, input, args, work, history, link, wire>>

\* 451: nor in DATA state any more.
Confused ==
    /\ Conclude("text")
    /\ smtp_state # "DATA"
    /\ num_bytes' = 0
    /\ Push("5xx")
    /\ UNCHANGED <<smtp_state, mailfrom, rcpttos, require_SMTPUTF8, greeting, args,
                   work, closing, tls, net, eof>>

\* In DATA state.
InData ==
    /\ handler = "text" /\ smtp_state = "DATA"
    /\ handler' = "message"
    /\ UNCHANGED <<transaction, greeting, input, args, work, history, link, wire>>

TooLarge == DataLimit # 0 /\ num_bytes > DataLimit

\* 552: state, terminator and envelope stay what they were.
DataTooLarge ==
    /\ Conclude("message")
    /\ TooLarge
    /\ num_bytes' = 0
    /\ Push("5xx")
    /\ UNCHANGED <<smtp_state, mailfrom, rcpttos, require_SMTPUTF8, greeting, args,
                   work, closing, tls, net, eof>>

\* The arguments of process_message.
MakeJob ==
    /\ handler = "message" /\ ~TooLarge
    /\ handler' = "job"
    /\ args' = [from |-> mailfrom, to |-> rcpttos, body |-> received_lines]
    /\ UNCHANGED <<transaction, greeting, input, work, history, link, wire>>

\* sleep: to the background, and the job to the executor.
Sleep ==
    /\ Conclude("job")
    /\ in_background' = TRUE
    /\ jobs' = Append(jobs, args)
    /\ args' = NoJob
    /\ UNCHANGED <<transaction, greeting, callbacks, link, wire>>

\* Mutant: the flag is not cleared.
WakeStays ==
    /\ \E k \in DOMAIN jobs : jobs' = RemoveAt(jobs, k)
    /\ waking' = waking + 1
    /\ UNCHANGED <<transaction, greeting, input, within, in_background, answering, history,
                   link, wire>>

\* wake_data, called when any of the futures completes: the flag,
Wake ==
    /\ \E k \in DOMAIN jobs : jobs' = RemoveAt(jobs, k)
    /\ in_background' = FALSE
    /\ waking' = waking + 1
    /\ UNCHANGED <<transaction, greeting, input, within, answering, history, link, wire>>

\* _set_post_data_state,
WakeReset ==
    /\ waking > 0
    /\ waking' = waking - 1
    /\ answering' = answering + 1
    /\ SetPostDataState
    /\ UNCHANGED <<greeting, input, within, in_background, jobs, history, link, wire>>

\* push, or another thread sends at the same time: then the status goes out
\* once, twice or not at all, and an IndexError in the main thread closes the
\* channel.
PushStatus(reply) ==
    \/ Push(reply) /\ UNCHANGED overlapped
    \/ /\ connected /\ ~closing /\ tls # "handshake"
       /\ overlapped' = TRUE
       /\ \E n \in 0 .. 2 : replies' = replies \o [k \in 1 .. n |-> reply]
       /\ connected' \in BOOLEAN

\* Mutant: an exception is not answered.
WakePushResult ==
    /\ answering > 0
    /\ answering' = answering - 1
    /\ \E outcome \in Outcomes :
        \/ outcome = "delivered" /\ PushStatus("250")
        \/ outcome # "delivered" /\ UNCHANGED <<connected, replies, overlapped>>
    /\ UNCHANGED <<transaction, greeting, input, within, in_background, jobs, waking,
                   ahead, closing, tls, net, eof>>

\* and the status.  require_SMTPUTF8 is already reset when push encodes it,
\* so a status that is not ASCII raises inside the callback and nobody hears
\* of it.
WakePush ==
    /\ answering > 0
    /\ answering' = answering - 1
    /\ \E outcome \in Outcomes :
        LET reply == IF outcome = "delivered" THEN "250" ELSE "5xx"
        IN  \/ outcome # "nonascii" /\ PushStatus(reply)
            \/ outcome = "nonascii" /\ UNCHANGED <<connected, replies, overlapped>>
    /\ UNCHANGED <<transaction, greeting, input, within, in_background, jobs, waking,
                   ahead, closing, tls, net, eof>>

----------------------------------------------------------------------------
(* Events of the loop. *)

\* Lines that were collected in the background are followed by a CR LF that
\* asynchat held back.
HeldBack == smtp_state = "COMMAND" /\ received_lines # <<>> /\ ~rest

\* What has been collected, back in COMMAND state, is one command line: its
\* beginning says which, and a beginning of a line may be completed to what
\* was meant, to another command, or to none.
Fused(lines) ==
    LET first == lines[1]
    IN  IF \E i \in DOMAIN lines : lines[i].verb = "GARBAGE"
        THEN {Bare("GARBAGE")}
        ELSE IF first.verb = "PART"
        THEN {line \in ToSet(lines) : line.verb # "PART"} \cup {Bare("NOOP"), Bare("BAD")}
        ELSE IF Len(lines) = 1 \/ first.verb \in {"HELO", "EHLO"}
        THEN {first}
        ELSE IF first.verb = "NOOP" THEN {first, Bare("BAD")} ELSE {Bare("BAD")}

\* Mutant: wait for the rest of the mark, without leaving the loop.
FuseWaits == HeldBack /\ UNCHANGED input

\* The loop over ac_in_buffer meets the held back CR LF first.
Fuse ==
    /\ HeldBack
    /\ \E line \in Fused(received_lines) : ac_in_buffer' = <<line>> \o ac_in_buffer
    /\ received_lines' = <<>>
    /\ UNCHANGED rest

ReadHeldBack ==
    /\ Turn
    /\ Fuse
    /\ UNCHANGED <<transaction, greeting, within, work, history, link, wire>>

\* The mark was found, and found_terminator begins in COMMAND state: what was
\* collected is a command.
ReadAsCommand ==
    /\ handler = "mark" /\ smtp_state # "DATA"
    /\ handler' = "none"
    /\ \E line \in Fused(received_lines) : ac_in_buffer' = <<line>> \o Tail(ac_in_buffer)
    /\ received_lines' = <<>>
    /\ UNCHANGED <<transaction, greeting, rest, args, work, history, link, wire>>

\* The beginning of a command is collected,
CollectPart ==
    /\ Turn
    /\ smtp_state = "COMMAND"
    /\ received_lines = <<>> \/ rest
    /\ Head(ac_in_buffer).verb = "PART"
    /\ received_lines' = Append(received_lines, Head(ac_in_buffer))
    /\ rest' = TRUE
    /\ ac_in_buffer' = Tail(ac_in_buffer)
    /\ UNCHANGED <<transaction, greeting, within, work, history, link, wire>>

\* and what comes next is part of the same line.
Complete ==
    /\ Turn
    /\ smtp_state = "COMMAND"
    /\ rest
    /\ Head(ac_in_buffer).verb # "PART"
    /\ \E line \in Fused(Append(received_lines, Head(ac_in_buffer))) :
          ac_in_buffer' = <<line>> \o Tail(ac_in_buffer)
    /\ rest' = FALSE
    /\ received_lines' = <<>>
    /\ UNCHANGED <<transaction, greeting, within, work, history, link, wire>>

\* Mutant: the channel does not come back to the socket map after STARTTLS.
ReadableInClear == connected /\ ~in_background /\ tls = "plain" /\ LoopIdle

\* readable() and the socket map let the loop read from the client.
Readable == connected /\ ~in_background /\ tls # "handshake" /\ LoopIdle

\* handle_read takes a chunk from the socket.
Recv ==
    /\ Readable
    /\ \E k \in 1 .. Len(net) :
        /\ ac_in_buffer' = SubSeq(net, 1, k)
        /\ net' = SubSeq(net, k + 1, Len(net))
    /\ UNCHANGED <<transaction, greeting, received_lines, rest, within, work, history,
                   link, eof, replies>>

\* recv returns nothing: handle_close, and the loop still looks at its buffer.
RecvEof ==
    /\ Readable
    /\ eof /\ net = <<>>
    /\ \/ Fuse
       \/ ~HeldBack /\ UNCHANGED input
    /\ connected' = FALSE
    /\ UNCHANGED <<transaction, greeting, within, work, history, closing, tls, wire>>

\* A write event finds the None that close_when_done left.
CloseWhenDone ==
    /\ connected /\ closing /\ ~in_background /\ tls # "handshake" /\ LoopIdle
    /\ connected' = FALSE
    /\ UNCHANGED <<transaction, greeting, input, within, work, history, closing, tls, wire>>

\* TLSHandshaker.do_handshake succeeds: replace_connection initialises
\* asynchat again, but not received_lines.
HandshakeDone ==
    /\ connected /\ tls = "handshake" /\ LoopIdle
    /\ ~eof /\ net = <<>>
    /\ tls' = "tls"
    /\ in_background' = FALSE
    /\ closing' = FALSE
    /\ UNCHANGED <<transaction, greeting, input, within, jobs, callbacks, history,
                   connected, wire>>

\* do_handshake raises anything but want-read and want-write.
HandshakeFail ==
    /\ connected /\ tls = "handshake" /\ LoopIdle
    /\ connected' = FALSE
    /\ UNCHANGED <<transaction, greeting, input, within, work, history, closing, tls, wire>>

MainLoop ==
    \/ Greet \/ Mail \/ RcptRefused \/ RcptCheck \/ Rcpt
    \/ DataRefused \/ DataCheck \/ Data \/ Rset \/ Quit \/ Noop \/ Bad
    \/ StartTls \/ StartTlsBroken \/ StartTlsRefused \/ Garbage
    \/ Collect \/ Mark \/ NoCommand \/ Confused \/ InData \/ DataTooLarge \/ MakeJob \/ Sleep
    \/ ReadHeldBack \/ ReadAsCommand \/ CollectPart \/ Complete
    \/ Recv \/ RecvEof \/ CloseWhenDone \/ HandshakeDone \/ HandshakeFail

\* The worker that finishes a message.
WakeData == Wake \/ WakeReset \/ WakePush

----------------------------------------------------------------------------
(* A client that sends what it likes when it likes. *)

server == <<transaction, greeting, input, within, work, history, link>>

Backlog == Len(net) + Len(ac_in_buffer) + Len(received_lines) + Len(rcpttos)
           + Len(replies) + Len(jobs) + waking + answering

ClientSend ==
    /\ ~eof
    /\ \E line \in ClientLines :
        /\ Backlog < MaxBacklog[line]
        /\ net' = Append(net, line)
    /\ UNCHANGED <<server, eof, replies>>

ClientRead ==
    /\ replies # <<>>
    /\ replies' = Tail(replies)
    /\ UNCHANGED <<server, net, eof>>

\* The client goes away; a reset loses what was not read yet.
ClientClose ==
    /\ ~eof
    /\ eof' = TRUE
    /\ net' \in {net, <<>>}
    /\ UNCHANGED <<server, replies>>

Over == ~connected /\ LoopIdle /\ jobs = <<>> /\ waking = 0 /\ answering = 0

\* A connection that is over stays over.
Rest == Over /\ UNCHANGED vars

Next == MainLoop \/ WakeData \/ ClientSend \/ ClientRead \/ ClientClose \/ Rest

Spec == Init /\ [][Next]_vars

\* The loop keeps turning; a worker thread finishes what it has begun.
FairSpec == Spec /\ WF_vars(MainLoop) /\ WF_vars(WakeData)

----------------------------------------------------------------------------
(* Properties, whatever the client does. *)

\* The commands of a transaction come in their order: no recipient without a
\* sender, no sender without a greeting, no message text without a recipient
\* (smtp_MAIL, smtp_RCPT, smtp_DATA).  wake_data can break that in the middle
\* of one of them, but only on a connection where a message ended while the
\* one before it was with the executor.
EnvelopeOrder ==
    ~ahead =>
        /\ rcpttos # <<>> => mailfrom # None
        /\ mailfrom # None => seen_greeting
        /\ smtp_state = "DATA" => rcpttos # <<>>

\* process_message gets a text always, and sender and recipients unless the
\* client did not wait for the answer to the message before (found_terminator
\* against wake_data).
JobsComplete ==
    \A k \in DOMAIN jobs :
        /\ jobs[k].body # <<>>
        /\ ~ahead => jobs[k].from # None /\ jobs[k].to # <<>>

\* What the interface of process_message promises it: mailfrom is the address
\* of the sender and rcpttos lists the recipients, whatever the client does.
\* It does not hold.
JobsWhole == \A k \in DOMAIN jobs : jobs[k].from # None /\ jobs[k].to # <<>>

\* A channel that does not listen has a future whose callback has not begun;
\* otherwise the connection would be deaf for ever (sleep, wake_data,
\* replace_connection).
BackgroundHasJob == in_background => jobs # <<>>

\* Nothing of a transaction begun in clear text, and no complete line, goes
\* into TLS, in spite of wake-ups and of lines sent behind STARTTLS
\* (smtp_STARTTLS, replace_connection).  What does go with it: the greeting,
\* the sent beginning of a line, and messages still with the executor.
HandshakeClean ==
    tls = "handshake" /\ connected =>
        /\ smtp_state = "COMMAND"
        /\ mailfrom = None
        /\ rcpttos = <<>>
        /\ ~require_SMTPUTF8
        /\ \A i \in DOMAIN received_lines : received_lines[i].verb = "PART"

\* A channel that went to sleep wakes up, and handle_read gets to the end of
\* every chunk, whatever wake_data changes under it.
WakesUp == in_background ~> ~in_background
ChunkEnds == ~LoopIdle ~> LoopIdle

=============================================================================
