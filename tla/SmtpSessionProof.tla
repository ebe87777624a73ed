-------------------------- MODULE SmtpSessionProof --------------------------
(***************************************************************************)
(* A client and its channel, for every set of addresses, every alphabet,   *)
(* every size limit and any number of recipients and lines: the message    *)
(* that is processed is the one the client was told had been accepted, and *)
(* the two are never out of step, until two threads have sent at the same  *)
(* time.  The inductive invariant says, for each point the client may be   *)
(* at, what is on its way, what the channel holds and what its handlers    *)
(* have found true.                                                        *)
(***************************************************************************)
EXTENDS SmtpSession, SmtpChannelProof

(* The message of a client that keeps to the size limit.                   *)
Fits == DataLimit = 0 \/ MaxBody <= DataLimit

----------------------------------------------------------------------------
(* What lies between the client and the channel. *)

(* The lines that were sent and are neither obeyed nor part of a message   *)
(* that was handed over.                                                   *)
Pending == received_lines \o (ac_in_buffer \o net)

(* Whole lines and no mark; text and the mark that ends it.                *)
Plain(lines) == \A i \in 1 .. Len(lines) : lines[i].verb \notin {"DOT", "PART"}

Marked(lines) ==
    /\ lines # <<>>
    /\ lines[Len(lines)] = Bare("DOT")
    /\ \A i \in 1 .. Len(lines) - 1 : lines[i].verb \notin {"DOT", "PART"}

(* A chunk is dropped only after a message has passed the limit.           *)
Dropped == OverLimit /\ ~Fits

TextPending == Plain(Pending) /\ (Dropped \/ Pending = cbody)

MessagePending == Marked(Pending) /\ (Dropped \/ Pending = cbody \o <<Bare("DOT")>>)

----------------------------------------------------------------------------
(* What the channel holds. *)

Open == connected /\ ~closing /\ tls # "handshake"

SameEnvelope == mailfrom = cfrom /\ rcpttos = cto

Agrees == SameEnvelope /\ (smtp_state = "DATA" <=> cphase = "data")

Cleared == smtp_state = "COMMAND" /\ mailfrom = None /\ rcpttos = <<>>

(* The ledger, as process_message gets it.                                 *)
LedgerJob == [from |-> cfrom, to |-> cto, body |-> cbody]

(* What the channel holds when its answer to this line is on the wire: the *)
(* client will understand the same.                                        *)
Obeyed(line, reply) ==
    \/ line.verb = "DOT" /\ Cleared /\ Open
    \/ line.verb # "DOT" /\ reply = "5xx" /\ Agrees /\ Open
    \/ line.verb \in {"HELO", "EHLO", "RSET"} /\ reply # "5xx" /\ Cleared /\ Open
    \/ line.verb = "STARTTLS" /\ reply # "5xx" /\ Cleared /\ tls = "handshake"
    \/ /\ line.verb = "MAIL" /\ reply # "5xx" /\ Open
       /\ mailfrom = line.arg /\ rcpttos = cto /\ smtp_state = "COMMAND"
    \/ /\ line.verb = "RCPT" /\ reply # "5xx" /\ Open
       /\ mailfrom = cfrom /\ rcpttos = Append(cto, line.arg) /\ smtp_state = "COMMAND"
    \/ line.verb = "DATA" /\ reply # "5xx" /\ SameEnvelope /\ smtp_state = "DATA" /\ Open
    \/ /\ line.verb = "QUIT" /\ reply # "5xx" /\ closing /\ tls # "handshake"
       /\ smtp_state = "COMMAND"
    \/ line.verb = "NOOP" /\ reply # "5xx" /\ Agrees /\ Open

----------------------------------------------------------------------------
(* The points a client may be at. *)

(* The transaction is nobody's but the main thread's.                      *)
Free == jobs = <<>> /\ waking = 0 /\ answering = 0

Silent == replies = <<>> /\ Free

(* It has read its answer and sent nothing yet but text.                   *)
Resting ==
    /\ awaiting = None
    /\ Silent /\ Open /\ Agrees
    /\ \/ cphase = "command" /\ Pending = <<>>
       \/ cphase = "data" /\ TextPending

(* A command is on its way.                                                *)
CommandUnderWay ==
    /\ awaiting # None
    /\ cphase = "command"
    /\ awaiting.verb \notin {"TEXT", "DOT", "GARBAGE", "PART"}
    /\ Silent /\ Open /\ Agrees
    /\ Pending = <<awaiting>>

(* The end of a message is on its way.                                     *)
MarkUnderWay ==
    /\ awaiting = Bare("DOT")
    /\ cphase = "data"
    /\ cbody # <<>>
    /\ Silent /\ Open /\ Agrees
    /\ MessagePending

(* The message is being processed, or wake_data has begun: the transaction *)
(* is still the one of the message.                                        *)
AtWork ==
    /\ replies = <<>> /\ answering = 0
    /\ \/ jobs = <<LedgerJob>> /\ waking = 0
       \/ jobs = <<>> /\ waking = 1
    /\ SameEnvelope
    /\ Pending = <<>>

Handed == awaiting = Bare("DOT") /\ cphase = "data" /\ Open /\ AtWork

(* wake_data has reset it and not pushed the status.                       *)
AtPush ==
    /\ replies = <<>> /\ answering = 1
    /\ jobs = <<>> /\ waking = 0
    /\ Cleared
    /\ Pending = <<>>

Concluding == awaiting = Bare("DOT") /\ cphase = "data" /\ Open /\ AtPush

(* The answer is on the wire.                                              *)
Answering ==
    /\ awaiting # None
    /\ cphase \in {"command", "data"}
    /\ cphase = "data" <=> awaiting.verb = "DOT"
    /\ Free
    /\ \E reply \in Reply : replies = <<reply>> /\ Obeyed(awaiting, reply)
    /\ Pending = <<>>

(* The status could not be encoded: no answer will come.                   *)
Unanswered ==
    /\ "nonascii" \in Outcomes
    /\ awaiting = Bare("DOT")
    /\ cphase = "data"
    /\ Silent /\ Open /\ Cleared
    /\ Pending = <<>>

(* The handshake runs, or has failed.                                      *)
Handshaking ==
    /\ awaiting = None
    /\ cphase = "handshake"
    /\ Silent /\ Cleared
    /\ tls = "handshake"
    /\ cfrom = None /\ cto = <<>> /\ cbody = <<>>
    /\ Pending = <<>>

(* The channel answered 552 and takes what comes next for text.            *)
OutOfStep ==
    /\ ~Fits
    /\ smtp_state = "DATA"
    /\ Free
    /\ Open
    /\ \/ /\ awaiting = Bare("DOT") /\ cphase = "data"
          /\ replies = <<"5xx">> /\ Pending = <<>>
       \/ /\ awaiting = None /\ cphase = "command"
          /\ replies = <<>> /\ Pending = <<>>
       \/ /\ awaiting # None /\ cphase = "command"
          /\ replies = <<>> /\ Plain(Pending)

(* It has read 221 and not closed its end yet.                             *)
Leaving ==
    /\ cphase = "gone" /\ ~eof
    /\ awaiting = None
    /\ Silent
    /\ closing /\ tls # "handshake" /\ smtp_state = "COMMAND"
    /\ Pending = <<>>

(* It is gone and its message is being processed, is complete, or will     *)
(* never be; the last command may still be obeyed.                         *)
GoneComplete ==
    /\ Silent /\ Open
    /\ SameEnvelope /\ smtp_state = "DATA"
    /\ cbody # <<>>
    /\ MessagePending

GoneBroken ==
    /\ Free
    /\ replies = <<>> \/ \E reply \in Reply : replies = <<reply>>
    /\ \/ smtp_state = "DATA" /\ Plain(Pending)
       \/ smtp_state = "COMMAND" /\ Pending = <<>>
       \/ /\ smtp_state = "COMMAND" /\ replies = <<>>
          /\ \E line \in Line : Pending = <<line>> /\ line.verb # "PART"

Gone == cphase = "gone" /\ eof /\ (AtWork \/ AtPush \/ GoneComplete \/ GoneBroken)

Point == \/ Resting \/ CommandUnderWay \/ MarkUnderWay \/ Handed \/ Concluding
         \/ Answering \/ Unanswered \/ Handshaking \/ OutOfStep \/ Leaving \/ Gone

(* What the handlers have found true of this client's lines.               *)
Found ==
    /\ handler \in {"rcpt", "data"} => smtp_state = "COMMAND" /\ received_lines = <<>>
    /\ handler = "rcpt" => RcptAccepted(Head(ac_in_buffer))
    /\ handler = "data" => DataAccepted /\ Head(ac_in_buffer).verb = "DATA"
    /\ handler \in {"mark", "text", "message", "job"} =>
            ac_in_buffer = <<Bare("DOT")>> /\ net = <<>> /\ smtp_state = "DATA"
    /\ handler = "job" =>
            args = [from |-> mailfrom, to |-> rcpttos, body |-> received_lines]

(* Only whole lines of a message are collected; only a message that is     *)
(* processed keeps the channel from listening; the count never exceeds     *)
(* what was collected.                                                     *)
Tidy ==
    /\ ~rest /\ ~ahead
    /\ received_lines # <<>> => smtp_state = "DATA"
    /\ Plain(received_lines)
    /\ in_background <=> jobs # <<>>
    /\ jobs # <<>> \/ waking # 0 => smtp_state = "DATA" /\ handler = "none"
    /\ jobs = <<>> /\ waking = 0 => num_bytes <= Len(received_lines)
    /\ Found
    /\ eof => cphase = "gone"
    /\ cphase = "command" => cbody = <<>>
    /\ Plain(cbody)
    /\ Len(cbody) <= MaxBody

SInv == Tidy /\ Point

----------------------------------------------------------------------------
(* Sequences of lines. *)

(* The mark that ends a message.                                           *)
LEMMA DotType == Bare("DOT") \in Line /\ Bare("DOT") # None /\ Bare("DOT").verb = "DOT"
<1>1. Bare("DOT") \in Line
  BY BareType DEF Verb
<1>2. QED
  BY <1>1, NoLineAssumption DEF Bare

(* What joining two sequences gives, element by element.                   *)
LEMMA JoinElements ==
    ASSUME NEW a \in Seq(Line), NEW b \in Seq(Line)
    PROVE  /\ a \o b \in Seq(Line)
           /\ Len(a) \in Nat /\ Len(b) \in Nat
           /\ Len(a \o b) = Len(a) + Len(b)
           /\ \A i \in 1 .. Len(a) : (a \o b)[i] = a[i]
           /\ \A i \in 1 .. Len(b) : (a \o b)[Len(a) + i] = b[i]
<1>1. /\ a \o b \in Seq(Line)
      /\ Len(a) \in Nat /\ Len(b) \in Nat
      /\ Len(a \o b) = Len(a) + Len(b)
      /\ \A i \in 1 .. Len(a) + Len(b) :
            (a \o b)[i] = IF i <= Len(a) THEN a[i] ELSE b[i - Len(a)]
  BY ConcatProperties, LenProperties
<1>2. ASSUME NEW i \in 1 .. Len(b)
      PROVE  (a \o b)[Len(a) + i] = b[i]
  <2>1. Len(a) + i \in 1 .. Len(a) + Len(b) /\ ~(Len(a) + i <= Len(a)) /\ (Len(a) + i) - Len(a) = i
    BY <1>1
  <2>2. QED
    BY <1>1, <2>1
<1>3. ASSUME NEW i \in 1 .. Len(a)
      PROVE  (a \o b)[i] = a[i]
  BY <1>1
<1>4. QED
  BY <1>1, <1>2, <1>3

(* Nothing is joined of nothing.                                           *)
LEMMA JoinEmpty ==
    ASSUME NEW a \in Seq(Line), NEW b \in Seq(Line)
    PROVE  /\ a \o b = <<>> <=> a = <<>> /\ b = <<>>
           /\ a = <<>> => a \o b = b
           /\ b = <<>> => a \o b = a
  BY JoinElements, EmptySeq, ConcatEmptySeq

(* Sequences are joined in any grouping.                                   *)
LEMMA JoinThree ==
    ASSUME NEW a \in Seq(Line), NEW b \in Seq(Line), NEW c \in Seq(Line)
    PROVE  a \o (b \o c) = (a \o b) \o c
  BY ConcatAssociative

(* One line that has reached the buffer is all there is.                   *)
LEMMA JoinSingle ==
    ASSUME NEW a \in Seq(Line), NEW b \in Seq(Line), NEW line \in Line,
           a \o b = <<line>>
    PROVE  /\ a # <<>> => a = <<line>> /\ b = <<>>
           /\ a = <<>> => b = <<line>>
<1>1. Len(<<line>>) = 1 /\ <<line>>[1] = line /\ <<line>> \in Seq(Line)
  OBVIOUS
<1>2. ASSUME a # <<>>
      PROVE  a = <<line>> /\ b = <<>>
  <2>1. Len(a) # 0
    BY <1>2, EmptySeq
  <2>0. Len(a) \in Nat /\ Len(b) \in Nat /\ Len(a \o b) = Len(a) + Len(b)
    BY JoinElements
  <2>2. Len(a) + Len(b) = 1
    BY <1>1, <2>0, Zenon
  <2>3. \A m, n \in Nat : m # 0 /\ m + n = 1 => m = 1 /\ n = 0
    OBVIOUS
  <2>4. Len(a) = 1 /\ Len(b) = 0
    BY <2>0, <2>1, <2>2, <2>3, Zenon
  <2>5. a[1] = line
    <3>1. (a \o b)[1] = a[1]
      BY <2>4, JoinElements
    <3>2. QED
      BY <1>1, <3>1, Zenon
  <2>6. QED
    BY <1>1, <2>4, <2>5, SeqEqual, EmptySeq
<1>3. QED
  BY <1>2, JoinEmpty

(* Without a mark in the parts there is none in the whole.                 *)
LEMMA PlainJoin ==
    ASSUME NEW a \in Seq(Line), NEW b \in Seq(Line)
    PROVE  Plain(a \o b) <=> Plain(a) /\ Plain(b)
<1>1. ASSUME Plain(a \o b)
      PROVE  Plain(a) /\ Plain(b)
  <2>1. ASSUME NEW i \in 1 .. Len(a)
        PROVE  a[i].verb \notin {"DOT", "PART"}
    <3>1. i \in 1 .. Len(a \o b) /\ (a \o b)[i] = a[i]
      BY JoinElements
    <3>2. QED
      BY <1>1, <3>1 DEF Plain
  <2>2. ASSUME NEW i \in 1 .. Len(b)
        PROVE  b[i].verb \notin {"DOT", "PART"}
    <3>1. Len(a) + i \in 1 .. Len(a \o b) /\ (a \o b)[Len(a) + i] = b[i]
      BY JoinElements
    <3>2. QED
      BY <1>1, <3>1 DEF Plain
  <2>3. QED
    BY <2>1, <2>2 DEF Plain
<1>2. ASSUME Plain(a), Plain(b)
      PROVE  Plain(a \o b)
  <2>1. ASSUME NEW i \in 1 .. Len(a \o b)
        PROVE  (a \o b)[i].verb \notin {"DOT", "PART"}
    <3>1. CASE i <= Len(a)
      <4>1. i \in 1 .. Len(a) /\ (a \o b)[i] = a[i]
        BY <3>1, JoinElements
      <4>2. QED
        BY <1>2, <4>1 DEF Plain
    <3>2. CASE i > Len(a)
      <4>1. i - Len(a) \in 1 .. Len(b) /\ Len(a) + (i - Len(a)) = i
        BY <3>2, JoinElements
      <4>2. (a \o b)[i] = b[i - Len(a)]
        BY <4>1, JoinElements
      <4>3. QED
        BY <1>2, <4>1, <4>2 DEF Plain
    <3>3. QED
      BY <3>1, <3>2, JoinElements
  <2>2. QED
    BY <2>1 DEF Plain
<1>3. QED
  BY <1>1, <1>2

(* The mark is in the last part there is.                                  *)
LEMMA MarkedJoin ==
    ASSUME NEW a \in Seq(Line), NEW b \in Seq(Line), b # <<>>
    PROVE  Marked(a \o b) <=> Plain(a) /\ Marked(b)
<1>0. /\ Len(b) \in Nat /\ Len(b) # 0 /\ Len(a) \in Nat
      /\ Len(a \o b) = Len(a) + Len(b)
      /\ a \o b # <<>>
      /\ (a \o b)[Len(a \o b)] = b[Len(b)]
  BY JoinElements, JoinEmpty, EmptySeq
<1>1. ASSUME Marked(a \o b)
      PROVE  Plain(a) /\ Marked(b)
  <2>1. ASSUME NEW i \in 1 .. Len(a)
        PROVE  a[i].verb \notin {"DOT", "PART"}
    <3>1. i \in 1 .. Len(a \o b) - 1 /\ (a \o b)[i] = a[i]
      BY <1>0, JoinElements
    <3>2. QED
      BY <1>1, <3>1 DEF Marked
  <2>2. ASSUME NEW i \in 1 .. Len(b) - 1
        PROVE  b[i].verb \notin {"DOT", "PART"}
    <3>1. Len(a) + i \in 1 .. Len(a \o b) - 1 /\ (a \o b)[Len(a) + i] = b[i]
      BY <1>0, JoinElements
    <3>2. QED
      BY <1>1, <3>1 DEF Marked
  <2>3. QED
    BY <1>0, <1>1, <2>1, <2>2 DEF Marked, Plain
<1>2. ASSUME Plain(a), Marked(b)
      PROVE  Marked(a \o b)
  <2>1. ASSUME NEW i \in 1 .. Len(a \o b) - 1
        PROVE  (a \o b)[i].verb \notin {"DOT", "PART"}
    <3>1. CASE i <= Len(a)
      <4>1. i \in 1 .. Len(a) /\ (a \o b)[i] = a[i]
        BY <3>1, JoinElements
      <4>2. QED
        BY <1>2, <4>1 DEF Plain
    <3>2. CASE i > Len(a)
      <4>1. i - Len(a) \in 1 .. Len(b) - 1 /\ Len(a) + (i - Len(a)) = i
        BY <1>0, <3>2
      <4>2. (a \o b)[i] = b[i - Len(a)]
        BY <1>0, <4>1, JoinElements
      <4>3. QED
        BY <1>2, <4>1, <4>2 DEF Marked
    <3>3. QED
      BY <1>0, <3>1, <3>2
  <2>2. QED
    BY <1>0, <1>2, <2>1 DEF Marked
<1>3. QED
  BY <1>1, <1>2

(* A mark behind text that has none ends it.                               *)
LEMMA MarkText ==
    ASSUME NEW a \in Seq(Line), Plain(a)
    PROVE  /\ a \o <<Bare("DOT")>> \in Seq(Line)
           /\ Marked(a \o <<Bare("DOT")>>)
<1>1. <<Bare("DOT")>> \in Seq(Line)
  BY BareType DEF Verb
<1>2. /\ <<Bare("DOT")>> # <<>>
      /\ Len(<<Bare("DOT")>>) = 1
      /\ <<Bare("DOT")>>[1] = Bare("DOT")
  OBVIOUS
<1>3. Marked(<<Bare("DOT")>>)
  BY <1>2 DEF Marked
<1>4. QED
  BY <1>1, <1>2, <1>3, MarkedJoin, JoinElements

(* Two messages that end in the same line are the same.                    *)
LEMMA JoinCancel ==
    ASSUME NEW a \in Seq(Line), NEW b \in Seq(Line), NEW line \in Line,
           a \o <<line>> = b \o <<line>>
    PROVE  a = b
<1>1. <<line>> \in Seq(Line)
  OBVIOUS
<1>2. QED
  BY <1>1, ConcatSimplifications

(* A read cuts what is unread in two (handle_read).                        *)
LEMMA CutJoin ==
    ASSUME NEW s \in Seq(Line), NEW k \in 1 .. Len(s)
    PROVE  /\ SubSeq(s, 1, k) \in Seq(Line)
           /\ SubSeq(s, k + 1, Len(s)) \in Seq(Line)
           /\ SubSeq(s, 1, k) \o SubSeq(s, k + 1, Len(s)) = s
<1>1. Len(s) \in Nat /\ k \in Nat /\ k <= Len(s)
  BY LenProperties
<1>2. SubSeq(s, 1, k) \in Seq(Line)
  BY <1>1, SubSeqType
<1>3. SubSeq(s, k + 1, Len(s)) \in Seq(Line)
  <2>1. k + 1 \in Nat \ {0} /\ Len(s) \in Int /\ Len(s) <= Len(s)
    BY <1>1
  <2>2. QED
    BY <2>1, SubSeqType
<1>4. SubSeq(s, 1, k) \o SubSeq(s, k + 1, Len(s)) = SubSeq(s, 1, Len(s))
  <2>1. 1 \in 1 .. Len(s) + 1 /\ k \in 1 - 1 .. Len(s) /\ Len(s) \in k .. Len(s)
    BY <1>1
  <2>2. QED
    BY <2>1, ConcatAdjacentSubSeq
<1>5. QED
  BY <1>2, <1>3, <1>4, SubSeqFull

----------------------------------------------------------------------------
(* What is pending. *)

(* The types of what lies between client and channel.                      *)
LEMMA PendingType ==
    ASSUME STypeOK
    PROVE  /\ received_lines \in Seq(Line) /\ ac_in_buffer \in Seq(Line) /\ net \in Seq(Line)
           /\ ac_in_buffer \o net \in Seq(Line)
           /\ Pending \in Seq(Line)
           /\ cbody \in Seq(Line)
           /\ replies \in Seq(Reply)
  BY JoinElements DEF STypeOK, TypeOK, Pending

(* Nothing is pending when all of its parts are empty.                     *)
LEMMA PendingNone ==
    ASSUME STypeOK
    PROVE  Pending = <<>> <=> received_lines = <<>> /\ ac_in_buffer = <<>> /\ net = <<>>
  BY PendingType, JoinEmpty DEF Pending

(* There is no end mark in it if there is none in its parts.               *)
LEMMA PendingPlain ==
    ASSUME STypeOK
    PROVE  Plain(Pending) <=> Plain(received_lines) /\ Plain(ac_in_buffer) /\ Plain(net)
  BY PendingType, PlainJoin DEF Pending

(* The mark of a message is the last line there is, wherever that is.      *)
LEMMA PendingMarked ==
    ASSUME STypeOK, Marked(Pending), Plain(received_lines)
    PROVE  /\ ~Plain(Pending)
           /\ net # <<>> => Plain(ac_in_buffer)
           /\ net = <<>> => ac_in_buffer # <<>> /\ Marked(ac_in_buffer)
<1>1. ~Plain(Pending)
  <2>1. Len(Pending) \in 1 .. Len(Pending) /\ Pending[Len(Pending)] = Bare("DOT")
    BY PendingType, EmptySeq DEF Marked
  <2>2. QED
    BY <2>1 DEF Plain, Bare
<1>2. ac_in_buffer \o net # <<>>
  <2>1. CASE ac_in_buffer \o net = <<>>
    BY <1>1, <2>1, PendingType, JoinEmpty DEF Pending
  <2>2. QED
    BY <2>1
<1>3. Marked(ac_in_buffer \o net)
  BY <1>2, PendingType, MarkedJoin DEF Pending
<1>4. net # <<>> => Plain(ac_in_buffer)
  BY <1>3, PendingType, MarkedJoin
<1>5. net = <<>> => ac_in_buffer # <<>> /\ Marked(ac_in_buffer)
  BY <1>2, <1>3, PendingType, JoinEmpty
<1>6. QED
  BY <1>1, <1>4, <1>5

(* An end-of-data mark that has reached the buffer of a channel that takes *)
(* text is the one the client sent last, there is text before it, and it   *)
(* is found.                                                               *)
LEMMA MarkInBuffer ==
    ASSUME STypeOK, SInv, smtp_state = "DATA",
           NEW i \in DOMAIN ac_in_buffer, ac_in_buffer[i].verb = "DOT"
    PROVE  /\ MarkUnderWay \/ (Gone /\ GoneComplete)
           /\ net = <<>>
           /\ i = Len(ac_in_buffer)
           /\ ac_in_buffer[i] = Bare("DOT")
           /\ i > 1 \/ received_lines # <<>>
           /\ EndsData(i)
<1>1. i \in 1 .. Len(ac_in_buffer) /\ ~Plain(ac_in_buffer) /\ ~Plain(Pending)
  <2>1. i \in 1 .. Len(ac_in_buffer)
    BY PendingType, LenProperties
  <2>2. QED
    BY <2>1, PendingPlain DEF Plain
<1>2. Pending # <<>>
  BY <1>1, PendingNone, EmptySeq DEF Plain
<1>3. MarkUnderWay \/ (Gone /\ GoneComplete)
  BY <1>1, <1>2
  DEF SInv, Point, Resting, TextPending, CommandUnderWay, Agrees, Handed, Concluding,
      Answering, Unanswered, Handshaking, OutOfStep, Leaving, Gone, AtWork, AtPush,
      GoneBroken
<1>4. /\ MessagePending /\ Free /\ cbody # <<>> /\ Plain(received_lines) /\ ~rest
      /\ num_bytes <= Len(received_lines)
  BY <1>3 DEF MarkUnderWay, GoneComplete, Silent, Free, SInv, Tidy
<1>5. net = <<>> /\ Marked(ac_in_buffer)
  BY <1>1, <1>4, PendingMarked DEF MessagePending
<1>6. i = Len(ac_in_buffer) /\ ac_in_buffer[i] = Bare("DOT")
  <2>1. Len(ac_in_buffer) \in Nat
    BY PendingType, LenProperties
  <2>2. ~(i \in 1 .. Len(ac_in_buffer) - 1)
    BY <1>5 DEF Marked
  <2>3. i = Len(ac_in_buffer)
    BY <1>1, <2>1, <2>2
  <2>4. QED
    BY <1>5, <2>3 DEF Marked
<1>7. i > 1 \/ received_lines # <<>>
  <2>1. CASE Dropped
    <3>1. Len(received_lines) # 0
      BY <1>4, <2>1, DataLimitAssumption, PendingType, LenProperties
      DEF Dropped, OverLimit, STypeOK, TypeOK
    <3>2. QED
      BY <3>1, EmptySeq
  <2>2. CASE Pending = cbody \o <<Bare("DOT")>>
    <3>1. /\ Len(cbody) \in Nat \ {0}
          /\ Len(<<Bare("DOT")>>) = 1 /\ <<Bare("DOT")>> \in Seq(Line)
      <4>1. Len(cbody) \in Nat \ {0}
        BY <1>4, PendingType, EmptySeq, LenProperties
      <4>2. QED
        BY <4>1, DotType
    <3>2. Len(Pending) = Len(cbody) + 1
      BY <2>2, <3>1, PendingType, JoinElements
    <3>3. received_lines = <<>> => Pending = ac_in_buffer
      BY <1>5, PendingType, JoinEmpty DEF Pending
    <3>4. QED
      BY <1>6, <3>1, <3>2, <3>3
  <2>3. QED
    BY <1>4, <2>1, <2>2 DEF MessagePending
<1>8. Ends(i)
  <2>1. i > 1 => i - 1 \in 1 .. Len(ac_in_buffer) - 1
    BY <1>1, <1>6
  <2>2. QED
    BY <1>4, <1>5, <2>1 DEF Ends, Marked
<1>9. QED
  BY <1>3, <1>5, <1>6, <1>7, <1>8 DEF EndsData

----------------------------------------------------------------------------
(* The steps of the channel. *)

(* As long as the same lines are pending in the same state, and what the   *)
(* handlers have found is true, the two are where they were.               *)
LEMMA StillStep ==
    ASSUME STypeOK, SInv, Pending' = Pending, Found',
           (jobs = <<>> /\ waking = 0) \/ handler' = "none",
           UNCHANGED <<smtp_state, mailfrom, rcpttos, num_bytes, received_lines, rest, ahead,
                       in_background, jobs, waking, answering, connected, closing, tls, eof,
                       replies, awaiting, cphase, cfrom, cto, cbody>>
    PROVE  SInv'
<1>1. Tidy'
  BY DEF SInv, Tidy, Plain
<1>2. Resting => Resting'
  BY DEF Resting, Silent, Free, Open, Agrees, SameEnvelope, TextPending, Dropped, Fits,
         OverLimit, Plain
<1>3. (CommandUnderWay => CommandUnderWay') /\ (MarkUnderWay => MarkUnderWay')
  BY DEF CommandUnderWay, MarkUnderWay, MessagePending, Marked, Dropped, Fits, OverLimit,
      Silent, Free, Open, Agrees, SameEnvelope
<1>4. (AtWork => AtWork') /\ (AtPush => AtPush')
  BY DEF AtWork, AtPush, SameEnvelope, Cleared, LedgerJob
<1>5. (Handed => Handed') /\ (Concluding => Concluding')
  BY <1>4 DEF Handed, Concluding, Open
<1>6. Answering => Answering'
  BY DEF Answering, Free, Open, Cleared, Agrees, SameEnvelope, Obeyed
<1>7. /\ Unanswered => Unanswered'
      /\ Handshaking => Handshaking'
      /\ Leaving => Leaving'
  BY DEF Unanswered, Handshaking, Leaving, Silent, Free, Open, Cleared
<1>8. OutOfStep => OutOfStep'
  BY DEF OutOfStep, Free, Open, Plain, Fits
<1>9. Gone => Gone'
  BY <1>4
  DEF Gone, GoneComplete, GoneBroken, MessagePending, Marked, Plain, Dropped, Fits,
      OverLimit, Silent, Free, Open, SameEnvelope
<1>10. QED
  BY <1>1, <1>2, <1>3, <1>5, <1>6, <1>7, <1>8, <1>9 DEF SInv, Point

(* A read moves lines from the wire to the buffer.                         *)
LEMMA RecvStep ==
    ASSUME STypeOK, AtLine, SInv, Recv, UNCHANGED client
    PROVE  SInv'
<1> USE DEF transaction, greeting, within, work, history, link, client, ledger
<1>1. Pending' = Pending
  <2>1. PICK k \in 1 .. Len(net) :
          /\ ac_in_buffer' = SubSeq(net, 1, k)
          /\ net' = SubSeq(net, k + 1, Len(net))
    BY DEF Recv
  <2>2. ac_in_buffer' \o net' = net
    BY <2>1, PendingType, CutJoin
  <2>3. ac_in_buffer \o net = net /\ received_lines' = received_lines
    BY PendingType, JoinEmpty DEF Recv, Readable, LoopIdle
  <2>4. QED
    BY <2>2, <2>3 DEF Pending
<1>2. UNCHANGED <<smtp_state, mailfrom, rcpttos, num_bytes, in_background, jobs, waking,
                  answering, ahead, rest, handler, connected, closing, tls, eof, replies,
                  received_lines, awaiting, cphase, cfrom, cto, cbody>>
  BY DEF Recv
<1>3. handler = "none"
  BY DEF Recv, Readable, LoopIdle, AtLine
<1>4. Found'
  BY <1>2, <1>3 DEF Found
<1>5. QED
  BY <1>1, <1>2, <1>3, <1>4, StillStep

(* A command that is looked at is the only line under way, and its client  *)
(* waits for the answer or is gone.                                        *)
LEMMA CommandPoint ==
    ASSUME STypeOK, SInv,
           smtp_state = "COMMAND", received_lines = <<>>, ac_in_buffer # <<>>
    PROVE  /\ Silent /\ net = <<>>
           /\ Tail(ac_in_buffer) = <<>>
           /\ Head(ac_in_buffer).verb # "PART"
           /\ num_bytes = 0
           /\ \/ CommandUnderWay /\ awaiting = Head(ac_in_buffer) /\ ~eof
              \/ Gone
<1>1. Pending # <<>>
  BY PendingNone
<1>2. /\ Silent
      /\ \/ CommandUnderWay
         \/ Gone
      /\ \E line \in Line : /\ Pending = <<line>> /\ line.verb # "PART"
                            /\ CommandUnderWay => line = awaiting
  <2>1. CommandUnderWay \/ (Gone /\ GoneBroken)
    BY <1>1
    DEF SInv, Point, Tidy, Resting, Agrees, MarkUnderWay, Handed, Concluding, Answering,
        Unanswered, Handshaking, OutOfStep, Leaving, Gone, AtWork, AtPush, GoneComplete
  <2>2. CASE CommandUnderWay
    <3>1. /\ awaiting \in Line /\ Pending = <<awaiting>> /\ Silent
          /\ awaiting.verb # "PART"
      BY <2>2 DEF CommandUnderWay, STypeOK
    <3>2. QED
      BY <2>2, <3>1
  <2>3. CASE ~CommandUnderWay /\ Gone /\ GoneBroken
    <3>1. /\ Silent
          /\ \E line \in Line : Pending = <<line>> /\ line.verb # "PART"
      BY <1>1, <2>3 DEF GoneBroken, Silent
    <3>2. QED
      BY <2>3, <3>1
  <2>4. QED
    BY <2>1, <2>2, <2>3
<1>3. PICK line \in Line : /\ Pending = <<line>> /\ line.verb # "PART"
                           /\ CommandUnderWay => line = awaiting
  BY <1>2
<1>4. ac_in_buffer \o net = <<line>>
  BY <1>3, PendingType, JoinEmpty DEF Pending
<1>5. ac_in_buffer = <<line>> /\ net = <<>>
  BY <1>4, PendingType, JoinSingle
<1>6. Head(ac_in_buffer) = line /\ Tail(ac_in_buffer) = <<>>
  BY <1>5
<1>7. num_bytes = 0
  <2>1. num_bytes \in Nat /\ num_bytes <= Len(<<>>) /\ Len(<<>>) = 0
    BY <1>2, EmptySeq DEF SInv, Tidy, Silent, Free, STypeOK, TypeOK
  <2>2. QED
    BY <2>1
<1>8. CommandUnderWay => ~eof
  BY DEF CommandUnderWay, SInv, Tidy
<1>9. QED
  BY <1>2, <1>3, <1>5, <1>6, <1>7, <1>8

(* The command at the head of the buffer is carried out.                   *)
Taken ==
    /\ smtp_state = "COMMAND" /\ received_lines = <<>> /\ ac_in_buffer # <<>>
    /\ ac_in_buffer' = Tail(ac_in_buffer)
    /\ handler' = "none"
    /\ UNCHANGED <<rest, ahead, overlapped>>

(* found_terminator takes it at once, or goes on with it.                  *)
LEMMA CommandTaken ==
    ASSUME STypeOK, AtLine, SInv
    PROVE  /\ \A verb : Command(verb) => Taken /\ Head(ac_in_buffer).verb = verb
           /\ Resume("rcpt") => /\ Taken /\ Head(ac_in_buffer).verb = "RCPT"
                                /\ RcptAccepted(Head(ac_in_buffer))
           /\ Resume("data") => /\ Taken /\ Head(ac_in_buffer).verb = "DATA"
                                /\ DataAccepted
<1> USE DEF within, history
<1>1. \A verb : Command(verb) => Taken /\ Head(ac_in_buffer).verb = verb
  BY DEF Command, AtCommand, Turn, LoopIdle, Taken
<1>2. QED
  BY <1>1 DEF Resume, AtLine, SInv, Tidy, Found, Taken

(* A handler of a command answers it, and holds what the client will       *)
(* understand.                                                             *)
LEMMA CommandStep ==
    ASSUME STypeOK, SInv, ~overlapped, Taken, NEW reply \in Reply, Push(reply),
           received_lines' = <<>>, smtp_state' \in {"COMMAND", "DATA"}, num_bytes' = 0,
           UNCHANGED <<work, net, eof, client>>,
           CommandUnderWay /\ awaiting = Head(ac_in_buffer) /\ Open /\ connected'
           => Obeyed(awaiting, reply)'
    PROVE  SInv'
<1> USE DEF work, client, ledger
<1>1. /\ Silent /\ net = <<>> /\ ac_in_buffer' = <<>>
      /\ \/ CommandUnderWay /\ awaiting = Head(ac_in_buffer) /\ ~eof
         \/ Gone
  BY CommandPoint DEF Taken
<1>2. Pending' = <<>>
  <2>1. <<>> \o (<<>> \o <<>>) = <<>>
    BY ConcatEmptySeq, EmptySeq
  <2>2. QED
    BY <1>1, <2>1 DEF Pending
<1>3. replies' = <<>> \/ replies' = <<reply>>
  BY <1>1 DEF Push, Silent
<1>4. Tidy'
  <2>1. Len(<<>>) = 0
    OBVIOUS
  <2>2. Plain(received_lines)'
    BY <2>1 DEF Plain
  <2>3. handler' = "none" /\ Found'
    BY DEF Taken, Found
  <2>4. QED
    BY <1>1, <2>1, <2>2, <2>3 DEF SInv, Tidy, Plain, Taken, Silent, Free
<1>5. CASE CommandUnderWay /\ awaiting = Head(ac_in_buffer) /\ ~eof
  <2>1. Open /\ replies' = <<reply>> /\ connected'
    <3>1. Append(<<>>, reply) = <<reply>>
      OBVIOUS
    <3>2. Open /\ replies' = Append(replies, reply) /\ connected' = connected
      BY <1>5 DEF Push, CommandUnderWay, Open
    <3>3. QED
      BY <1>1, <3>1, <3>2 DEF Open, Silent
  <2>2. Answering'
    BY <1>1, <1>2, <1>5, <2>1 DEF Answering, CommandUnderWay, Silent, Free
  <2>3. QED
    BY <1>4, <2>2 DEF SInv, Point
<1>6. CASE Gone
  <2>1. Len(<<>>) = 0
    OBVIOUS
  <2>2. Plain(Pending)'
    BY <1>2, <2>1 DEF Plain
  <2>3. GoneBroken'
    BY <1>1, <1>2, <1>3, <2>2 DEF GoneBroken, Silent, Free
  <2>4. QED
    BY <1>4, <1>6, <2>3 DEF SInv, Point, Gone
<1>7. QED
  BY <1>1, <1>5, <1>6

(* An answer that changes nothing else is an error, or belongs to NOOP.    *)
LEMMA AnswerStep ==
    ASSUME STypeOK, AtLine, SInv, ~overlapped, UNCHANGED client,
           NEW verb, Command(verb), NEW reply \in Reply, Answer(reply),
           reply = "5xx" \/ verb = "NOOP"
    PROVE  SInv'
<1> USE DEF transaction, work, client, ledger
<1>1. Taken /\ Head(ac_in_buffer).verb = verb /\ received_lines = <<>> /\ smtp_state = "COMMAND"
  BY CommandTaken DEF Taken
<1>2. num_bytes = 0
  BY <1>1, CommandPoint DEF Taken
<1>3. /\ Push(reply) /\ num_bytes' = 0 /\ received_lines' = <<>>
      /\ UNCHANGED <<smtp_state, mailfrom, rcpttos, work, net, eof, client, closing, tls>>
  BY <1>1, <1>2 DEF Answer
<1>4. CommandUnderWay /\ awaiting = Head(ac_in_buffer) /\ Open /\ connected'
      => Obeyed(awaiting, reply)'
  BY <1>1, <1>3 DEF CommandUnderWay, Agrees, SameEnvelope, Open, Obeyed
<1>5. QED
  BY <1>1, <1>3, <1>4, CommandStep

(* Each handler of found_terminator that comes back with an answer keeps   *)
(* the two in step.                                                        *)
LEMMA HandlerStep ==
    ASSUME STypeOK, AtLine, SInv, ~overlapped, UNCHANGED client,
           \/ Greet \/ Mail \/ RcptRefused \/ Rcpt \/ DataRefused \/ Data \/ Rset \/ Quit
           \/ Noop \/ Bad \/ StartTls \/ StartTlsRefused
    PROVE  SInv'
<1> USE DEF transaction, greeting, work, client, ledger
<1>0. /\ {"220", "221", "250", "354", "5xx"} \subseteq Reply
      /\ \A verb : Command(verb) => Taken /\ Head(ac_in_buffer).verb = verb
      /\ Taken => received_lines = <<>> /\ smtp_state = "COMMAND" /\ num_bytes = 0
  BY CommandTaken, CommandPoint DEF Reply, Taken
<1>2. CASE Greet
  <2>1. PICK verb \in {"HELO", "EHLO"} :
          /\ Command(verb)
          /\ SetRsetState
          /\ Push("250")
          /\ UNCHANGED <<work, closing, tls, net, eof>>
    BY <1>2 DEF Greet
  <2>2. CommandUnderWay /\ awaiting = Head(ac_in_buffer) /\ Open /\ connected'
        => Obeyed(awaiting, "250")'
    BY <1>0, <2>1 DEF Open, Obeyed, Cleared, SetRsetState, SetPostDataState
  <2>3. QED
    BY <1>0, <2>1, <2>2, CommandStep DEF SetRsetState, SetPostDataState
<1>3. CASE Mail
  <2> DEFINE line == Head(ac_in_buffer)
  <2>1. CASE Answer("5xx")
    BY <1>0, <1>3, <2>1, AnswerStep DEF Mail
  <2>2. CASE ~MailRefused(line) /\ ~Answer("5xx")
    <3>1. /\ Command("MAIL") /\ Taken /\ line.verb = "MAIL"
          /\ \/ Push("5xx") /\ UNCHANGED mailfrom
             \/ Push("250") /\ mailfrom' = line.arg
          /\ UNCHANGED <<smtp_state, rcpttos, num_bytes, received_lines, work, closing,
                         tls, net, eof>>
      BY <1>0, <1>3, <2>2 DEF Mail
    <3>2. CASE Push("5xx") /\ UNCHANGED mailfrom
      <4>1. CommandUnderWay /\ awaiting = Head(ac_in_buffer) /\ Open /\ connected'
            => Obeyed(awaiting, "5xx")'
        BY <3>1, <3>2 DEF CommandUnderWay, Agrees, SameEnvelope, Open, Obeyed
      <4>2. QED
        BY <1>0, <3>1, <3>2, <4>1, CommandStep
    <3>3. CASE Push("250") /\ mailfrom' = line.arg
      <4>1. CommandUnderWay /\ awaiting = Head(ac_in_buffer) /\ Open /\ connected'
            => Obeyed(awaiting, "250")'
        BY <1>0, <3>1, <3>3 DEF CommandUnderWay, Agrees, SameEnvelope, Open, Obeyed
      <4>2. QED
        BY <1>0, <3>1, <3>3, <4>1, CommandStep
    <3>4. QED
      BY <3>1, <3>2, <3>3
  <2>3. QED
    BY <1>3, <2>1, <2>2 DEF Mail
<1>4. CASE Rcpt
  <2>1. /\ Taken /\ Head(ac_in_buffer).verb = "RCPT"
        /\ rcpttos' = Append(rcpttos, Head(ac_in_buffer).arg)
        /\ Push("250")
        /\ UNCHANGED <<smtp_state, mailfrom, num_bytes, received_lines, work, closing,
                       tls, net, eof>>
    BY <1>4, CommandTaken DEF Rcpt
  <2>2. CommandUnderWay /\ awaiting = Head(ac_in_buffer) /\ Open /\ connected'
        => Obeyed(awaiting, "250")'
    BY <1>0, <2>1 DEF CommandUnderWay, Agrees, SameEnvelope, Open, Obeyed
  <2>3. QED
    BY <1>0, <2>1, <2>2, CommandStep
<1>5. CASE Data
  <2>1. /\ Taken /\ Head(ac_in_buffer).verb = "DATA"
        /\ smtp_state' = "DATA"
        /\ Push("354")
        /\ UNCHANGED <<mailfrom, rcpttos, num_bytes, received_lines, work, closing,
                       tls, net, eof>>
    BY <1>5, CommandTaken DEF Data
  <2>2. CommandUnderWay /\ awaiting = Head(ac_in_buffer) /\ Open /\ connected'
        => Obeyed(awaiting, "354")'
    BY <2>1 DEF CommandUnderWay, Agrees, SameEnvelope, Open, Obeyed
  <2>3. QED
    BY <1>0, <2>1, <2>2, CommandStep
<1>6. CASE Rset
  <2>1. /\ Command("RSET") /\ SetRsetState /\ Push("250")
        /\ UNCHANGED <<work, closing, tls, net, eof>>
    BY <1>6 DEF Rset
  <2>2. CommandUnderWay /\ awaiting = Head(ac_in_buffer) /\ Open /\ connected'
        => Obeyed(awaiting, "250")'
    BY <1>0, <2>1 DEF Open, Obeyed, Cleared, SetRsetState, SetPostDataState
  <2>3. QED
    BY <1>0, <2>1, <2>2, CommandStep DEF SetRsetState, SetPostDataState
<1>7. CASE Quit
  <2>1. /\ Command("QUIT") /\ Push("221") /\ closing' = TRUE
        /\ UNCHANGED <<smtp_state, num_bytes, received_lines, work, tls, net, eof>>
    BY <1>7 DEF Quit
  <2>2. CommandUnderWay /\ awaiting = Head(ac_in_buffer) /\ Open /\ connected'
        => Obeyed(awaiting, "221")'
    BY <1>0, <2>1 DEF Open, Obeyed
  <2>3. QED
    BY <1>0, <2>1, <2>2, CommandStep
<1>8. CASE StartTls
  <2>1. /\ Command("STARTTLS") /\ SetRsetState /\ Push("220") /\ tls' = "handshake"
        /\ UNCHANGED <<work, net, eof>>
    BY <1>8 DEF StartTls, StartTlsOffered, Push
  <2>2. CommandUnderWay /\ awaiting = Head(ac_in_buffer) /\ Open /\ connected'
        => Obeyed(awaiting, "220")'
    BY <1>0, <2>1 DEF Obeyed, Cleared, SetRsetState, SetPostDataState
  <2>3. QED
    BY <1>0, <2>1, <2>2, CommandStep DEF SetRsetState, SetPostDataState
<1>9. CASE RcptRefused \/ DataRefused \/ StartTlsRefused \/ Noop \/ Bad
  BY <1>0, <1>9, AnswerStep DEF RcptRefused, DataRefused, StartTlsRefused, Noop, Bad
<1>10. QED
  BY <1>2, <1>3, <1>4, <1>5, <1>6, <1>7, <1>8, <1>9

(* What a handler finds true is so, and looking changes nothing else.      *)
LEMMA CheckStep ==
    ASSUME STypeOK, SInv, UNCHANGED client,
           RcptCheck \/ DataCheck \/ NoCommand \/ InData \/ MakeJob
    PROVE  SInv'
<1> USE DEF transaction, greeting, input, work, history, link, wire, client, ledger
<1>1. /\ UNCHANGED <<smtp_state, mailfrom, rcpttos, num_bytes, seen_greeting, received_lines,
                     rest, ahead, in_background, jobs, waking, answering, connected, closing,
                     tls, ac_in_buffer, net, eof, replies, awaiting, cphase, cfrom, cto, cbody>>
      /\ Pending' = Pending
  BY DEF RcptCheck, DataCheck, NoCommand, InData, MakeJob, Pending
<1>2. jobs = <<>> /\ waking = 0
  <2>1. CASE RcptCheck \/ DataCheck
    BY <2>1, CommandPoint DEF RcptCheck, DataCheck, AtCommand, Turn, LoopIdle, Silent, Free
  <2>2. CASE NoCommand \/ InData \/ MakeJob
    BY <2>2 DEF NoCommand, InData, MakeJob, SInv, Tidy
  <2>3. QED
    BY <2>1, <2>2
<1>3. Found'
  <2>1. CASE RcptCheck
    BY <1>1, <2>1 DEF RcptCheck, AtCommand, Found, RcptAccepted
  <2>2. CASE DataCheck
    BY <1>1, <2>2 DEF DataCheck, AtCommand, Found, DataAccepted
  <2>3. CASE NoCommand
    BY <1>1, <2>3 DEF NoCommand, SInv, Tidy, Found
  <2>4. CASE InData
    BY <1>1, <2>4 DEF InData, SInv, Tidy, Found
  <2>5. CASE MakeJob
    BY <1>1, <2>5 DEF MakeJob, SInv, Tidy, Found
  <2>6. QED
    BY <2>1, <2>2, <2>3, <2>4, <2>5
<1>4. QED
  BY <1>1, <1>2, <1>3, StillStep

(* The text of a client that does not pipeline is never taken for a        *)
(* command, nor half a line for anything.                                  *)
LEMMA NeverStep ==
    ASSUME STypeOK, SInv
    PROVE  ~Confused /\ ~ReadHeldBack /\ ~ReadAsCommand /\ ~CollectPart /\ ~Complete
<1>1. ~Confused /\ ~ReadAsCommand
  BY DEF Confused, Conclude, Resume, ReadAsCommand, SInv, Tidy, Found
<1>2. ~ReadHeldBack
  BY DEF ReadHeldBack, Fuse, HeldBack, SInv, Tidy
<1>3. ~CollectPart /\ ~Complete
  BY CommandPoint DEF CollectPart, Complete, Turn, LoopIdle, SInv, Tidy
<1>4. QED
  BY <1>1, <1>2, <1>3

(* handle_error after an exception in a handler: only a client that is     *)
(* gone meets it.                                                          *)
LEMMA AbortStep ==
    ASSUME STypeOK, SInv, UNCHANGED client, StartTlsBroken \/ Garbage
    PROVE  SInv'
<1> USE DEF transaction, greeting, within, work, history, wire, client, ledger
<1>1. /\ Gone /\ Silent /\ net = <<>> /\ handler = "none"
      /\ received_lines = <<>> /\ smtp_state = "COMMAND"
  <2>1. CASE StartTlsBroken
    BY <2>1, CommandPoint
    DEF StartTlsBroken, AtCommand, Turn, LoopIdle, CommandUnderWay, Open
  <2>2. CASE Garbage
    BY <2>2, CommandPoint DEF Garbage, AtCommand, Turn, LoopIdle, CommandUnderWay
  <2>3. QED
    BY <2>1, <2>2
<1>2. /\ ac_in_buffer' = <<>>
      /\ UNCHANGED <<smtp_state, num_bytes, received_lines, rest, handler, ahead,
                     in_background, jobs, waking, answering, net, eof, replies>>
  BY DEF StartTlsBroken, Garbage, Abort
<1>3. Pending' = <<>>
  <2>1. <<>> \o (<<>> \o <<>>) = <<>>
    BY ConcatEmptySeq, EmptySeq
  <2>2. QED
    BY <1>1, <1>2, <2>1 DEF Pending
<1>4. Tidy'
  <2>1. Found'
    BY <1>1, <1>2 DEF Found
  <2>2. QED
    BY <1>2, <2>1 DEF SInv, Tidy, Plain
<1>5. GoneBroken'
  BY <1>1, <1>2, <1>3, EmptySeq DEF GoneBroken, Silent, Free
<1>6. QED
  BY <1>1, <1>2, <1>4, <1>5 DEF SInv, Point, Gone

(* As long as nothing was dropped the count is a count of the text: it     *)
(* passes the limit only if the message does.                              *)
LEMMA WithinLimit ==
    ASSUME STypeOK, SInv, NEW n \in Nat, n <= Len(cbody), DataLimit # 0, n > DataLimit
    PROVE  ~Fits
<1>1. Len(cbody) <= MaxBody /\ Len(cbody) \in Nat /\ MaxBody \in Nat /\ DataLimit \in Nat
  BY PendingType, LenProperties, DataLimitAssumption, MaxBodyAssumption DEF SInv, Tidy
<1>2. QED
  BY <1>1 DEF Fits

(* collect_incoming_data: the text stays what it is, unless it is dropped. *)
LEMMA CollectStep ==
    ASSUME STypeOK, SInv, Collect, UNCHANGED client
    PROVE  SInv'
<1> USE DEF within, work, history, link, wire, client, ledger
<1>0. /\ ac_in_buffer # <<>> /\ smtp_state = "DATA" /\ Pending # <<>> /\ handler = "none"
      /\ received_lines' = Collected(ac_in_buffer)
      /\ num_bytes' = Counted(ac_in_buffer)
      /\ rest' = (Last(ac_in_buffer).verb = "PART")
      /\ ac_in_buffer' = <<>>
      /\ UNCHANGED <<smtp_state, mailfrom, rcpttos, in_background, jobs, waking, answering,
                     handler, ahead, connected, closing, tls, net, eof, replies, awaiting,
                     cphase, cfrom, cto, cbody>>
      /\ Plain(received_lines)
  BY PendingNone DEF Collect, Turn, LoopIdle, SInv, Tidy
<1>1. /\ Free
      /\ Resting \/ MarkUnderWay \/ OutOfStep \/ (Gone /\ (GoneComplete \/ GoneBroken))
  BY <1>0
  DEF SInv, Point, Resting, Silent, CommandUnderWay, Agrees, MarkUnderWay, Handed,
      Concluding, Answering, Unanswered, Handshaking, OutOfStep, Leaving, Gone, AtWork,
      AtPush, GoneComplete, GoneBroken
<1>2. Plain(ac_in_buffer)
  <2>1. ASSUME NEW i \in 1 .. Len(ac_in_buffer), ac_in_buffer[i].verb = "DOT"
        PROVE  FALSE
    <3>1. i \in DOMAIN ac_in_buffer
      BY PendingType, LenProperties
    <3>2. EndsData(i)
      BY <1>0, <2>1, <3>1, MarkInBuffer
    <3>3. QED
      BY <3>1, <3>2 DEF Collect
  <2>2. Plain(Pending) \/ Marked(Pending)
    BY <1>0, <1>1
    DEF Resting, Agrees, TextPending, MarkUnderWay, MessagePending, OutOfStep, GoneComplete,
        GoneBroken
  <2>3. CASE Plain(Pending)
    BY <2>3, PendingPlain
  <2>4. CASE Marked(Pending)
    <3>1. ~Marked(ac_in_buffer)
      <4>1. Len(ac_in_buffer) \in 1 .. Len(ac_in_buffer)
        BY <1>0, PendingType, EmptySeq, LenProperties
      <4>2. QED
        BY <2>1, <4>1 DEF Marked, Bare
    <3>2. QED
      BY <1>0, <2>4, <3>1, PendingMarked
  <2>5. QED
    BY <2>2, <2>3, <2>4
<1>3. ~OverLimit => Pending' = Pending
  <2>1. received_lines \o (ac_in_buffer \o net) = (received_lines \o ac_in_buffer) \o net
    BY PendingType, JoinThree
  <2>2. <<>> \o net = net
    BY PendingType, ConcatEmptySeq
  <2>3. QED
    BY <1>0, <2>1, <2>2 DEF Pending, Collected
<1>4. OverLimit => /\ received_lines' = received_lines
                   /\ num_bytes' = num_bytes
                   /\ Pending' = received_lines \o net
  <2>1. <<>> \o net = net
    BY PendingType, ConcatEmptySeq
  <2>2. QED
    BY <1>0, <2>1 DEF Pending, Collected, Counted
<1>5. Plain(Pending) => Plain(Pending)'
  <2>1. CASE OverLimit
    <3>1. Plain(Pending) => Plain(received_lines \o net)
      BY PendingType, PendingPlain, PlainJoin
    <3>2. QED
      BY <1>4, <2>1, <3>1 DEF Plain
  <2>2. QED
    BY <1>3, <2>1 DEF Plain
<1>6. Marked(Pending) => Marked(Pending)' /\ net # <<>>
  <2>1. ASSUME Marked(Pending)
        PROVE  net # <<>>
    BY <1>0, <1>2, <2>1, PendingMarked, PendingPlain, EmptySeq DEF Plain
  <2>2. ASSUME Marked(Pending), OverLimit
        PROVE  Marked(Pending)'
    <3>1. Marked(ac_in_buffer \o net)
      <4>1. ac_in_buffer \o net # <<>>
        BY <1>0, PendingType, JoinEmpty
      <4>2. QED
        BY <2>2, <4>1, PendingType, MarkedJoin DEF Pending
    <3>2. Marked(net)
      BY <2>1, <2>2, <3>1, PendingType, MarkedJoin
    <3>3. Marked(received_lines \o net)
      BY <1>0, <2>1, <2>2, <3>2, PendingType, MarkedJoin
    <3>4. QED
      BY <1>4, <2>2, <3>3 DEF Marked
  <2>3. QED
    BY <1>3, <2>1, <2>2 DEF Marked
<1>7. num_bytes' <= Len(received_lines')
  <2>1. /\ num_bytes \in Nat /\ num_bytes <= Len(received_lines)
        /\ Len(received_lines) \in Nat /\ Len(ac_in_buffer) \in Nat
        /\ Len(received_lines \o ac_in_buffer) = Len(received_lines) + Len(ac_in_buffer)
    BY <1>1, PendingType, JoinElements DEF SInv, Tidy, Free, STypeOK, TypeOK
  <2>2. QED
    BY <1>0, <2>1 DEF Collected, Counted
<1>8. ASSUME OverLimit, Pending = cbody \/ (Pending = cbody \o <<Bare("DOT")>> /\ net # <<>>)
      PROVE  ~Fits
  <2>1. /\ num_bytes \in Nat /\ num_bytes <= Len(received_lines)
        /\ Len(received_lines) \in Nat
        /\ DataLimit # 0 /\ num_bytes > DataLimit
        /\ Len(cbody) \in Nat
    BY <1>1, <1>8, PendingType, LenProperties
    DEF SInv, Tidy, Free, STypeOK, TypeOK, OverLimit
  <2>2. /\ Len(Pending) = Len(received_lines) + Len(ac_in_buffer) + Len(net)
        /\ Len(ac_in_buffer) \in Nat /\ Len(net) \in Nat
        /\ net # <<>> => Len(net) >= 1
    BY PendingType, JoinElements, EmptySeq DEF Pending
  <2>3. Len(received_lines) <= Len(cbody)
    <3>1. CASE Pending = cbody
      BY <2>1, <2>2, <3>1
    <3>2. CASE Pending = cbody \o <<Bare("DOT")>> /\ net # <<>>
      <4>1. Len(<<Bare("DOT")>>) = 1 /\ <<Bare("DOT")>> \in Seq(Line)
        BY BareType DEF Verb
      <4>2. Len(Pending) = Len(cbody) + 1
        BY <3>2, <4>1, PendingType, JoinElements
      <4>3. QED
        BY <2>1, <2>2, <3>2, <4>2
    <3>3. QED
      BY <1>8, <3>1, <3>2
  <2>4. num_bytes <= Len(cbody)
    BY <2>1, <2>3
  <2>5. QED
    BY <2>1, <2>4, WithinLimit
<1>9. (TextPending => TextPending') /\ (MessagePending => MessagePending')
  <2>1. ASSUME TextPending
        PROVE  TextPending'
    <3>1. CASE OverLimit
      BY <1>0, <1>4, <1>5, <1>8, <2>1, <3>1 DEF TextPending, Dropped, OverLimit, Fits
    <3>2. CASE ~OverLimit
      BY <1>0, <1>3, <1>5, <2>1, <3>2 DEF TextPending, Dropped
    <3>3. QED
      BY <3>1, <3>2
  <2>2. ASSUME MessagePending
        PROVE  MessagePending'
    <3>1. CASE OverLimit
      BY <1>0, <1>4, <1>6, <1>8, <2>2, <3>1 DEF MessagePending, Dropped, OverLimit, Fits
    <3>2. CASE ~OverLimit
      BY <1>0, <1>3, <1>6, <2>2, <3>2 DEF MessagePending, Dropped
    <3>3. QED
      BY <3>1, <3>2
  <2>3. QED
    BY <2>1, <2>2
<1>10. Tidy'
  <2>1. Plain(received_lines)'
    <3>1. Plain(received_lines \o ac_in_buffer)
      BY <1>0, <1>2, PendingType, PlainJoin
    <3>2. QED
      BY <1>0, <3>1 DEF Plain, Collected
  <2>2. ~rest'
    <3>1. Len(ac_in_buffer) \in 1 .. Len(ac_in_buffer)
      BY <1>0, PendingType, EmptySeq, LenProperties
    <3>2. QED
      BY <1>0, <1>2, <3>1 DEF Plain, Last
  <2>3. Found'
    BY <1>0 DEF Found
  <2>4. QED
    BY <1>0, <1>1, <1>7, <2>1, <2>2, <2>3 DEF SInv, Tidy, Plain, Free
<1>11. CASE Resting
  BY <1>0, <1>9, <1>10, <1>11
  DEF Resting, Silent, Free, Open, Agrees, SameEnvelope, SInv, Point
<1>12. CASE MarkUnderWay
  BY <1>0, <1>9, <1>10, <1>12
  DEF MarkUnderWay, Silent, Free, Open, Agrees, SameEnvelope, SInv, Point
<1>13. CASE OutOfStep
  BY <1>0, <1>5, <1>10, <1>13 DEF OutOfStep, Free, Open, Fits, SInv, Point
<1>14. CASE Gone /\ GoneComplete
  BY <1>0, <1>9, <1>10, <1>14
  DEF Gone, GoneComplete, Silent, Free, Open, SameEnvelope, SInv, Point
<1>15. CASE Gone /\ GoneBroken
  BY <1>0, <1>5, <1>10, <1>15 DEF Gone, GoneBroken, Free, SInv, Point
<1>16. QED
  BY <1>1, <1>11, <1>12, <1>13, <1>14, <1>15

(* The search for the mark finds the whole message and leaves the mark,    *)
(* with nothing behind it; the text is collected, or dropped.              *)
LEMMA MarkStep ==
    ASSUME STypeOK, SInv, Mark, UNCHANGED client
    PROVE  SInv'
<1> USE DEF work, link, wire, client, ledger
<1>1. PICK i \in DOMAIN ac_in_buffer :
        LET lines == SubSeq(ac_in_buffer, 1, i - 1)
        IN  /\ EndsData(i)
            /\ received_lines' = IF lines = <<>> THEN received_lines ELSE Collected(lines)
            /\ num_bytes' = Counted(lines)
            /\ ac_in_buffer' = SubSeq(ac_in_buffer, i, Len(ac_in_buffer))
  BY DEF Mark
<1> DEFINE text == SubSeq(ac_in_buffer, 1, i - 1)
           dot == <<Bare("DOT")>>
<1>2. /\ smtp_state = "DATA" /\ handler' = "mark" /\ rest' = FALSE
      /\ ahead' = (ahead \/ jobs # <<>> \/ waking > 0)
      /\ UNCHANGED <<smtp_state, mailfrom, rcpttos, in_background, jobs, waking, answering,
                     connected, closing, tls, net, eof, replies, awaiting, cphase, cfrom,
                     cto, cbody>>
  BY DEF Mark
<1>3. /\ MarkUnderWay \/ (Gone /\ GoneComplete)
      /\ net = <<>> /\ i = Len(ac_in_buffer) /\ ac_in_buffer[i] = Bare("DOT")
  BY <1>1, <1>2, MarkInBuffer DEF EndsData
<1>4. i \in Nat \ {0}
  BY <1>3, PendingType, LenProperties
<1>5. text \in Seq(Line) /\ Len(text) = i - 1 /\ i - 1 \in Nat
  <2>1. i - 1 \in Int /\ i - 1 <= Len(ac_in_buffer) /\ 1 \in Nat \ {0}
    BY <1>3, <1>4
  <2>2. QED
    BY <1>4, <2>1, PendingType, SubSeqType
<1>6. dot \in Seq(Line) /\ dot # <<>> /\ Marked(dot)
  <2>1. dot \in Seq(Line) /\ Len(dot) = 1 /\ dot # <<>> /\ dot[1] = Bare("DOT")
    BY DotType
  <2>2. QED
    BY <2>1 DEF Marked
<1>7. ac_in_buffer = text \o dot /\ ac_in_buffer' = dot
  <2>1. 1 \in 1 .. Len(ac_in_buffer) /\ i \in 1 .. Len(ac_in_buffer)
    BY <1>3, <1>4
  <2>2. SubSeq(ac_in_buffer, 1, i) = SubSeq(ac_in_buffer, 1, i - 1) \o <<ac_in_buffer[i]>>
    BY <2>1, PendingType, SubSeqRecursiveSecond
  <2>3. SubSeq(ac_in_buffer, 1, i) = ac_in_buffer
    BY <1>3, PendingType, SubSeqFull
  <2>4. ac_in_buffer' = <<ac_in_buffer[i]>>
    <3>1. /\ SubSeq(ac_in_buffer, i, i) \in Seq(Line)
          /\ Len(SubSeq(ac_in_buffer, i, i)) = 1
          /\ SubSeq(ac_in_buffer, i, i)[1] = ac_in_buffer[i]
      <4>1. i \in Int /\ i <= Len(ac_in_buffer)
        BY <1>3, <1>4
      <4>2. /\ SubSeq(ac_in_buffer, i, i) \in Seq(Line)
            /\ Len(SubSeq(ac_in_buffer, i, i)) = IF i <= i THEN i - i + 1 ELSE 0
            /\ \A j \in 1 .. i - i + 1 : SubSeq(ac_in_buffer, i, i)[j] = ac_in_buffer[i + j - 1]
        BY <1>4, <4>1, PendingType, SubSeqType
      <4>3. i - i + 1 = 1 /\ i <= i /\ i + 1 - 1 = i /\ 1 \in 1 .. 1
        BY <1>4
      <4>4. QED
        BY <4>2, <4>3
    <3>2. SubSeq(ac_in_buffer, i, i) = <<ac_in_buffer[i]>>
      <4>1. /\ <<Bare("DOT")>> \in Seq(Line) /\ Len(<<Bare("DOT")>>) = 1
            /\ <<Bare("DOT")>>[1] = Bare("DOT")
        BY DotType
      <4>2. SubSeq(ac_in_buffer, i, i)[1] = Bare("DOT")
        BY <1>3, <3>1
      <4>3. SubSeq(ac_in_buffer, i, i) = <<Bare("DOT")>>
        <5>1. \A j \in 1 .. 1 : SubSeq(ac_in_buffer, i, i)[j] = <<Bare("DOT")>>[j]
          <6>1. \A j \in 1 .. 1 : j = 1
            OBVIOUS
          <6>2. QED
            BY <4>1, <4>2, <6>1, Zenon
        <5>2. QED
          BY <3>1, <4>1, <5>1, SeqEqual
      <4>4. QED
        BY <1>3, <4>3
    <3>3. QED
      BY <1>1, <1>3, <3>2
  <2>5. QED
    BY <1>3, <2>2, <2>3, <2>4
<1>8. /\ received_lines' = IF text = <<>> THEN received_lines ELSE Collected(text)
      /\ num_bytes' = Counted(text)
  BY <1>1
<1> HIDE DEF text, dot
<1>9. /\ Pending = (received_lines \o text) \o dot
      /\ Pending' = received_lines' \o dot
      /\ received_lines \o text \in Seq(Line)
      /\ Len(received_lines \o text) = Len(received_lines) + Len(text)
      /\ Len(received_lines) \in Nat /\ Len(text) \in Nat
  <2>1. Pending = received_lines \o ac_in_buffer
    BY <1>3, PendingType, ConcatEmptySeq DEF Pending
  <2>2. received_lines \o (text \o dot) = (received_lines \o text) \o dot
    <3>1. received_lines \in Seq(Line)
      BY PendingType
    <3>2. QED
      BY <1>5, <1>6, <3>1, JoinThree, Zenon
  <2>3. dot \o <<>> = dot
    BY <1>6, ConcatEmptySeq
  <2>4. Pending' = received_lines' \o dot
    BY <1>2, <1>3, <1>7, <2>3 DEF Pending
  <2>5. QED
    BY <1>5, <1>7, <2>1, <2>2, <2>4, PendingType, JoinElements
<1>10. /\ Free /\ MessagePending /\ num_bytes \in Nat /\ num_bytes <= Len(received_lines)
       /\ Plain(received_lines)
  BY <1>3 DEF MarkUnderWay, GoneComplete, Silent, Free, SInv, Tidy, STypeOK, TypeOK
<1>11. IF OverLimit THEN received_lines' = received_lines /\ num_bytes' = num_bytes
       ELSE /\ received_lines' = received_lines \o text
            /\ num_bytes' = num_bytes \/ num_bytes' = num_bytes + Len(text)
  <2>1. text = <<>> => received_lines \o text = received_lines
    BY <1>5, PendingType, JoinEmpty
  <2>2. QED
    BY <1>8, <2>1 DEF Collected, Counted
<1>12. Plain(received_lines')
  <2>1. Plain(received_lines \o text)
    BY <1>6, <1>9, <1>10, MarkedJoin DEF MessagePending
  <2>2. QED
    BY <1>10, <1>11, <2>1
<1>13. received_lines' \in Seq(Line)
  BY <1>9, <1>11, PendingType
<1>14. MessagePending'
  <2>1. Marked(Pending')
    BY <1>6, <1>9, <1>12, <1>13, MarkedJoin
  <2>2. CASE OverLimit
    <3>1. ~Fits
      <4>1. CASE Dropped
        BY <4>1 DEF Dropped
      <4>2. CASE Pending = cbody \o dot
        <5>1. received_lines \o text = cbody
          BY <1>9, <4>2, PendingType, DotType, JoinCancel DEF dot
        <5>2. num_bytes <= Len(cbody) /\ DataLimit # 0 /\ num_bytes > DataLimit
          BY <1>9, <1>10, <2>2, <5>1 DEF OverLimit
        <5>3. QED
          BY <1>10, <5>2, WithinLimit
      <4>3. QED
        BY <1>10, <4>1, <4>2 DEF MessagePending, dot
    <3>2. Dropped'
      BY <1>11, <2>2, <3>1 DEF Dropped, OverLimit, Fits
    <3>3. QED
      BY <2>1, <3>2 DEF MessagePending, Marked
  <2>3. CASE ~OverLimit
    <3>1. Pending' = Pending /\ Pending = cbody \o <<Bare("DOT")>>
      BY <1>9, <1>10, <1>11, <2>3 DEF MessagePending, Dropped
    <3>2. QED
      BY <1>2, <2>1, <3>1 DEF MessagePending, Marked
  <2>4. QED
    BY <2>2, <2>3
<1>15. Tidy'
  <2>1. Found'
    BY <1>2, <1>3, <1>7 DEF Found, dot
  <2>2. num_bytes' <= Len(received_lines')
    BY <1>9, <1>10, <1>11
  <2>3. ~ahead'
    <3>1. ~ahead /\ jobs = <<>> /\ ~(waking > 0)
      BY <1>10 DEF SInv, Tidy, Free
    <3>2. QED
      BY <1>2, <3>1, Zenon
  <2>4. Plain(received_lines)'
    BY <1>12 DEF Plain
  <2>5. QED
    BY <1>2, <1>10, <2>1, <2>2, <2>3, <2>4 DEF SInv, Tidy, Plain, Free
<1>16. CASE MarkUnderWay
  BY <1>2, <1>14, <1>15, <1>16
  DEF MarkUnderWay, Silent, Free, Open, Agrees, SameEnvelope, SInv, Point
<1>17. CASE Gone /\ GoneComplete
  BY <1>2, <1>14, <1>15, <1>17
  DEF Gone, GoneComplete, Silent, Free, Open, SameEnvelope, SInv, Point
<1>18. QED
  BY <1>3, <1>16, <1>17

(* Behind the mark is nothing, before it is the text.                      *)
LEMMA AtMark ==
    ASSUME STypeOK, SInv, handler \in {"text", "message", "job"}
    PROVE  /\ MarkUnderWay \/ (Gone /\ GoneComplete)
           /\ net = <<>> /\ Tail(ac_in_buffer) = <<>>
           /\ Free /\ MessagePending /\ smtp_state = "DATA"
           /\ Pending = received_lines \o <<Bare("DOT")>>
           /\ Dropped \/ received_lines = cbody
<1>1. ac_in_buffer = <<Bare("DOT")>> /\ net = <<>> /\ smtp_state = "DATA"
  BY DEF SInv, Tidy, Found
<1>2. 1 \in DOMAIN ac_in_buffer /\ ac_in_buffer[1].verb = "DOT"
  BY <1>1, DotType
<1>3. MarkUnderWay \/ (Gone /\ GoneComplete)
  BY <1>1, <1>2, MarkInBuffer
<1>4. Pending = received_lines \o <<Bare("DOT")>>
  BY <1>1, PendingType, ConcatEmptySeq DEF Pending
<1>5. Free /\ MessagePending
  BY <1>3 DEF MarkUnderWay, GoneComplete, Silent
<1>6. Dropped \/ received_lines = cbody
  BY <1>4, <1>5, PendingType, DotType, JoinCancel DEF MessagePending
<1>7. Tail(ac_in_buffer) = <<>>
  BY <1>1
<1>8. QED
  BY <1>1, <1>3, <1>4, <1>5, <1>6, <1>7

(* 552: the client is told that the message is over, the channel goes on   *)
(* with it.  Only a message that does not fit meets it.                    *)
LEMMA TooLargeStep ==
    ASSUME STypeOK, SInv, ~overlapped, DataTooLarge, UNCHANGED client
    PROVE  SInv'
<1> USE DEF work, history, client, ledger
<1>1. /\ handler = "message" /\ handler' = "none"
      /\ ac_in_buffer' = Tail(ac_in_buffer) /\ received_lines' = <<>>
      /\ TooLarge
      /\ num_bytes' = 0
      /\ Push("5xx")
      /\ UNCHANGED <<smtp_state, mailfrom, rcpttos, rest, ahead, work, closing, tls, net, eof>>
  BY DEF DataTooLarge, Conclude, Resume
<1>2. /\ MarkUnderWay \/ (Gone /\ GoneComplete)
      /\ net = <<>> /\ ac_in_buffer' = <<>>
      /\ Free /\ MessagePending /\ smtp_state = "DATA"
      /\ Dropped \/ received_lines = cbody
  BY <1>1, AtMark
<1>3. Pending' = <<>>
  <2>1. <<>> \o (<<>> \o <<>>) = <<>>
    BY ConcatEmptySeq, EmptySeq
  <2>2. QED
    BY <1>1, <1>2, <2>1 DEF Pending
<1>4. replies = <<>> /\ Open
  BY <1>2 DEF MarkUnderWay, GoneComplete, Silent
<1>5. replies' = <<>> \/ replies' = <<"5xx">>
  BY <1>1, <1>4 DEF Push
<1>6. Tidy'
  <2>1. Len(<<>>) = 0
    OBVIOUS
  <2>2. Plain(received_lines)'
    BY <1>1, <2>1 DEF Plain
  <2>3. Found'
    BY <1>1 DEF Found
  <2>4. QED
    BY <1>1, <1>2, <2>1, <2>2, <2>3 DEF SInv, Tidy, Plain, Free
<1>7. CASE MarkUnderWay
  <2>1. ~Fits
    <3>1. CASE Dropped
      BY <3>1 DEF Dropped
    <3>2. CASE received_lines = cbody
      <4>1. /\ num_bytes \in Nat /\ num_bytes <= Len(cbody)
            /\ DataLimit # 0 /\ num_bytes > DataLimit
        BY <1>1, <1>2, <3>2 DEF SInv, Tidy, Free, STypeOK, TypeOK, TooLarge
      <4>2. QED
        BY <4>1, WithinLimit
    <3>3. QED
      BY <1>2, <3>1, <3>2
  <2>2. ~eof
    BY <1>7 DEF MarkUnderWay, SInv, Tidy
  <2>3. connected' = connected /\ replies' = <<"5xx">>
    <3>1. Append(<<>>, "5xx") = <<"5xx">>
      OBVIOUS
    <3>2. connected' = connected /\ replies' = Append(replies, "5xx")
      BY <1>1, <1>4, <2>2 DEF Push, Open
    <3>3. QED
      BY <1>4, <3>1, <3>2
  <2>4. OutOfStep'
    BY <1>1, <1>2, <1>3, <1>4, <1>7, <2>1, <2>3 DEF OutOfStep, MarkUnderWay, Free, Open, Fits
  <2>5. QED
    BY <1>6, <2>4 DEF SInv, Point
<1>8. CASE Gone
  <2>1. Len(<<>>) = 0 /\ "5xx" \in Reply
    BY DEF Reply
  <2>2. Plain(Pending)'
    BY <1>3, <2>1 DEF Plain
  <2>3. GoneBroken'
    BY <1>1, <1>2, <1>5, <2>1, <2>2 DEF GoneBroken, Free
  <2>4. QED
    BY <1>1, <1>6, <1>8, <2>3 DEF SInv, Point, Gone
<1>9. QED
  BY <1>2, <1>7, <1>8

(* The message that sleep is given is the client's.                        *)
LEMMA SleepStep ==
    ASSUME STypeOK, Safe, SInv, Sleep, UNCHANGED client
    PROVE  SInv'
<1> USE DEF callbacks, history, link, wire, client, ledger
<1>1. /\ handler = "job" /\ handler' = "none"
      /\ ac_in_buffer' = Tail(ac_in_buffer) /\ received_lines' = <<>>
      /\ in_background' = TRUE
      /\ jobs' = Append(jobs, args)
      /\ UNCHANGED <<smtp_state, mailfrom, rcpttos, rest, ahead, waking, answering, connected,
                     closing, tls, net, eof, replies, awaiting, cphase, cfrom, cto, cbody>>
  BY DEF Sleep, Conclude, Resume, transaction
<1>2. /\ MarkUnderWay \/ (Gone /\ GoneComplete)
      /\ net = <<>> /\ ac_in_buffer' = <<>>
      /\ Free /\ smtp_state = "DATA"
      /\ Dropped \/ received_lines = cbody
  BY <1>1, AtMark
<1>3. Pending' = <<>>
  <2>1. <<>> \o (<<>> \o <<>>) = <<>>
    BY ConcatEmptySeq, EmptySeq
  <2>2. QED
    BY <1>1, <1>2, <2>1 DEF Pending
<1>4. replies = <<>> /\ Open /\ SameEnvelope
  BY <1>2 DEF MarkUnderWay, GoneComplete, Silent, Agrees
<1>5. args = LedgerJob
  <2>1. ~OverLimit
    BY <1>1 DEF Safe, TextKept
  <2>2. QED
    BY <1>1, <1>2, <1>4, <2>1 DEF SInv, Tidy, Found, LedgerJob, SameEnvelope, Dropped
<1>6. jobs' = <<LedgerJob>> /\ LedgerJob' = LedgerJob
  <2>1. jobs' = Append(<<>>, LedgerJob)
    BY <1>1, <1>2, <1>5 DEF Free
  <2>2. QED
    BY <1>1, <2>1 DEF LedgerJob
<1>7. AtWork'
  BY <1>1, <1>2, <1>3, <1>4, <1>6 DEF AtWork, SameEnvelope, Free
<1>8. Tidy'
  <2>1. Len(<<>>) = 0
    OBVIOUS
  <2>2. Plain(received_lines)'
    BY <1>1, <2>1 DEF Plain
  <2>3. jobs' # <<>>
    BY <1>6
  <2>4. Found'
    BY <1>1 DEF Found
  <2>5. QED
    BY <1>1, <1>2, <2>2, <2>3, <2>4 DEF SInv, Tidy, Plain
<1>9. CASE MarkUnderWay
  BY <1>1, <1>4, <1>7, <1>8, <1>9 DEF MarkUnderWay, Handed, Open, SInv, Point
<1>10. CASE Gone
  BY <1>1, <1>7, <1>8, <1>10 DEF Gone, SInv, Point
<1>11. QED
  BY <1>2, <1>9, <1>10

(* Taking the only future off the queue empties it.                        *)
LEMMA RemoveOnly ==
    ASSUME NEW job, NEW k \in DOMAIN <<job>>
    PROVE  RemoveAt(<<job>>, k) = <<>>
<1>1. k = 1 /\ Len(<<job>>) = 1
  OBVIOUS
<1>2. SubSeq(<<job>>, 1, 0) = <<>> /\ SubSeq(<<job>>, 2, 1) = <<>>
  BY SubSeqEmpty
<1>3. RemoveAt(<<job>>, 1) = <<>> \o <<>>
  BY <1>1, <1>2 DEF RemoveAt
<1>4. QED
  BY <1>1, <1>3, ConcatEmptySeq, EmptySeq

(* A future completes, or its callback goes on: it is the one of the       *)
(* client's message.                                                       *)
LEMMA AtWorkPoint ==
    ASSUME STypeOK, SInv
    PROVE  /\ jobs # <<>> \/ waking # 0 => Handed \/ (Gone /\ AtWork)
           /\ answering # 0 => Concluding \/ (Gone /\ AtPush)
  BY DEF SInv, Point, Resting, Silent, Free, CommandUnderWay, MarkUnderWay, Handed,
         Concluding, Answering, Unanswered, Handshaking, OutOfStep, Leaving, Gone, AtWork,
         AtPush, GoneComplete, GoneBroken

(* wake_data clears the flag: the transaction is still the message's.      *)
LEMMA WakeStep ==
    ASSUME STypeOK, SInv, Wake, UNCHANGED client
    PROVE  SInv'
<1> USE DEF transaction, input, within, history, link, wire, client, ledger
<1>1. PICK k \in DOMAIN jobs : jobs' = RemoveAt(jobs, k)
  BY DEF Wake
<1>2. /\ in_background' = FALSE /\ waking' = waking + 1
      /\ UNCHANGED <<smtp_state, mailfrom, rcpttos, num_bytes, ac_in_buffer, received_lines,
                     rest, handler, args, ahead, answering, connected, closing, tls, net, eof,
                     replies, awaiting, cphase, cfrom, cto, cbody>>
  BY DEF Wake
<1>3. /\ Handed \/ (Gone /\ AtWork)
      /\ jobs # <<>>
  BY <1>1, AtWorkPoint
<1>4. jobs = <<LedgerJob>> /\ waking = 0 /\ AtWork
  BY <1>3 DEF Handed, AtWork
<1>5. jobs' = <<>> /\ waking' = 1
  BY <1>1, <1>2, <1>4, RemoveOnly
<1>6. Pending' = Pending /\ AtWork'
  BY <1>2, <1>4, <1>5 DEF Pending, AtWork, SameEnvelope
<1>7. Tidy'
  <2>1. Found'
    BY <1>2 DEF SInv, Tidy, Found, RcptAccepted, DataAccepted, Wake, greeting
  <2>2. smtp_state = "DATA" /\ handler = "none"
    BY <1>3 DEF SInv, Tidy
  <2>3. QED
    BY <1>2, <1>5, <2>1, <2>2 DEF SInv, Tidy, Plain
<1>8. QED
  BY <1>2, <1>3, <1>6, <1>7 DEF Handed, Gone, Open, SInv, Point

(* It resets the transaction of the message that is over.                  *)
LEMMA WakeResetStep ==
    ASSUME STypeOK, SInv, WakeReset, UNCHANGED client
    PROVE  SInv'
<1> USE DEF input, within, history, link, wire, client, ledger
<1>1. /\ waking > 0 /\ waking' = waking - 1 /\ answering' = answering + 1
      /\ smtp_state' = "COMMAND" /\ mailfrom' = None /\ rcpttos' = <<>> /\ num_bytes' = 0
      /\ UNCHANGED <<ac_in_buffer, received_lines, rest, handler, args, ahead, in_background,
                     jobs, connected, closing, tls, net, eof, replies, awaiting, cphase,
                     cfrom, cto, cbody>>
  BY DEF WakeReset, SetPostDataState
<1>2. Handed \/ (Gone /\ AtWork)
  <2>1. waking # 0
    BY <1>1
  <2>2. QED
    BY <2>1, AtWorkPoint
<1>3. /\ jobs = <<>> /\ waking = 1 /\ answering = 0 /\ replies = <<>> /\ Pending = <<>>
      /\ handler = "none"
  BY <1>1, <1>2 DEF Handed, AtWork, SInv, Tidy
<1>4. Pending' = Pending /\ received_lines' = <<>>
  BY <1>1, <1>3, PendingNone DEF Pending
<1>5. AtPush'
  BY <1>1, <1>3, <1>4 DEF AtPush, Cleared
<1>6. Tidy'
  <2>1. Len(<<>>) = 0 /\ waking' = 0
    BY <1>1, <1>3
  <2>2. Plain(received_lines)'
    BY <1>4, <2>1 DEF Plain
  <2>3. Found'
    BY <1>1, <1>3 DEF Found
  <2>4. QED
    BY <1>1, <1>3, <1>4, <2>1, <2>2, <2>3 DEF SInv, Tidy, Plain
<1>7. QED
  BY <1>1, <1>2, <1>5, <1>6 DEF Handed, Concluding, Gone, Open, SInv, Point

(* The answer goes to the client whose message it was, or to nobody.       *)
LEMMA WakePushStep ==
    ASSUME STypeOK, SInv, ~overlapped, ~overlapped', WakePush, UNCHANGED client
    PROVE  SInv'
<1> USE DEF transaction, greeting, input, within, client, ledger
<1>1. PICK outcome \in Outcomes :
        \/ outcome # "nonascii" /\ \E reply \in {"250", "5xx"} : Push(reply)
        \/ outcome = "nonascii" /\ UNCHANGED <<connected, replies>>
  BY DEF WakePush, PushStatus
<1>2. /\ answering > 0 /\ answering' = answering - 1
      /\ UNCHANGED <<smtp_state, mailfrom, rcpttos, num_bytes, seen_greeting, ac_in_buffer,
                     received_lines, rest, handler, args, ahead, in_background, jobs, waking,
                     closing, tls, net, eof, awaiting, cphase, cfrom, cto, cbody>>
  BY DEF WakePush
<1>3. Concluding \/ (Gone /\ AtPush)
  <2>1. answering # 0
    BY <1>2
  <2>2. QED
    BY <2>1, AtWorkPoint
<1>4. /\ AtPush /\ replies = <<>> /\ answering = 1 /\ jobs = <<>> /\ waking = 0 /\ Cleared
      /\ Pending = <<>>
  BY <1>3 DEF Concluding, AtPush
<1>5. Pending' = <<>> /\ Free' /\ Cleared'
  BY <1>2, <1>4 DEF Pending, Free, Cleared
<1>6. Tidy'
  <2>1. Found'
    BY <1>2 DEF SInv, Tidy, Found, RcptAccepted, DataAccepted
  <2>2. QED
    BY <1>2, <2>1 DEF SInv, Tidy, Plain
<1>7. CASE Concluding
  <2>1. ~eof /\ Open
    BY <1>7 DEF Concluding, SInv, Tidy
  <2>2. CASE outcome = "nonascii"
    <3>1. UNCHANGED <<connected, replies>>
      BY <1>1, <2>2
    <3>2. QED
      BY <1>1, <1>2, <1>4, <1>5, <1>6, <1>7, <2>1, <2>2, <3>1
      DEF Concluding, Unanswered, Silent, Open, SInv, Point
  <2>3. CASE outcome # "nonascii"
    <3>1. PICK reply \in {"250", "5xx"} : Push(reply)
      BY <1>1, <2>3
    <3>2. replies' = <<reply>> /\ connected' = connected /\ reply \in Reply
      <4>1. Append(<<>>, reply) = <<reply>>
        OBVIOUS
      <4>2. replies' = Append(replies, reply) /\ connected' = connected
        BY <2>1, <3>1 DEF Push, Open
      <4>3. QED
        BY <1>4, <3>1, <4>1, <4>2 DEF Reply
    <3>3. Open'
      BY <1>2, <2>1, <3>2 DEF Open
    <3>4. Answering'
      BY <1>2, <1>5, <1>7, <3>2, <3>3, DotType DEF Concluding, Answering, Obeyed
    <3>5. QED
      BY <1>6, <3>4 DEF SInv, Point
  <2>4. QED
    BY <2>2, <2>3
<1>8. CASE Gone
  <2>1. replies' = <<>> \/ \E reply \in Reply : replies' = <<reply>>
    <3>1. CASE replies' = replies
      BY <1>4, <3>1
    <3>2. CASE replies' # replies
      <4>1. PICK reply \in {"250", "5xx"} : replies' = Append(replies, reply)
        BY <1>1, <3>2 DEF Push
      <4>2. Append(<<>>, reply) = <<reply>> /\ reply \in Reply
        BY DEF Reply
      <4>3. QED
        BY <1>4, <4>1, <4>2
    <3>3. QED
      BY <3>1, <3>2
  <2>2. GoneBroken'
    BY <1>5, <2>1 DEF GoneBroken, Cleared
  <2>3. QED
    BY <1>2, <1>6, <1>8, <2>2 DEF SInv, Point, Gone
<1>9. QED
  BY <1>3, <1>7, <1>8

(* The loop closes the channel only for a client that has sent QUIT, has   *)
(* failed its handshake or is gone.                                        *)
LEMMA CloseStep ==
    ASSUME STypeOK, SInv, UNCHANGED client, RecvEof \/ CloseWhenDone \/ HandshakeFail
    PROVE  SInv'
<1> USE DEF transaction, greeting, input, within, work, history, wire, client, ledger
<1>1. ~HeldBack
  BY DEF HeldBack, SInv, Tidy
<1>2. /\ UNCHANGED <<smtp_state, mailfrom, rcpttos, num_bytes, seen_greeting, received_lines,
                     ac_in_buffer, rest, handler, args, ahead, in_background, jobs, waking,
                     answering, closing, tls, net, eof, replies>>
      /\ connected' = FALSE
  BY <1>1 DEF RecvEof, CloseWhenDone, HandshakeFail, Fuse
<1>3. Pending' = Pending
  BY <1>2 DEF Pending
<1>4. Tidy'
  <2>1. Found'
    BY <1>2 DEF SInv, Tidy, Found, RcptAccepted, DataAccepted
  <2>2. QED
    BY <1>2, <2>1 DEF SInv, Tidy, Plain
<1>5. ~Open \/ eof
  BY <1>2 DEF RecvEof, CloseWhenDone, HandshakeFail, Open
<1>6. \/ Answering /\ (closing \/ tls = "handshake")
      \/ Handshaking \/ Leaving
      \/ Gone /\ ~GoneComplete
  <2>1. CASE RecvEof
    <3>1. ac_in_buffer = <<>> /\ net = <<>> /\ eof /\ Plain(received_lines)
      BY <2>1 DEF RecvEof, Readable, LoopIdle, SInv, Tidy
    <3>2. ~Marked(Pending)
      BY <3>1, PendingMarked
    <3>3. Gone
      BY <3>1
      DEF SInv, Point, Tidy, Resting, CommandUnderWay, MarkUnderWay, Handed, Concluding,
          Answering, Unanswered, Handshaking, OutOfStep, Leaving
    <3>4. QED
      BY <3>2, <3>3 DEF GoneComplete, MessagePending
  <2>2. CASE CloseWhenDone \/ HandshakeFail
    BY <2>2
    DEF CloseWhenDone, HandshakeFail, SInv, Point, Open, Resting, CommandUnderWay,
        MarkUnderWay, Handed, Concluding, Answering, Unanswered, OutOfStep, GoneComplete
  <2>3. QED
    BY <2>1, <2>2
<1>7. CASE Answering /\ (closing \/ tls = "handshake")
  <2>1. Answering'
    BY <1>2, <1>3, <1>7 DEF Answering, Free, Obeyed, Open, Cleared
  <2>2. QED
    BY <1>4, <2>1 DEF SInv, Point
<1>8. CASE Handshaking \/ Leaving
  BY <1>2, <1>3, <1>4, <1>8 DEF Handshaking, Leaving, Silent, Free, Cleared, SInv, Point
<1>9. CASE Gone /\ ~GoneComplete
  <2>1. LedgerJob' = LedgerJob
    BY DEF LedgerJob
  <2>2. /\ AtWork => AtWork'
        /\ AtPush => AtPush'
        /\ GoneBroken => GoneBroken'
    BY <1>2, <1>3, <2>1 DEF AtWork, AtPush, GoneBroken, Free, SameEnvelope, Cleared, Plain
  <2>3. QED
    BY <1>2, <1>4, <1>9, <2>2 DEF Gone, SInv, Point
<1>10. QED
  BY <1>6, <1>7, <1>8, <1>9

----------------------------------------------------------------------------
(* The steps of the client. *)

(* What is sent is pending behind all the rest.                            *)
LEMMA SendStep ==
    ASSUME STypeOK, NEW line \in Line, Send(line)
    PROVE  /\ Pending' = Pending \o <<line>>
           /\ <<line>> \in Seq(Line)
           /\ UNCHANGED <<smtp_state, mailfrom, rcpttos, num_bytes, received_lines, rest,
                          handler, ahead, ac_in_buffer, in_background, jobs, waking,
                          answering, connected, closing, tls, eof, replies>>
<1> USE DEF server, transaction, greeting, input, within, work, history, link
<1>1. <<line>> \in Seq(Line)
  OBVIOUS
<1>2. net' = net \o <<line>>
  BY PendingType, AppendIsConcat DEF Send
<1>3. UNCHANGED <<smtp_state, mailfrom, rcpttos, num_bytes, received_lines, rest, handler,
                  ahead, ac_in_buffer, in_background, jobs, waking, answering, connected,
                  closing, tls, eof, replies>>
  BY DEF Send
<1>4. received_lines \o (ac_in_buffer \o (net \o <<line>>))
      = (received_lines \o (ac_in_buffer \o net)) \o <<line>>
  <2> DEFINE last == <<line>>
  <2>1. last \in Seq(Line)
    BY <1>1
  <2> HIDE DEF last
  <2>2. ac_in_buffer \o (net \o last) = (ac_in_buffer \o net) \o last
    BY <2>1, PendingType, JoinThree
  <2>3. received_lines \o ((ac_in_buffer \o net) \o last)
        = (received_lines \o (ac_in_buffer \o net)) \o last
    BY <2>1, PendingType, JoinThree
  <2>4. QED
    BY <2>2, <2>3 DEF last
<1>5. QED
  BY <1>1, <1>2, <1>3, <1>4 DEF Pending

(* A client that may send is at one of two points, and no handler is at    *)
(* work.                                                                   *)
LEMMA MaySend ==
    ASSUME STypeOK, AtLine, SInv, awaiting = None, cphase \in {"command", "data"}
    PROVE  /\ handler = "none"
           /\ cphase = "command" => (Resting \/ OutOfStep) /\ Pending = <<>>
           /\ cphase = "data" => Resting /\ TextPending
<1>1. /\ Resting \/ OutOfStep
      /\ cphase = "command" => Pending = <<>>
      /\ cphase = "data" => Resting /\ TextPending
  BY DotType
  DEF SInv, Point, Resting, CommandUnderWay, MarkUnderWay, Handed, Concluding, Answering,
      Unanswered, Handshaking, OutOfStep, Leaving, Gone
<1>2. CASE cphase = "command"
  BY <1>1, <1>2, PendingNone DEF AtLine
<1>3. CASE cphase = "data"
  <2>1. Plain(ac_in_buffer) /\ smtp_state = "DATA"
    BY <1>1, <1>3, PendingPlain DEF Resting, Agrees, TextPending
  <2>2. ~Plain(<<Bare("DOT")>>)
    <3>1. 1 \in 1 .. Len(<<Bare("DOT")>>) /\ <<Bare("DOT")>>[1].verb = "DOT"
      BY DotType
    <3>2. QED
      BY <3>1 DEF Plain
  <2>3. handler = "none"
    BY <2>1, <2>2 DEF SInv, Tidy, Found, STypeOK, TypeOK, Handler
  <2>4. QED
    BY <1>1, <1>3, <2>3
<1>4. QED
  BY <1>1, <1>2, <1>3

(* A client that has its reply sends the next command.                     *)
LEMMA SendCommandStep ==
    ASSUME STypeOK, AtLine, SInv, SendCommand
    PROVE  SInv'
<1>1. PICK line \in Commands : Send(line) /\ awaiting' = line
  BY DEF SendCommand
<1>2. /\ cphase = "command" /\ awaiting = None
      /\ UNCHANGED <<cphase, cfrom, cto, cbody>>
      /\ line \in Line /\ line # None
      /\ line.verb \notin {"TEXT", "DOT", "GARBAGE", "PART"}
  BY <1>1, ClientLinesAssumption, NoLineAssumption DEF SendCommand, Commands, ledger
<1>3. /\ Pending' = Pending \o <<line>>
      /\ <<line>> \in Seq(Line)
      /\ UNCHANGED <<smtp_state, mailfrom, rcpttos, num_bytes, received_lines, rest,
                     handler, ahead, in_background, jobs, waking, answering, connected,
                     closing, tls, eof, replies>>
  BY <1>1, <1>2, SendStep
<1>4. (Resting \/ OutOfStep) /\ Pending = <<>> /\ handler = "none"
  BY <1>2, MaySend
<1>5. Pending' = <<line>>
  BY <1>3, <1>4, ConcatEmptySeq
<1>6. Tidy'
  <2>1. Found'
    BY <1>3, <1>4 DEF Found
  <2>2. QED
    BY <1>2, <1>3, <2>1 DEF SInv, Tidy, Plain
<1>7. CASE Resting
  BY <1>1, <1>2, <1>3, <1>5, <1>6, <1>7
  DEF Resting, CommandUnderWay, Silent, Free, Open, Agrees, SameEnvelope, SInv, Point
<1>8. CASE OutOfStep
  <2>1. Plain(<<line>>)
    BY <1>2 DEF Plain
  <2>2. Plain(Pending)'
    BY <1>5, <2>1 DEF Plain
  <2>3. QED
    BY <1>1, <1>2, <1>3, <1>6, <1>8, <2>2 DEF OutOfStep, Free, Open, Fits, SInv, Point
<1>9. QED
  BY <1>4, <1>7, <1>8

(* The lines of a message follow each other without a reply.               *)
LEMMA SendTextStep ==
    ASSUME STypeOK, AtLine, SInv, SendText
    PROVE  SInv'
<1>1. PICK line \in Texts : Send(line) /\ cbody' = Append(cbody, line)
  BY DEF SendText
<1>2. /\ cphase = "data" /\ awaiting = None /\ Len(cbody) < MaxBody
      /\ UNCHANGED <<awaiting, cphase, cfrom, cto>>
      /\ line \in Line /\ line.verb = "TEXT"
  BY <1>1, ClientLinesAssumption DEF SendText, Texts
<1>3. /\ Pending' = Pending \o <<line>>
      /\ <<line>> \in Seq(Line)
      /\ UNCHANGED <<smtp_state, mailfrom, rcpttos, num_bytes, received_lines, rest,
                     handler, ahead, in_background, jobs, waking, answering, connected,
                     closing, tls, eof, replies>>
  BY <1>1, <1>2, SendStep
<1>4. Resting /\ TextPending /\ handler = "none"
  BY <1>2, MaySend
<1>5. cbody' = cbody \o <<line>>
  BY <1>1, PendingType, AppendIsConcat
<1>6. Plain(<<line>>) /\ Len(<<line>>) = 1
  BY <1>2 DEF Plain
<1>7. Plain(cbody)' /\ Len(cbody') <= MaxBody
  <2>1. Plain(cbody \o <<line>>)
    BY <1>3, <1>6, PendingType, PlainJoin DEF SInv, Tidy
  <2>2. Len(cbody \o <<line>>) = Len(cbody) + 1 /\ Len(cbody) \in Nat
    BY <1>3, <1>6, PendingType, JoinElements
  <2>3. QED
    BY <1>2, <1>5, <2>1, <2>2, MaxBodyAssumption DEF Plain
<1>8. TextPending'
  <2>1. Plain(Pending \o <<line>>)
    BY <1>3, <1>4, <1>6, PendingType, PlainJoin DEF TextPending
  <2>2. Dropped \/ Pending \o <<line>> = cbody \o <<line>>
    BY <1>4 DEF TextPending
  <2>3. QED
    BY <1>3, <1>5, <2>1, <2>2 DEF TextPending, Plain, Dropped, OverLimit, Fits
<1>9. Tidy'
  <2>1. Found'
    BY <1>3, <1>4 DEF Found
  <2>2. QED
    BY <1>2, <1>3, <1>7, <2>1 DEF SInv, Tidy, Plain
<1>10. QED
  BY <1>2, <1>3, <1>4, <1>8, <1>9
  DEF Resting, Silent, Free, Open, Agrees, SameEnvelope, SInv, Point

(* The end mark is the last line of a message.                             *)
LEMMA SendDotStep ==
    ASSUME STypeOK, AtLine, SInv, SendDot
    PROVE  SInv'
<1>1. /\ cphase = "data" /\ awaiting = None /\ cbody # <<>>
      /\ awaiting' = Bare("DOT")
      /\ UNCHANGED <<cphase, cfrom, cto, cbody>>
  BY DEF SendDot, ledger
<1>2. /\ Pending' = Pending \o <<Bare("DOT")>>
      /\ UNCHANGED <<smtp_state, mailfrom, rcpttos, num_bytes, received_lines, rest,
                     handler, ahead, in_background, jobs, waking, answering, connected,
                     closing, tls, eof, replies>>
  BY DotType, SendStep DEF SendDot
<1>3. Resting /\ TextPending /\ handler = "none"
  BY <1>1, MaySend
<1>4. MessagePending'
  <2>1. Marked(Pending \o <<Bare("DOT")>>)
    BY <1>3, PendingType, MarkText DEF TextPending
  <2>2. Dropped \/ Pending \o <<Bare("DOT")>> = cbody \o <<Bare("DOT")>>
    BY <1>3 DEF TextPending
  <2>3. QED
    BY <1>1, <1>2, <2>1, <2>2 DEF MessagePending, Marked, Dropped, OverLimit, Fits
<1>5. Tidy'
  <2>1. Found'
    BY <1>2, <1>3 DEF Found
  <2>2. QED
    BY <1>1, <1>2, <2>1 DEF SInv, Tidy, Plain
<1>6. QED
  BY <1>1, <1>2, <1>3, <1>4, <1>5
  DEF Resting, MarkUnderWay, Silent, Free, Open, Agrees, SameEnvelope, SInv, Point

(* The client understands what the channel holds.                          *)
LEMMA ReadReplyStep ==
    ASSUME STypeOK, SInv, ReadReply
    PROVE  SInv'
<1> USE DEF server, transaction, greeting, input, within, work, history, link, ledger
<1>1. /\ cphase \in {"command", "data"} /\ awaiting # None /\ replies # <<>>
      /\ replies' = Tail(replies) /\ awaiting' = None
      /\ UNCHANGED <<smtp_state, mailfrom, rcpttos, num_bytes, seen_greeting,
                     received_lines, rest, handler, args, ahead, ac_in_buffer, in_background,
                     jobs, waking, answering, connected, closing, tls, net, eof>>
      /\ awaiting \in Line
  BY DEF ReadReply, STypeOK
<1>2. Answering \/ (OutOfStep /\ awaiting.verb = "DOT" /\ replies = <<"5xx">>)
  BY <1>1
  DEF SInv, Point, Resting, Silent, CommandUnderWay, MarkUnderWay, Handed, AtWork,
      Concluding, AtPush, Unanswered, Handshaking, OutOfStep, Leaving, Gone, Bare
<1>3. PICK reply \in Reply :
        /\ replies = <<reply>>
        /\ Answering => Obeyed(awaiting, reply)
  BY <1>2 DEF Answering, Reply
<1>4. replies' = <<>> /\ Head(replies) = reply
  BY <1>1, <1>3
<1>5. Pending' = Pending /\ Pending = <<>> /\ Free
  BY <1>1, <1>2 DEF Pending, Answering, OutOfStep, Bare
<1>6. \/ awaiting.verb = "DOT" /\ NoTransaction /\ cphase' = "command"
      \/ awaiting.verb # "DOT" /\ reply # "5xx" /\ Understand(awaiting)
      \/ awaiting.verb # "DOT" /\ reply = "5xx" /\ UNCHANGED <<cphase, cfrom, cto, cbody>>
  BY <1>4 DEF ReadReply
<1>7. Tidy'
  <2>1. cbody' = cbody \/ cbody' = <<>>
    BY <1>6 DEF NoTransaction, Understand
  <2>2. cphase' = "command" => cbody' = <<>>
    BY <1>1, <1>6 DEF NoTransaction, Understand, SInv, Tidy, Answering
  <2>3. Plain(cbody)' /\ Len(cbody') <= MaxBody
    <3>1. Len(<<>>) = 0
      OBVIOUS
    <3>2. QED
      BY <2>1, <3>1, MaxBodyAssumption DEF SInv, Tidy, Plain
  <2>4. ~eof
    BY <1>1 DEF SInv, Tidy
  <2>5. Found'
    BY <1>1 DEF SInv, Tidy, Found, RcptAccepted, DataAccepted
  <2>6. QED
    BY <1>1, <2>2, <2>3, <2>4, <2>5 DEF SInv, Tidy, Plain
<1>8. CASE OutOfStep /\ awaiting.verb = "DOT"
  <2>1. NoTransaction /\ cphase' = "command"
    BY <1>6, <1>8
  <2>2. OutOfStep'
    BY <1>1, <1>4, <1>5, <1>8, <2>1 DEF OutOfStep, Free, Open, Fits
  <2>3. QED
    BY <1>7, <2>2 DEF SInv, Point
<1>9. CASE Answering /\ awaiting.verb = "DOT"
  <2>1. NoTransaction /\ cphase' = "command" /\ Cleared /\ Open
    BY <1>3, <1>6, <1>9 DEF Obeyed
  <2>2. Resting'
    BY <1>1, <1>4, <1>5, <2>1
    DEF Resting, Silent, Free, Open, Agrees, SameEnvelope, Cleared, NoTransaction
  <2>3. QED
    BY <1>7, <2>2 DEF SInv, Point
<1>10. CASE Answering /\ awaiting.verb # "DOT" /\ reply = "5xx"
  <2>1. Agrees /\ Open /\ cphase = "command" /\ UNCHANGED <<cphase, cfrom, cto, cbody>>
    BY <1>3, <1>6, <1>10 DEF Obeyed, Answering
  <2>2. Resting'
    BY <1>1, <1>4, <1>5, <2>1 DEF Resting, Silent, Free, Open, Agrees, SameEnvelope
  <2>3. QED
    BY <1>7, <2>2 DEF SInv, Point
<1>11. CASE Answering /\ awaiting.verb # "DOT" /\ reply # "5xx"
  <2>1. cphase = "command" /\ Understand(awaiting) /\ Obeyed(awaiting, reply) /\ cbody = <<>>
    BY <1>3, <1>6, <1>11 DEF Answering, SInv, Tidy
  <2>2. CASE awaiting.verb \in {"HELO", "EHLO", "RSET"}
    <3>1. NoTransaction /\ cphase' = "command" /\ Cleared /\ Open
      BY <1>11, <2>1, <2>2 DEF Understand, Obeyed
    <3>2. Resting'
      BY <1>1, <1>4, <1>5, <3>1
      DEF Resting, Silent, Free, Open, Agrees, SameEnvelope, Cleared, NoTransaction
    <3>3. QED
      BY <1>7, <3>2 DEF SInv, Point
  <2>3. CASE awaiting.verb = "STARTTLS"
    <3>1. NoTransaction /\ cphase' = "handshake" /\ Cleared /\ tls = "handshake"
      BY <1>11, <2>1, <2>3 DEF Understand, Obeyed
    <3>2. Handshaking'
      BY <1>1, <1>4, <1>5, <3>1 DEF Handshaking, Silent, Free, Cleared, NoTransaction
    <3>3. QED
      BY <1>7, <3>2 DEF SInv, Point
  <2>4. CASE awaiting.verb \in {"MAIL", "RCPT", "NOOP"}
    <3>1. /\ mailfrom = cfrom' /\ rcpttos = cto' /\ smtp_state # "DATA" /\ Open
          /\ cphase' = "command"
      BY <1>11, <2>1, <2>4 DEF Understand, Obeyed, Agrees, SameEnvelope
    <3>2. Resting'
      BY <1>1, <1>4, <1>5, <3>1 DEF Resting, Silent, Free, Open, Agrees, SameEnvelope
    <3>3. QED
      BY <1>7, <3>2 DEF SInv, Point
  <2>5. CASE awaiting.verb = "DATA"
    <3>1. /\ SameEnvelope /\ smtp_state = "DATA" /\ Open
          /\ cphase' = "data" /\ UNCHANGED <<cfrom, cto, cbody>>
      BY <1>11, <2>1, <2>5 DEF Understand, Obeyed
    <3>2. Plain(<<>>)
      BY EmptySeq DEF Plain
    <3>3. TextPending'
      BY <1>5, <2>1, <3>1, <3>2 DEF TextPending, Plain
    <3>4. Resting'
      BY <1>1, <1>4, <1>5, <3>1, <3>3 DEF Resting, Silent, Free, Open, Agrees, SameEnvelope
    <3>5. QED
      BY <1>7, <3>4 DEF SInv, Point
  <2>6. CASE awaiting.verb = "QUIT"
    <3>1. /\ closing /\ tls # "handshake" /\ smtp_state = "COMMAND"
          /\ cphase' = "gone" /\ ~eof
      BY <1>1, <1>11, <2>1, <2>6 DEF Understand, Obeyed, SInv, Tidy
    <3>2. Leaving'
      BY <1>1, <1>4, <1>5, <3>1 DEF Leaving, Silent, Free
    <3>3. QED
      BY <1>7, <3>2 DEF SInv, Point
  <2>7. QED
    BY <1>11, <2>1, <2>2, <2>3, <2>4, <2>5, <2>6 DEF Obeyed
<1>12. QED
  BY <1>2, <1>8, <1>9, <1>10, <1>11

(* A client that goes away leaves a whole message, a command or the        *)
(* beginning of a message; what was not read yet may be lost.              *)
LEMMA GoneStep ==
    ASSUME STypeOK, SInv, GoAway \/ HangUp
    PROVE  SInv'
<1> USE DEF server, transaction, greeting, input, within, work, history, link, client, ledger
<1>1. /\ ~eof /\ eof' /\ cphase' = "gone"
      /\ net' = net \/ net' = <<>>
      /\ UNCHANGED <<smtp_state, mailfrom, rcpttos, num_bytes, seen_greeting,
                     received_lines, rest, handler, args, ahead, ac_in_buffer, in_background,
                     jobs, waking, answering, connected, closing, tls, replies, cfrom, cto,
                     cbody>>
  BY DEF GoAway, HangUp, ClientClose
<1>2. Tidy'
  <2>1. Found'
    BY <1>1 DEF SInv, Tidy, Found, RcptAccepted, DataAccepted
  <2>2. QED
    BY <1>1, <2>1 DEF SInv, Tidy, Plain
<1>3. CASE net' = net
  <2>1. Pending' = Pending
    BY <1>1, <1>3 DEF Pending
  <2>2. (LedgerJob' = LedgerJob) /\ (MessagePending => MessagePending')
    BY <1>1, <2>1 DEF LedgerJob, MessagePending, Marked, Dropped, OverLimit, Fits
  <2>3. Plain(<<>>)
    BY EmptySeq DEF Plain
  <2>4. CASE Handed \/ Concluding
    <3>1. (AtWork => AtWork') /\ (AtPush => AtPush')
      BY <1>1, <2>1, <2>2 DEF AtWork, AtPush, SameEnvelope, Cleared
    <3>2. QED
      BY <1>1, <1>2, <2>4, <3>1 DEF Handed, Concluding, Gone, SInv, Point
  <2>5. CASE MarkUnderWay
    BY <1>1, <1>2, <2>1, <2>2, <2>5
    DEF MarkUnderWay, Silent, Free, Open, Agrees, SameEnvelope, Gone, GoneComplete, SInv, Point
  <2>6. CASE ~Handed /\ ~Concluding /\ ~MarkUnderWay
    <3>1. /\ Free
          /\ replies = <<>> \/ \E reply \in Reply : replies = <<reply>>
          /\ \/ smtp_state = "DATA" /\ Plain(Pending)
             \/ smtp_state = "COMMAND" /\ Pending = <<>>
             \/ /\ smtp_state = "COMMAND" /\ replies = <<>>
                /\ \E line \in Line : Pending = <<line>> /\ line.verb # "PART"
      <4>1. Resting \/ CommandUnderWay \/ Answering \/ Unanswered \/ Handshaking \/ OutOfStep \/ Leaving
        BY <1>1, <2>6 DEF SInv, Point, Gone
      <4>2. smtp_state \in {"COMMAND", "DATA"} /\ awaiting \in Line \cup {None} /\ "5xx" \in Reply
        BY DEF STypeOK, TypeOK, Reply
      <4>3. CASE Resting
        BY <2>3, <4>2, <4>3 DEF Resting, Silent, TextPending, Agrees
      <4>4. CASE CommandUnderWay
        BY <4>2, <4>4 DEF CommandUnderWay, Silent, Agrees
      <4>5. CASE Answering
        <5>1. \/ smtp_state = "DATA" /\ Plain(Pending)
              \/ smtp_state = "COMMAND" /\ Pending = <<>>
          BY <2>3, <4>2, <4>5 DEF Answering
        <5>2. QED
          BY <4>5, <5>1 DEF Answering
      <4>6. CASE Unanswered \/ Handshaking \/ Leaving
        BY <4>6 DEF Unanswered, Handshaking, Leaving, Silent, Cleared
      <4>7. CASE OutOfStep
        BY <2>3, <4>2, <4>7 DEF OutOfStep
      <4>8. QED
        BY <4>1, <4>3, <4>4, <4>5, <4>6, <4>7
    <3>2. GoneBroken'
      BY <1>1, <2>1, <3>1 DEF GoneBroken, Free, Plain
    <3>3. QED
      BY <1>1, <1>2, <3>2 DEF Gone, SInv, Point
  <2>7. QED
    BY <2>4, <2>5, <2>6
<1>4. CASE net' = <<>> /\ net # <<>>
  <2>1. Pending' = received_lines \o ac_in_buffer
    BY <1>1, <1>4, PendingType, ConcatEmptySeq DEF Pending
  <2>2. Pending # <<>>
    BY <1>4, PendingNone
  <2>3. Resting \/ CommandUnderWay \/ MarkUnderWay \/ OutOfStep
    BY <1>1, <2>2
    DEF SInv, Point, Handed, AtWork, Concluding, AtPush, Answering, Unanswered, Handshaking, Leaving, Gone
  <2>4. Free /\ replies = <<>>
    BY <2>2, <2>3 DEF Resting, CommandUnderWay, MarkUnderWay, OutOfStep, Silent
  <2>5. ASSUME smtp_state = "DATA", Plain(received_lines), Plain(ac_in_buffer)
        PROVE  GoneBroken'
    <3>1. Plain(received_lines \o ac_in_buffer)
      BY <2>5, PendingType, PlainJoin
    <3>2. QED
      BY <1>1, <2>1, <2>4, <2>5, <3>1 DEF GoneBroken, Free, Plain
  <2>6. CASE Resting \/ OutOfStep
    <3>1. smtp_state = "DATA" /\ Plain(Pending)
      BY <2>2, <2>6 DEF Resting, Agrees, TextPending, OutOfStep
    <3>2. QED
      BY <1>1, <1>2, <2>5, <3>1, PendingPlain DEF Gone, SInv, Point
  <2>7. CASE MarkUnderWay
    <3>1. smtp_state = "DATA" /\ Plain(received_lines) /\ Plain(ac_in_buffer)
      BY <1>4, <2>7, PendingMarked DEF MarkUnderWay, Agrees, MessagePending, SInv, Tidy
    <3>2. QED
      BY <1>1, <1>2, <2>5, <3>1 DEF Gone, SInv, Point
  <2>8. CASE CommandUnderWay
    <3>1. smtp_state = "COMMAND" /\ received_lines = <<>>
      BY <2>8 DEF CommandUnderWay, Agrees, SInv, Tidy, STypeOK, TypeOK
    <3>2. ac_in_buffer = <<>>
      <4>1. awaiting \in Line /\ Pending = <<awaiting>>
        BY <2>8 DEF CommandUnderWay, STypeOK
      <4>2. ac_in_buffer \o net = <<awaiting>>
        BY <3>1, <4>1, PendingType, JoinEmpty DEF Pending
      <4>3. QED
        BY <1>4, <4>1, <4>2, PendingType, JoinSingle
    <3>3. GoneBroken'
      BY <1>1, <2>1, <2>4, <3>1, <3>2, PendingType, ConcatEmptySeq DEF GoneBroken, Free
    <3>4. QED
      BY <1>1, <1>2, <3>3 DEF Gone, SInv, Point
  <2>9. QED
    BY <2>3, <2>6, <2>7, <2>8
<1>5. QED
  BY <1>1, <1>3, <1>4

(* Both ends start afresh behind the handshake.                            *)
LEMMA EncryptedStep ==
    ASSUME STypeOK, SInv, Encrypted
    PROVE  SInv'
<1> USE DEF transaction, greeting, input, within, callbacks, history, wire, ledger
<1>1. /\ cphase = "handshake" /\ cphase' = "command" /\ connected' /\ ~closing' /\ tls' = "tls"
      /\ in_background' = FALSE /\ ~eof
      /\ UNCHANGED <<smtp_state, mailfrom, rcpttos, num_bytes, seen_greeting, received_lines,
                     rest, handler, args, ahead, ac_in_buffer, jobs, waking, answering, net,
                     eof, replies, awaiting, cfrom, cto, cbody>>
  BY DEF Encrypted, HandshakeDone
<1>2. Handshaking
  BY <1>1
  DEF SInv, Point, Resting, CommandUnderWay, MarkUnderWay, Handed, Concluding, Answering,
      Unanswered, Handshaking, OutOfStep, Leaving, Gone
<1>3. Pending' = Pending
  BY <1>1 DEF Pending
<1>4. Tidy'
  <2>1. Found'
    BY <1>1 DEF SInv, Tidy, Found, RcptAccepted, DataAccepted
  <2>2. jobs = <<>> /\ waking = 0 /\ cbody = <<>>
    BY <1>2 DEF Handshaking, Silent, Free
  <2>3. QED
    BY <1>1, <2>1, <2>2 DEF SInv, Tidy, Plain
<1>5. Resting'
  BY <1>1, <1>2, <1>3
  DEF Handshaking, Resting, Silent, Free, Cleared, Open, Agrees, SameEnvelope
<1>6. QED
  BY <1>4, <1>5 DEF SInv, Point

----------------------------------------------------------------------------
(* The invariant. *)

(* A session begins with nothing on its way.                               *)
LEMMA SessionInit == SInit => STypeOK /\ AtLine /\ Safe /\ SInv
<1> SUFFICES ASSUME SInit
             PROVE  STypeOK /\ AtLine /\ Safe /\ SInv
  OBVIOUS
<1>1. /\ TypeOK
      /\ Bare("NOOP") \in Line /\ Bare("NOOP").verb = "NOOP"
      /\ "220" \in Reply
  BY TypeInit, BareType DEF SInit, Verb, Bare, Reply
<1>2. Bare("NOOP") # None
  BY <1>1, NoLineAssumption
<1>3. STypeOK
  <2>1. <<>> \in Seq(Address) /\ <<>> \in Seq(Line)
    OBVIOUS
  <2>2. QED
    BY <1>1, <2>1 DEF SInit, STypeOK
<1>4. Tidy
  <2>1. Len(<<>>) = 0
    OBVIOUS
  <2>2. Plain(<<>>)
    BY <2>1 DEF Plain
  <2>3. Found
    BY DEF SInit, Init, Found
  <2>4. QED
    BY <2>1, <2>2, <2>3, MaxBodyAssumption DEF SInit, Init, Tidy
<1>5. Pending = <<>>
  BY <1>3, PendingNone DEF SInit, Init
<1>6. Answering
  BY <1>1, <1>2, <1>5
  DEF SInit, Init, Answering, Free, Obeyed, Agrees, SameEnvelope, Open
<1>7. AtLine /\ Safe
  BY SafeInit DEF SInit
<1>8. QED
  BY <1>3, <1>4, <1>6, <1>7 DEF SInv, Point

(* A step of the session is a step of the channel, or sends a line.        *)
LEMMA SessionIsChannel ==
    ASSUME [SNext]_svars
    PROVE  [Next]_vars \/ \E line \in Line : Send(line)
<1>1. ASSUME SendCommand \/ SendText \/ SendDot
      PROVE  \E line \in Line : Send(line)
  BY <1>1, ClientLinesAssumption, DotType DEF SendCommand, SendText, SendDot, Commands, Texts
<1>2. ASSUME ReadReply
      PROVE  Next
  BY <1>2 DEF ReadReply, ClientRead, Next
<1>3. QED
  BY <1>1, <1>2
  DEF SNext, ServerStep, Encrypted, WorkerStep, GoAway, HangUp, SRest, svars, Next, MainLoop

(* Every step of client, network and channel keeps the types.              *)
LEMMA SessionType == STypeOK /\ AtLine /\ Safe /\ [SNext]_svars => STypeOK'
<1> SUFFICES ASSUME STypeOK, AtLine, Safe, [SNext]_svars
             PROVE  STypeOK'
  OBVIOUS
<1> USE DEF client, ledger
<1>1. TypeOK'
  <2>1. CASE [Next]_vars
    BY <2>1, TypeStep DEF STypeOK, Safe
  <2>2. CASE \E line \in Line : Send(line)
    <3>1. PICK line \in Line : Send(line)
      BY <2>2
    <3>2. net' \in Seq(Line)
      BY <3>1, PendingType, AppendProperties DEF Send
    <3>3. QED
      BY <3>1, <3>2
      DEF Send, server, transaction, greeting, input, within, work, history, link, STypeOK,
          TypeOK
  <2>3. QED
    BY <2>1, <2>2, SessionIsChannel
<1>2. \A line \in Line : line.verb \in {"MAIL", "RCPT"} => line.arg \in Address
  BY DEF Line
<1>3. <<>> \in Seq(Address) /\ <<>> \in Seq(Line)
  OBVIOUS
<1>4. CASE SendCommand
  BY <1>1, <1>4, ClientLinesAssumption DEF SendCommand, Commands, STypeOK
<1>5. CASE SendText
  <2>1. cbody' \in Seq(Line)
    BY <1>5, ClientLinesAssumption, AppendProperties DEF SendText, Texts, STypeOK
  <2>2. QED
    BY <1>1, <1>5, <2>1 DEF SendText, STypeOK
<1>6. CASE SendDot
  BY <1>1, <1>6, DotType DEF SendDot, STypeOK
<1>7. CASE ReadReply
  <2>1. awaiting \in Line /\ awaiting' = None
    BY <1>7 DEF ReadReply, STypeOK
  <2>2. CASE NoTransaction /\ cphase' \in {"command", "handshake"}
    BY <1>1, <1>3, <2>1, <2>2 DEF NoTransaction, STypeOK
  <2>3. CASE UNCHANGED ledger /\ cphase' \in {cphase, "data", "gone"}
    BY <1>1, <2>1, <2>3 DEF STypeOK
  <2>4. CASE awaiting.verb = "MAIL" /\ cfrom' = awaiting.arg /\ UNCHANGED <<cto, cbody, cphase>>
    BY <1>1, <1>2, <2>1, <2>4 DEF STypeOK
  <2>5. CASE /\ awaiting.verb = "RCPT" /\ cto' = Append(cto, awaiting.arg)
             /\ UNCHANGED <<cfrom, cbody, cphase>>
    <3>1. cto' \in Seq(Address)
      BY <1>2, <2>1, <2>5, AppendProperties DEF STypeOK
    <3>2. QED
      BY <1>1, <2>1, <2>5, <3>1 DEF STypeOK
  <2>6. QED
    BY <1>7, <2>2, <2>3, <2>4, <2>5 DEF ReadReply, Understand
<1>8. CASE GoAway
  BY <1>1, <1>8 DEF GoAway, STypeOK
<1>9. CASE Encrypted
  BY <1>1, <1>9 DEF Encrypted, STypeOK
<1>10. CASE UNCHANGED client
  BY <1>1, <1>10 DEF STypeOK
<1>11. QED
  BY <1>4, <1>5, <1>6, <1>7, <1>8, <1>9, <1>10
  DEF SNext, ServerStep, WorkerStep, HangUp, SRest, svars

(* What holds of the channel with any client holds with this one.          *)
LEMMA SessionSafe ==
    STypeOK /\ STypeOK' /\ AtLine /\ Safe /\ [SNext]_svars => AtLine' /\ Safe'
<1> SUFFICES ASSUME STypeOK, STypeOK', AtLine, Safe, [SNext]_svars
             PROVE  AtLine' /\ Safe'
  OBVIOUS
<1>1. CASE [Next]_vars
  BY <1>1, AtLineStep, TextKeptStep, CalmStep, ClearStep, BackgroundStep DEF Safe, STypeOK
<1>2. CASE \E line \in Line : Send(line)
  <2>1. UNCHANGED server
    BY <1>2 DEF Send
  <2> USE DEF server, transaction, greeting, input, within, work, history, link
  <2>2. AtLine'
    BY <2>1 DEF AtLine
  <2>3. Calm'
    BY <2>1, CalmStutter DEF Safe
  <2>4. TextKept'
    BY <2>1 DEF Safe, TextKept, OverLimit
  <2>5. Clear'
    BY <2>1 DEF Safe, Clear, HandshakeClean
  <2>6. BackgroundHasJob'
    BY <2>1 DEF Safe, BackgroundHasJob
  <2>7. QED
    BY <2>2, <2>3, <2>4, <2>5, <2>6 DEF Safe
<1>3. QED
  BY <1>1, <1>2, SessionIsChannel

(* Only a worker that pushes a status meets the main thread, and once that *)
(* has happened it has happened.                                           *)
LEMMA OverlapStep ==
    ASSUME [SNext]_svars
    PROVE  \/ UNCHANGED overlapped
           \/ WakePush /\ overlapped' /\ UNCHANGED client
<1> USE DEF history
<1>1. CASE ServerStep \/ Encrypted
  <2>1. MainLoop
    BY <1>1 DEF ServerStep, Encrypted, MainLoop
  <2>2. QED
    BY <2>1
    DEF MainLoop, Command, Resume, Conclude, Abort, Greet, Mail, RcptRefused, RcptCheck, Rcpt,
        DataRefused, DataCheck, Data, Rset, Quit, Noop, Bad, StartTls, StartTlsBroken,
        StartTlsRefused, Garbage, Collect, Mark, NoCommand, Confused, InData, DataTooLarge,
        MakeJob, Sleep, ReadHeldBack, ReadAsCommand, CollectPart, Complete, Recv, RecvEof,
        CloseWhenDone, HandshakeDone, HandshakeFail
<1>2. CASE WorkerStep
  BY <1>2 DEF WorkerStep, WakeData, Wake, WakeReset, WakePush, PushStatus
<1>3. CASE SendCommand \/ SendText \/ SendDot \/ ReadReply \/ GoAway \/ HangUp
  BY <1>3 DEF SendCommand, SendText, SendDot, Send, ReadReply, GoAway, HangUp, ClientClose,
              server
<1>4. CASE SRest \/ UNCHANGED svars
  BY <1>4 DEF SRest, svars, vars
<1>5. QED
  BY <1>1, <1>2, <1>3, <1>4 DEF SNext

(* The two stay in step whatever the client sends next, wherever it breaks *)
(* off, however reads are cut and whatever process_message answers, until  *)
(* two threads send at the same time.                                      *)
LEMMA SessionStep ==
    STypeOK /\ AtLine /\ Safe /\ (overlapped \/ SInv) /\ [SNext]_svars => (overlapped \/ SInv)'
<1> SUFFICES ASSUME STypeOK, AtLine, Safe, SInv, ~overlapped, [SNext]_svars, ~overlapped'
             PROVE  SInv'
  BY OverlapStep
<1>1. CASE ServerStep
  <2>1. UNCHANGED client
    BY <1>1 DEF ServerStep
  <2>2. ~HandshakeDone
    BY <1>1 DEF ServerStep, HandshakeDone
  <2>3. CASE \/ Greet \/ Mail \/ RcptRefused \/ Rcpt \/ DataRefused \/ Data \/ Rset \/ Quit
             \/ Noop \/ Bad \/ StartTls \/ StartTlsRefused
    BY <2>1, <2>3, HandlerStep
  <2>4. CASE RcptCheck \/ DataCheck \/ NoCommand \/ InData \/ MakeJob
    BY <2>1, <2>4, CheckStep
  <2>5. CASE StartTlsBroken \/ Garbage
    BY <2>1, <2>5, AbortStep
  <2>6. CASE Collect \/ Mark \/ DataTooLarge \/ Sleep
    BY <2>1, <2>6, CollectStep, MarkStep, TooLargeStep, SleepStep
  <2>7. CASE Recv
    BY <2>1, <2>7, RecvStep
  <2>8. CASE RecvEof \/ CloseWhenDone \/ HandshakeFail
    BY <2>1, <2>8, CloseStep
  <2>9. QED
    BY <1>1, <2>2, <2>3, <2>4, <2>5, <2>6, <2>7, <2>8, NeverStep DEF ServerStep, MainLoop
<1>2. CASE WorkerStep
  BY <1>2, WakeStep, WakeResetStep, WakePushStep DEF WorkerStep, WakeData
<1>3. CASE Encrypted
  BY <1>3, EncryptedStep
<1>4. CASE SendCommand \/ SendText \/ SendDot \/ ReadReply
  BY <1>4, SendCommandStep, SendTextStep, SendDotStep, ReadReplyStep
<1>5. CASE GoAway \/ HangUp
  BY <1>5, GoneStep
<1>6. CASE SRest \/ UNCHANGED svars
  <2>1. UNCHANGED <<smtp_state, mailfrom, rcpttos, num_bytes, seen_greeting, received_lines,
                    rest, handler, args, ahead, ac_in_buffer, in_background, jobs, waking,
                    answering, connected, closing, tls, net, eof, replies, awaiting, cphase,
                    cfrom, cto, cbody>>
    BY <1>6
    DEF SRest, svars, vars, transaction, greeting, input, within, work, history, link, wire,
        client, ledger
  <2>2. Pending' = Pending
    BY <2>1 DEF Pending
  <2>3. Found'
    BY <2>1 DEF SInv, Tidy, Found, RcptAccepted, DataAccepted
  <2>4. (jobs = <<>> /\ waking = 0) \/ handler' = "none"
    BY <2>1 DEF SInv, Tidy
  <2>5. QED
    BY <2>1, <2>2, <2>3, <2>4, StillStep
<1>7. QED
  BY <1>1, <1>2, <1>3, <1>4, <1>5, <1>6 DEF SNext

----------------------------------------------------------------------------
(* The theorems. *)

(* The variables of client, network and channel keep their types, and what *)
(* holds of a channel with any client holds in a session.                  *)
LEMMA SessionBase == SSpec => [](STypeOK /\ AtLine /\ Safe)
  BY SessionInit, SessionType, SessionSafe, PTL DEF SSpec

(* The variables of client, network and channel keep their types, for any  *)
(* addresses, alphabet and limits (collect_incoming_data,                  *)
(* found_terminator, push).                                                *)
THEOREM SessionTypeCorrect == SSpec => []STypeOK
  BY SessionBase, PTL

(* Wherever the client is in its dialogue, what is on its way, what the    *)
(* channel holds and what its handlers have found fit its place, until two *)
(* threads send at the same time (asynchat, smtpd, channel.py).            *)
THEOREM SessionCorrect == SSpec => [](overlapped \/ SInv)
  BY SessionInit, SessionStep, SessionBase, PTL DEF SSpec

(* What reaches process_message is what the client was told had been       *)
(* accepted, recipient by recipient and line by line, whatever the size    *)
(* limit, the recipients and the length of the message, until two threads  *)
(* send at the same time (smtp_MAIL to found_terminator and sleep).        *)
THEOREM EnvelopeIntegrityHolds == SSpec => []EnvelopeIntegrity
<1>1. STypeOK /\ (overlapped \/ SInv) => EnvelopeIntegrity
  <2> SUFFICES ASSUME STypeOK, SInv, NEW k \in DOMAIN jobs
               PROVE  jobs[k] = LedgerJob
    BY DEF EnvelopeIntegrity, LedgerJob
  <2>1. jobs # <<>>
    OBVIOUS
  <2>2. jobs = <<LedgerJob>>
    BY <2>1, AtWorkPoint DEF Handed, Gone, AtWork
  <2>3. QED
    BY <2>2
<1>2. QED
  BY <1>1, SessionTypeCorrect, SessionCorrect, PTL

(* Between two lines client and channel agree on where they are, as long   *)
(* as messages fit and until two threads send at the same time (smtp_MAIL, *)
(* smtp_RCPT, smtp_DATA, wake_data).                                       *)
THEOREM InStepHolds ==
    ASSUME Fits
    PROVE  SSpec => []InStep
<1>1. STypeOK /\ (overlapped \/ SInv) => InStep
  <2> SUFFICES ASSUME STypeOK, SInv, connected, ~closing, awaiting = None, ~eof
               PROVE  /\ SameEnvelope
                      /\ smtp_state = "DATA" <=> cphase = "data"
                      /\ ~Processing
    BY DEF InStep, SameEnvelope
  <2>1. Resting \/ Handshaking
    BY DotType
    DEF SInv, Point, CommandUnderWay, MarkUnderWay, Handed, Concluding, Answering, Unanswered,
        OutOfStep, Leaving, Gone
  <2>2. jobs = <<>> /\ ~(waking > 0)
    BY <2>1 DEF Resting, Handshaking, Silent, Free
  <2>3. QED
    BY <2>1, <2>2 DEF Resting, Handshaking, Agrees, Cleared, SameEnvelope, Processing
<1>2. QED
  BY <1>1, SessionTypeCorrect, SessionCorrect, PTL

(* While nothing is under way the answer of a client that waits is on the  *)
(* wire, as long as messages fit and every status can be encoded, and      *)
(* until two threads send at the same time (push, wake_data).              *)
THEOREM NoLostReplyHolds ==
    ASSUME Fits, "nonascii" \notin Outcomes
    PROVE  SSpec => []NoLostReply
<1>1. STypeOK /\ (overlapped \/ SInv) => NoLostReply
  <2> SUFFICES ASSUME STypeOK, SInv, awaiting # None, ~eof, net = <<>>, LoopIdle,
                      ~Processing, answering = 0, replies = <<>>
               PROVE  FALSE
    BY DEF NoLostReply, Quiet
  <2>1. jobs = <<>> /\ waking = 0
    BY DEF Processing, STypeOK, TypeOK
  <2>2. CommandUnderWay \/ MarkUnderWay
    BY <2>1
    DEF SInv, Point, Resting, Handed, Concluding, Answering, Unanswered, Handshaking,
        OutOfStep, Leaving, Gone, AtWork, AtPush
  <2>3. CASE CommandUnderWay
    <3>1. Pending # <<>> /\ smtp_state # "DATA"
      BY <2>3 DEF CommandUnderWay, Agrees
    <3>2. received_lines # <<>>
      BY <3>1, PendingNone DEF LoopIdle
    <3>3. QED
      BY <3>1, <3>2 DEF SInv, Tidy
  <2>4. CASE MarkUnderWay
    BY <2>4, PendingMarked DEF MarkUnderWay, MessagePending, SInv, Tidy, LoopIdle
  <2>5. QED
    BY <2>2, <2>3, <2>4
<1>2. QED
  BY <1>1, SessionTypeCorrect, SessionCorrect, PTL

----------------------------------------------------------------------------
(* The channel implements mail transactions. *)

(* The state of the transaction, as SmtpSession maps it.                   *)
Phase ==
    IF overlapped THEN "closed"
    ELSE IF Processing THEN "processing"
    ELSE IF ~connected THEN "closed"
    ELSE IF smtp_state = "DATA" THEN "data"
    ELSE IF rcpttos # <<>> THEN "rcpt"
    ELSE IF mailfrom # None THEN "mail" ELSE "idle"

From ==
    IF overlapped THEN None
    ELSE IF jobs # <<>> THEN jobs[1].from
    ELSE IF connected \/ waking > 0 THEN mailfrom ELSE None

To ==
    IF overlapped THEN <<>>
    ELSE IF jobs # <<>> THEN jobs[1].to
    ELSE IF connected \/ waking > 0 THEN rcpttos ELSE <<>>

(* A step of the transaction, or none.                                     *)
Implements == [Transaction!Next]_(Transaction!tvars)

(* The abstract actions, in these terms.                                   *)
LEMMA AbstractStep ==
    ASSUME \/ Phase = "idle" /\ Phase' = "mail" /\ From' \in Address /\ To' = To
           \/ /\ Phase \in {"mail", "rcpt"} /\ Phase' = "rcpt"
              /\ \E a \in Address : To' = Append(To, a)
              /\ From' = From
           \/ Phase = "rcpt" /\ Phase' = "data" /\ From' = From /\ To' = To
           \/ Phase = "data" /\ Phase' = "processing" /\ From' = From /\ To' = To
           \/ Phase = "processing" /\ Phase' \in {"idle", "closed"} /\ From' = None /\ To' = <<>>
           \/ Phase \in {"mail", "rcpt"} /\ Phase' = "idle" /\ From' = None /\ To' = <<>>
           \/ /\ Phase \in {"idle", "mail", "rcpt", "data"} /\ Phase' = "closed"
              /\ From' = None /\ To' = <<>>
           \/ Phase' = Phase /\ From' = From /\ To' = To
    PROVE  Implements
  BY DEF Phase, From, To, Implements, Transaction!Next, Transaction!Begin,
         Transaction!AddRecipient, Transaction!BeginText, Transaction!HandOver,
         Transaction!Finish, Transaction!Reset, Transaction!Close, Transaction!Empty,
         Transaction!tvars

(* A channel that is closed, or that two threads use at once, breaks the   *)
(* transaction off.                                                        *)
LEMMA ClosedStep ==
    ASSUME jobs = <<>>, waking = 0,
           overlapped' \/ (jobs' = <<>> /\ waking' = 0 /\ ~connected')
    PROVE  Implements
<1>1. Phase' = "closed" /\ From' = None /\ To' = <<>>
  BY DEF Phase, From, To, Processing
<1>2. IF overlapped \/ ~connected THEN Phase = "closed" /\ From = None /\ To = <<>>
      ELSE Phase \in {"idle", "mail", "rcpt", "data"}
  BY DEF Phase, From, To, Processing
<1>3. QED
  BY <1>1, <1>2, AbstractStep

(* What leaves the envelope and the futures alone is no step of the        *)
(* transaction, unless the connection is closed and nothing is processed.  *)
LEMMA NoAbstractStep ==
    ASSUME TypeOK,
           UNCHANGED <<smtp_state, mailfrom, rcpttos, jobs, waking, overlapped>>,
           connected' => connected
    PROVE  Implements
<1>1. CASE connected' \/ ~connected \/ overlapped \/ Processing
  <2>1. Phase' = Phase /\ From' = From /\ To' = To
    BY <1>1 DEF Phase, From, To, Processing
  <2>2. QED
    BY <2>1, AbstractStep
<1>2. CASE ~connected' /\ ~Processing
  <2>1. jobs = <<>> /\ waking = 0
    BY <1>2 DEF Processing, TypeOK
  <2>2. QED
    BY <1>2, <2>1, ClosedStep
<1>3. QED
  BY <1>1, <1>2

(* What resets the transaction ends the envelope, if there is one.         *)
LEMMA ResetAbstract ==
    ASSUME ~overlapped, ~overlapped', connected, connected', jobs = <<>>, waking = 0,
           UNCHANGED <<jobs, waking>>, smtp_state = "COMMAND", SetRsetState
    PROVE  Implements
<1>1. Phase' = "idle" /\ From' = None /\ To' = <<>>
  BY DEF Phase, From, To, Processing, SetRsetState, SetPostDataState
<1>2. IF rcpttos = <<>> /\ mailfrom = None
      THEN Phase = "idle" /\ From = None /\ To = <<>>
      ELSE Phase \in {"mail", "rcpt"}
  BY DEF Phase, From, To, Processing
<1>3. QED
  BY <1>1, <1>2, AbstractStep

(* A command handler is one step of the promised transaction, or none.     *)
LEMMA HandlerAbstract ==
    ASSUME STypeOK, AtLine, Safe, SInv, ~overlapped,
           \/ Greet \/ Mail \/ RcptRefused \/ Rcpt \/ DataRefused \/ Data \/ Rset \/ Quit
           \/ Noop \/ Bad \/ StartTls \/ StartTlsRefused
    PROVE  Implements
<1> USE DEF transaction, greeting, work
<1>0. TypeOK /\ \A reply \in Reply : Push(reply) => (connected' => connected)
  BY PushType DEF STypeOK
<1>1. {"220", "221", "250", "354", "5xx"} \subseteq Reply
  BY DEF Reply
<1>2. /\ Taken /\ smtp_state = "COMMAND" /\ jobs = <<>> /\ waking = 0 /\ ~overlapped'
      /\ connected' => connected
      /\ UNCHANGED <<jobs, waking>>
  <2>1. Taken
    BY CommandTaken
    DEF Greet, Mail, RcptRefused, Rcpt, DataRefused, Data, Rset, Quit, Noop, Bad, StartTls,
        StartTlsRefused
  <2>2. connected' => connected
    BY <1>0, <1>1
    DEF Greet, Mail, RcptRefused, Rcpt, DataRefused, Data, Rset, Quit, Noop, Bad, StartTls,
        StartTlsRefused, Answer
  <2>3. UNCHANGED work
    BY DEF Greet, Mail, RcptRefused, Rcpt, DataRefused, Data, Rset, Quit, Noop, Bad, StartTls,
           StartTlsRefused, Answer
  <2>4. QED
    BY <2>1, <2>2, <2>3, CommandPoint DEF Taken, Silent, Free
<1>3. CASE ~connected'
  BY <1>2, <1>3, ClosedStep
<1>4. CASE UNCHANGED <<smtp_state, mailfrom, rcpttos>>
  BY <1>0, <1>2, <1>4, NoAbstractStep DEF Taken
<1>5. CASE connected' /\ (Greet \/ Rset \/ StartTls)
  <2>1. SetRsetState
    BY <1>5 DEF Greet, Rset, StartTls
  <2>2. QED
    BY <1>2, <1>5, <2>1, ResetAbstract
<1>6. CASE connected' /\ Mail /\ ~UNCHANGED <<smtp_state, mailfrom, rcpttos>>
  <2> DEFINE line == Head(ac_in_buffer)
  <2>1. /\ Command("MAIL") /\ ~MailRefused(line) /\ mailfrom' = line.arg
        /\ UNCHANGED <<smtp_state, rcpttos>>
    BY <1>6 DEF Mail, Answer
  <2>2. line.arg \in Address
    BY <1>0, <2>1, CommandType
  <2>3. mailfrom = None /\ rcpttos = <<>>
    BY <2>1 DEF MailRefused, Safe, Calm, SInv, Tidy
  <2> HIDE DEF line
  <2>4. line.arg # None
    BY <2>2, NoneAssumption
  <2>5. Phase = "idle" /\ Phase' = "mail" /\ From' = line.arg /\ To' = To
    BY <1>2, <1>6, <2>1, <2>3, <2>4 DEF Phase, From, To, Processing
  <2>6. QED
    BY <2>2, <2>5, AbstractStep
<1>7. CASE connected' /\ Rcpt
  <2> DEFINE line == Head(ac_in_buffer)
  <2>1. /\ Resume("rcpt") /\ line.verb = "RCPT" /\ RcptAccepted(line)
        /\ rcpttos' = Append(rcpttos, line.arg)
        /\ UNCHANGED <<smtp_state, mailfrom>>
    BY <1>7, CommandTaken DEF Rcpt
  <2>2. line.arg \in Address /\ mailfrom # None
    BY <1>0, <1>2, <2>1, HeadType DEF Taken, Line, RcptAccepted
  <2> HIDE DEF line
  <2>3. rcpttos' # <<>>
    <3>1. rcpttos \in Seq(Address) /\ Len(rcpttos) \in Nat
      BY LenProperties DEF STypeOK, TypeOK
    <3>2. Len(Append(rcpttos, line.arg)) = Len(rcpttos) + 1
      BY <2>2, <3>1, AppendProperties
    <3>3. Len(rcpttos') # 0
      BY <2>1, <3>1, <3>2
    <3>4. QED
      BY <3>3, EmptySeq
  <2>4. Phase \in {"mail", "rcpt"} /\ Phase' = "rcpt" /\ From' = From /\ To' = Append(To, line.arg)
    BY <1>2, <1>7, <2>1, <2>2, <2>3 DEF Phase, From, To, Processing
  <2>5. QED
    BY <2>2, <2>4, AbstractStep
<1>8. CASE connected' /\ Data
  <2>1. rcpttos # <<>> /\ smtp_state' = "DATA" /\ UNCHANGED <<mailfrom, rcpttos>>
    BY <1>8, CommandTaken DEF Data, DataAccepted
  <2>2. Phase = "rcpt" /\ Phase' = "data" /\ From' = From /\ To' = To
    BY <1>2, <1>8, <2>1 DEF Phase, From, To, Processing
  <2>3. QED
    BY <2>2, AbstractStep
<1>9. CASE RcptRefused \/ DataRefused \/ Quit \/ Noop \/ Bad \/ StartTlsRefused
  <2>1. UNCHANGED <<smtp_state, mailfrom, rcpttos>>
    BY <1>9 DEF RcptRefused, DataRefused, Quit, Noop, Bad, StartTlsRefused, Answer
  <2>2. QED
    BY <1>4, <2>1
<1>10. QED
  BY <1>3, <1>4, <1>5, <1>6, <1>7, <1>8, <1>9

(* The message moves on whole: what was under way is processed, and what   *)
(* was processed is over (found_terminator, sleep, wake_data).             *)
LEMMA MessageAbstract ==
    ASSUME STypeOK, Safe, SInv, ~overlapped, Sleep \/ DataTooLarge \/ WakeData
    PROVE  Implements
<1> USE DEF transaction, greeting, input, within, callbacks, history, link, wire
<1>0. TypeOK
  BY DEF STypeOK
<1>1. CASE Sleep
  <2>1. /\ handler = "job" /\ jobs' = Append(jobs, args)
        /\ UNCHANGED <<smtp_state, mailfrom, rcpttos, waking, overlapped, connected>>
    BY <1>1 DEF Sleep, Conclude, Resume
  <2>2. jobs = <<>> /\ waking = 0 /\ connected /\ smtp_state = "DATA"
    BY <2>1, AtMark DEF MarkUnderWay, GoneComplete, Silent, Free, Open
  <2>3. args.from = mailfrom /\ args.to = rcpttos
    BY <2>1 DEF SInv, Tidy, Found
  <2>4. jobs' # <<>> /\ jobs'[1] = args
    <3>1. jobs' = Append(<<>>, args)
      BY <2>1, <2>2
    <3>2. QED
      BY <3>1
  <2>5. Phase = "data" /\ Phase' = "processing" /\ From' = From /\ To' = To
    BY <2>1, <2>2, <2>3, <2>4 DEF Phase, From, To, Processing
  <2>6. QED
    BY <2>5, AbstractStep
<1>2. CASE DataTooLarge
  <2>1. /\ Push("5xx") /\ "5xx" \in Reply
        /\ UNCHANGED <<smtp_state, mailfrom, rcpttos, jobs, waking, overlapped>>
    BY <1>2 DEF DataTooLarge, Conclude, Resume, work, Reply
  <2>2. QED
    BY <1>0, <2>1, PushType, NoAbstractStep
<1>3. CASE Wake
  <2>1. PICK k \in DOMAIN jobs : jobs' = RemoveAt(jobs, k)
    BY <1>3 DEF Wake
  <2>2. jobs = <<LedgerJob>> /\ waking = 0 /\ SameEnvelope
    <3>1. jobs # <<>>
      BY <2>1
    <3>2. QED
      BY <3>1, AtWorkPoint DEF Handed, Gone, AtWork
  <2>3. /\ jobs' = <<>> /\ waking' = 1
        /\ UNCHANGED <<mailfrom, rcpttos, overlapped>>
    BY <1>3, <2>1, <2>2, RemoveOnly DEF Wake
  <2>4. jobs # <<>> /\ jobs[1].from = mailfrom /\ jobs[1].to = rcpttos
    BY <2>2 DEF LedgerJob, SameEnvelope
  <2>5. Phase' = Phase /\ From' = From /\ To' = To
    BY <2>3, <2>4 DEF Phase, From, To, Processing
  <2>6. QED
    BY <2>5, AbstractStep
<1>4. CASE WakeReset
  <2>1. /\ waking > 0 /\ waking' = waking - 1
        /\ smtp_state' = "COMMAND" /\ mailfrom' = None /\ rcpttos' = <<>>
        /\ UNCHANGED <<jobs, overlapped, connected>>
    BY <1>4 DEF WakeReset, SetPostDataState
  <2>2. jobs = <<>> /\ waking = 1 /\ waking' = 0
    BY <2>1, AtWorkPoint DEF Handed, Gone, AtWork
  <2>3. Phase = "processing" /\ Phase' \in {"idle", "closed"} /\ From' = None /\ To' = <<>>
    BY <2>1, <2>2 DEF Phase, From, To, Processing
  <2>4. QED
    BY <2>3, AbstractStep
<1>5. CASE WakePush
  <2>1. UNCHANGED <<smtp_state, mailfrom, rcpttos, jobs, waking>> /\ answering > 0
    BY <1>5 DEF WakePush
  <2>2. jobs = <<>> /\ waking = 0
    BY <2>1, AtWorkPoint DEF Concluding, Gone, AtPush
  <2>3. CASE overlapped'
    BY <2>2, <2>3, ClosedStep
  <2>4. CASE ~overlapped'
    <3>1. connected' => connected
      BY <1>0, <1>5, WakePushType
    <3>2. CASE connected'
      <4>1. Phase' = Phase /\ From' = From /\ To' = To
        BY <2>1, <2>4, <3>1, <3>2 DEF Phase, From, To, Processing
      <4>2. QED
        BY <4>1, AbstractStep
    <3>3. CASE ~connected'
      BY <2>1, <2>2, <3>3, ClosedStep
    <3>4. QED
      BY <3>2, <3>3
  <2>5. QED
    BY <2>3, <2>4
<1>6. QED
  BY <1>1, <1>2, <1>3, <1>4, <1>5 DEF WakeData

(* Every step of the session is a step of the mail transaction or none.    *)
LEMMA SessionAbstract ==
    STypeOK /\ AtLine /\ Safe /\ (overlapped \/ SInv) /\ [SNext]_svars => Implements
<1> SUFFICES ASSUME STypeOK, AtLine, Safe, overlapped \/ SInv, [SNext]_svars
             PROVE  Implements
  OBVIOUS
<1> USE DEF transaction, greeting, input, within, work, history, link, wire
<1>0. TypeOK
  BY DEF STypeOK
<1>1. CASE overlapped
  <2>1. overlapped'
    BY <1>1, OverlapStep
  <2>2. Phase' = Phase /\ From' = From /\ To' = To
    BY <1>1, <2>1 DEF Phase, From, To
  <2>3. QED
    BY <2>2, AbstractStep
<1>2. CASE ~overlapped /\ (ServerStep \/ Encrypted)
  <2>1. MainLoop /\ SInv
    BY <1>2 DEF ServerStep, Encrypted, MainLoop
  <2>2. CASE \/ Greet \/ Mail \/ RcptRefused \/ Rcpt \/ DataRefused \/ Data \/ Rset \/ Quit
             \/ Noop \/ Bad \/ StartTls \/ StartTlsRefused
    BY <1>2, <2>1, <2>2, HandlerAbstract
  <2>3. CASE Sleep \/ DataTooLarge
    BY <1>2, <2>1, <2>3, MessageAbstract
  <2>4. CASE Collect \/ Mark \/ NoCommand \/ InData \/ MakeJob \/ RcptCheck \/ DataCheck
             \/ Recv \/ HandshakeDone
    <3>1. UNCHANGED <<smtp_state, mailfrom, rcpttos, jobs, waking, overlapped>>
      <4>1. CASE Collect \/ Mark
        BY <4>1 DEF Collect, Mark
      <4>2. CASE NoCommand \/ InData \/ MakeJob \/ RcptCheck \/ DataCheck
        BY <4>2 DEF NoCommand, InData, MakeJob, RcptCheck, DataCheck
      <4>3. CASE Recv \/ HandshakeDone
        BY <4>3 DEF Recv, HandshakeDone, callbacks
      <4>4. QED
        BY <2>4, <4>1, <4>2, <4>3
    <3>2. connected' => connected
      BY <2>4
      DEF Collect, Mark, NoCommand, InData, MakeJob, RcptCheck, DataCheck, Recv, HandshakeDone
    <3>3. QED
      BY <1>0, <3>1, <3>2, NoAbstractStep
  <2>5. CASE StartTlsBroken \/ Garbage \/ RecvEof \/ CloseWhenDone \/ HandshakeFail
    BY <1>0, <2>5, NoAbstractStep
    DEF StartTlsBroken, Garbage, Abort, RecvEof, CloseWhenDone, HandshakeFail
  <2>6. QED
    BY <2>1, <2>2, <2>3, <2>4, <2>5, NeverStep DEF MainLoop
<1>3. CASE ~overlapped /\ WorkerStep
  BY <1>3, MessageAbstract DEF WorkerStep
<1>4. CASE SendCommand \/ SendText \/ SendDot \/ ReadReply \/ GoAway \/ HangUp
  <2>1. UNCHANGED server
    BY <1>4
    DEF SendCommand, SendText, SendDot, Send, ReadReply, GoAway, HangUp, ClientClose
  <2>2. QED
    BY <1>0, <2>1, NoAbstractStep DEF server
<1>5. CASE SRest \/ UNCHANGED svars
  BY <1>0, <1>5, NoAbstractStep DEF SRest, svars, vars
<1>6. QED
  BY <1>1, <1>2, <1>3, <1>4, <1>5 DEF SNext

(* Seen from outside the handlers the channel performs mail transactions   *)
(* one after the other, whatever the sizes: an envelope grows command by   *)
(* command, is frozen while text is collected, is handed over whole and    *)
(* once, and is gone before the next begins (smtp_MAIL to wake_data),      *)
(* until two threads send at the same time, which counts as closed.  This  *)
(* is ImplementsTransaction without its fairness.                          *)
THEOREM TransactionImplemented ==
    SSpec => Transaction!Init /\ [][Transaction!Next]_(Transaction!tvars)
<1>1. SInit => Transaction!Init
  BY DEF SInit, Init, Transaction!Init, Processing
<1>2. STypeOK /\ AtLine /\ Safe /\ (overlapped \/ SInv) /\ [SNext]_svars
      => [Transaction!Next]_(Transaction!tvars)
  BY SessionAbstract DEF Implements
<1>3. QED
  BY <1>1, <1>2, SessionBase, SessionCorrect, PTL DEF SSpec

=============================================================================
