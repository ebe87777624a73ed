-------------------------- MODULE SmtpChannelProof --------------------------
(***************************************************************************)
(* The invariants of SmtpChannel, for every set of addresses, every        *)
(* alphabet of the client, every size limit and any number of messages     *)
(* under way.                                                              *)
(***************************************************************************)
EXTENDS SmtpChannel, SequenceTheorems, TLAPS

(* What a connection keeps to as long as no message ends before the one    *)
(* ahead of it is done: only one reset is to come, nothing is being looked *)
(* at meanwhile, and what a handler has found true is still true.          *)
Calm ==
    ~ahead =>
        /\ rcpttos # <<>> => mailfrom # None
        /\ mailfrom # None => seen_greeting
        /\ smtp_state = "DATA" => rcpttos # <<>>
        /\ \A k \in DOMAIN jobs : jobs[k].from # None /\ jobs[k].to # <<>>
        /\ jobs # <<>> \/ waking > 0 => smtp_state = "DATA" /\ handler = "none"
        /\ Len(jobs) + waking <= 1
        /\ handler = "rcpt" => mailfrom # None
        /\ handler = "data" => rcpttos # <<>>
        /\ handler \in {"mark", "text", "message", "job"} => smtp_state = "DATA"
        /\ handler = "job" => args.from # None /\ args.to # <<>>

(* A handler that is at work has its line at the head of the buffer, and a *)
(* mark has something before it.                                           *)
AtLine ==
    /\ handler # "none" => ac_in_buffer # <<>>
    /\ handler = "rcpt" => Head(ac_in_buffer).verb = "RCPT"
    /\ handler \in {"mark", "text", "message"} => received_lines # <<>>

(* What was collected does not get lost while its size counts.             *)
TextKept ==
    /\ smtp_state = "COMMAND" => num_bytes = 0
    /\ OverLimit => received_lines # <<>>
    /\ handler = "job" => ~OverLimit /\ args.body # <<>>
    /\ \A k \in DOMAIN jobs : jobs[k].body # <<>>

(* During the handshake nothing is half done either.                       *)
Clear == HandshakeClean /\ (tls = "handshake" /\ connected => handler = "none")

Safe == Calm /\ TextKept /\ Clear /\ BackgroundHasJob

----------------------------------------------------------------------------
(* Sequences. *)

(* A slice of a sequence over S, within its bounds or empty, is a sequence *)
(* over S (the slices of ac_in_buffer, net and jobs).                      *)
LEMMA SubSeqType ==
    ASSUME NEW S, NEW s \in Seq(S), NEW m \in Nat \ {0}, NEW n \in Int, n <= Len(s)
    PROVE  /\ SubSeq(s, m, n) \in Seq(S)
           /\ Len(SubSeq(s, m, n)) = IF m <= n THEN n - m + 1 ELSE 0
           /\ \A i \in 1 .. n - m + 1 : SubSeq(s, m, n)[i] = s[m + i - 1]
<1>1. \A i \in m .. n : s[i] \in S
  BY ElementOfSeq
<1>2. QED
  BY <1>1, SubSeqProperties

(* Taking one future off the queue leaves the others as they are.          *)
LEMMA RemoveAtType ==
    ASSUME NEW S, NEW s \in Seq(S), NEW k \in DOMAIN s
    PROVE  /\ RemoveAt(s, k) \in Seq(S)
           /\ Len(RemoveAt(s, k)) = Len(s) - 1
           /\ \A i \in DOMAIN RemoveAt(s, k) : \E j \in DOMAIN s : RemoveAt(s, k)[i] = s[j]
<1> DEFINE a == SubSeq(s, 1, k - 1)
           b == SubSeq(s, k + 1, Len(s))
<1>1. /\ Len(s) \in Nat
      /\ k \in 1 .. Len(s)
      /\ DOMAIN s = 1 .. Len(s)
  BY LenProperties
<1>2. /\ a \in Seq(S)
      /\ Len(a) = k - 1
      /\ \A i \in 1 .. k - 1 : a[i] = s[i]
  <2>1. k - 1 \in Int /\ k - 1 <= Len(s) /\ 1 \in Nat \ {0}
    BY <1>1
  <2>2. QED
    BY <1>1, <2>1, SubSeqType
<1>3. /\ b \in Seq(S)
      /\ Len(b) = Len(s) - k
      /\ \A i \in 1 .. Len(s) - k : b[i] = s[k + i]
  <2>1. k + 1 \in Nat \ {0} /\ Len(s) \in Int /\ Len(s) <= Len(s)
    BY <1>1
  <2>2. QED
    BY <1>1, <2>1, SubSeqType
<1>4. RemoveAt(s, k) = a \o b
  BY DEF RemoveAt
<1> HIDE DEF a, b
<1>5. /\ a \o b \in Seq(S)
      /\ Len(a \o b) = Len(a) + Len(b)
      /\ \A i \in 1 .. Len(a) + Len(b) :
            (a \o b)[i] = IF i <= Len(a) THEN a[i] ELSE b[i - Len(a)]
  BY <1>2, <1>3, ConcatProperties
<1>6. ASSUME NEW i \in DOMAIN (a \o b)
      PROVE  \E j \in DOMAIN s : (a \o b)[i] = s[j]
  <2>1. i \in 1 .. (k - 1) + (Len(s) - k)
    BY <1>2, <1>3, <1>5, LenProperties
  <2>2. CASE i <= k - 1
    BY <1>1, <1>2, <1>3, <1>5, <2>1, <2>2
  <2>3. CASE i > k - 1
    <3>1. (a \o b)[i] = b[i - (k - 1)]
      BY <1>1, <1>2, <1>3, <1>5, <2>1, <2>3
    <3>2. i - (k - 1) \in 1 .. Len(s) - k
      BY <1>1, <2>1, <2>3
    <3>3. (a \o b)[i] = s[i + 1] /\ i + 1 \in DOMAIN s
      BY <1>1, <1>3, <2>1, <3>1, <3>2
    <3>4. QED
      BY <3>3
  <2>4. QED
    BY <1>1, <2>1, <2>2, <2>3
<1>7. Len(a \o b) = Len(s) - 1
  BY <1>1, <1>2, <1>3, <1>5
<1>8. QED
  BY <1>4, <1>5, <1>6, <1>7

(* The last of an extended sequence is the new one (sleep).                *)
LEMMA AppendSplit ==
    ASSUME NEW S, NEW s \in Seq(S), NEW e \in S
    PROVE  /\ Append(s, e) # <<>>
           /\ Len(Append(s, e)) = Len(s) + 1
           /\ \A n \in DOMAIN Append(s, e) :
                 Append(s, e)[n] = e \/ (n \in DOMAIN s /\ Append(s, e)[n] = s[n])
  BY AppendProperties, LenProperties

----------------------------------------------------------------------------
(* Types. *)

(* A pushed answer keeps the types, and a channel that is still open after *)
(* a push was open before it and not in the handshake (push).              *)
LEMMA PushType ==
    ASSUME TypeOK, NEW reply \in Reply, Push(reply)
    PROVE  /\ replies' \in Seq(Reply)
           /\ connected' \in BOOLEAN
           /\ connected' => connected /\ tls # "handshake"
<1>1. CASE /\ connected /\ ~closing /\ tls # "handshake"
           /\ replies' = Append(replies, reply)
           /\ UNCHANGED connected
  <2>1. replies \in Seq(Reply) /\ connected \in BOOLEAN
    BY DEF TypeOK
  <2>2. Append(replies, reply) \in Seq(Reply)
    BY <2>1, AppendProperties
  <2>3. QED
    BY <1>1, <2>1, <2>2
<1>2. CASE connected' = FALSE /\ UNCHANGED replies
  BY <1>2 DEF TypeOK
<1>3. CASE UNCHANGED <<connected, replies>> /\ tls # "handshake"
  BY <1>3 DEF TypeOK
<1>4. QED
  BY <1>1, <1>2, <1>3 DEF Push

(* The command at the head of the buffer is a line, and the rest is what   *)
(* stays (handle_read, found_terminator).                                  *)
LEMMA CommandType ==
    ASSUME TypeOK, NEW verb, Command(verb)
    PROVE  /\ Head(ac_in_buffer) \in Line
           /\ Head(ac_in_buffer).verb = verb
           /\ verb \in {"MAIL", "RCPT"} => Head(ac_in_buffer).arg \in Address
           /\ ac_in_buffer' \in Seq(Line)
           /\ smtp_state = "COMMAND"
           /\ received_lines = <<>>
<1>1. ac_in_buffer \in Seq(Line) /\ ac_in_buffer # <<>>
  BY DEF TypeOK, Command, AtCommand, Turn, LoopIdle
<1>2. Head(ac_in_buffer) \in Line /\ Tail(ac_in_buffer) \in Seq(Line)
  BY <1>1, HeadTailProperties
<1>3. \A line \in Line : line.verb \in {"MAIL", "RCPT"} => line.arg \in Address
  BY DEF Line
<1>4. QED
  BY <1>2, <1>3 DEF Command, AtCommand

(* Lines are records: a bare verb is one of them.                          *)
LEMMA BareType ==
    ASSUME NEW verb \in Verb \ {"MAIL", "RCPT", "TEXT"}
    PROVE  Bare(verb) \in Line
  BY DEF Bare, Line

(* Collecting counts and keeps lines (collect_incoming_data).              *)
LEMMA CollectedType ==
    ASSUME TypeOK, NEW lines \in Seq(Line)
    PROVE  Collected(lines) \in Seq(Line) /\ Counted(lines) \in Nat
<1>1. received_lines \o lines \in Seq(Line) /\ Len(lines) \in Nat
  BY ConcatProperties, LenProperties DEF TypeOK
<1>2. QED
  BY <1>1 DEF TypeOK, Collected, Counted

(* The answer of a worker keeps the types, also when it meets the main     *)
(* thread, and opens nothing (wake_data, initiate_send).                   *)
LEMMA PushStatusType ==
    ASSUME TypeOK, NEW reply \in Reply, PushStatus(reply)
    PROVE  /\ replies' \in Seq(Reply)
           /\ connected' \in BOOLEAN
           /\ overlapped' \in BOOLEAN
           /\ connected' => connected /\ tls # "handshake"
<1>1. CASE Push(reply) /\ UNCHANGED overlapped
  BY <1>1, PushType DEF TypeOK
<1>2. CASE /\ connected /\ ~closing /\ tls # "handshake"
           /\ overlapped' = TRUE
           /\ \E n \in 0 .. 2 : replies' = replies \o [k \in 1 .. n |-> reply]
           /\ connected' \in BOOLEAN
  <2>1. PICK n \in 0 .. 2 : replies' = replies \o [k \in 1 .. n |-> reply]
    BY <1>2
  <2>2. [k \in 1 .. n |-> reply] \in Seq(Reply)
    BY IsASeq
  <2>3. replies \in Seq(Reply)
    BY DEF TypeOK
  <2>4. replies' \in Seq(Reply)
    BY <2>1, <2>2, <2>3, ConcatProperties
  <2>5. QED
    BY <1>2, <2>4
<1>3. QED
  BY <1>1, <1>2 DEF PushStatus

(* A line that is carried out is at the head of the buffer; the rest is    *)
(* what stays (handle_read, found_terminator).                             *)
LEMMA HeadType ==
    ASSUME TypeOK, ac_in_buffer # <<>>
    PROVE  Head(ac_in_buffer) \in Line /\ Tail(ac_in_buffer) \in Seq(Line)
  BY HeadTailProperties DEF TypeOK

(* Something collected leaves something (collect_incoming_data).           *)
LEMMA CollectedSome ==
    ASSUME TypeOK, OverLimit => received_lines # <<>>, NEW lines \in Seq(Line), lines # <<>>
    PROVE  Collected(lines) # <<>>
<1>1. CASE OverLimit
  BY <1>1 DEF Collected
<1>2. CASE ~OverLimit
  <2>1. /\ Len(received_lines \o lines) = Len(received_lines) + Len(lines)
        /\ Len(received_lines) \in Nat /\ Len(lines) \in Nat /\ Len(lines) # 0
        /\ received_lines \o lines \in Seq(Line)
    BY ConcatProperties, EmptySeq, LenProperties DEF TypeOK
  <2>2. Len(received_lines \o lines) # 0
    BY <2>1
  <2>3. QED
    BY <1>2, <2>1, <2>2, EmptySeq DEF Collected
<1>3. QED
  BY <1>1, <1>2

(* The end-of-data mark: what is before it is collected, and is never      *)
(* nothing together with what had been (handle_read).                      *)
LEMMA MarkType ==
    ASSUME TypeOK, OverLimit => received_lines # <<>>, Mark
    PROVE  /\ ac_in_buffer' \in Seq(Line)
           /\ received_lines' \in Seq(Line)
           /\ received_lines' # <<>>
           /\ num_bytes' \in Nat
<1>1. PICK i \in DOMAIN ac_in_buffer :
        LET lines == SubSeq(ac_in_buffer, 1, i - 1)
        IN  /\ EndsData(i)
            /\ received_lines' = IF lines = <<>> THEN received_lines ELSE Collected(lines)
            /\ num_bytes' = Counted(lines)
            /\ ac_in_buffer' = SubSeq(ac_in_buffer, i, Len(ac_in_buffer))
  BY DEF Mark
<1> DEFINE lines == SubSeq(ac_in_buffer, 1, i - 1)
<1>2. /\ ac_in_buffer \in Seq(Line)
      /\ Len(ac_in_buffer) \in Nat
      /\ i \in 1 .. Len(ac_in_buffer)
      /\ received_lines \in Seq(Line)
  BY LenProperties DEF TypeOK
<1>3. lines \in Seq(Line) /\ Len(lines) = i - 1
  <2>1. i - 1 \in Int /\ i - 1 <= Len(ac_in_buffer) /\ 1 \in Nat \ {0}
    BY <1>2
  <2>2. QED
    BY <1>2, <2>1, SubSeqType
<1>4. ac_in_buffer' \in Seq(Line)
  <2>1. i \in Nat \ {0} /\ Len(ac_in_buffer) \in Int /\ Len(ac_in_buffer) <= Len(ac_in_buffer)
    BY <1>2
  <2>2. QED
    BY <1>1, <1>2, <2>1, SubSeqType
<1> HIDE DEF lines
<1>5. Collected(lines) \in Seq(Line) /\ Counted(lines) \in Nat
  BY <1>3, CollectedType
<1>6. /\ received_lines' = IF lines = <<>> THEN received_lines ELSE Collected(lines)
      /\ num_bytes' = Counted(lines)
      /\ i > 1 \/ received_lines # <<>>
  BY <1>1 DEF lines, EndsData
<1>7. CASE lines = <<>>
  <2>1. received_lines # <<>>
    BY <1>2, <1>3, <1>6, <1>7
  <2>2. QED
    BY <1>2, <1>4, <1>5, <1>6, <1>7, <2>1
<1>8. CASE lines # <<>>
  <2>1. Collected(lines) # <<>>
    BY <1>3, <1>8, CollectedSome
  <2>2. QED
    BY <1>4, <1>5, <1>6, <1>8, <2>1
<1>9. QED
  BY <1>7, <1>8

(* What collected lines turn into is a line.                               *)
LEMMA FusedType ==
    ASSUME NEW lines \in Seq(Line), lines # <<>>
    PROVE  Fused(lines) \subseteq Line
<1>1. lines[1] \in Line
  BY EmptySeq, ElementOfSeq
<1>2. Bare("GARBAGE") \in Line /\ Bare("BAD") \in Line /\ Bare("NOOP") \in Line
  BY BareType DEF Verb
<1>3. ToSet(lines) \subseteq Line
  BY ElementOfSeq DEF ToSet
<1>4. QED
  BY <1>1, <1>2, <1>3 DEF Fused

(* The held back line is put in front of the buffer (handle_read).         *)
LEMMA FuseType ==
    ASSUME TypeOK, Fuse
    PROVE  ac_in_buffer' \in Seq(Line) /\ received_lines' = <<>> /\ rest' = rest
<1>1. received_lines \in Seq(Line) /\ received_lines # <<>> /\ ac_in_buffer \in Seq(Line)
  BY DEF TypeOK, Fuse, HeldBack
<1>2. PICK line \in Fused(received_lines) : ac_in_buffer' = <<line>> \o ac_in_buffer
  BY DEF Fuse
<1>3. <<line>> \in Seq(Line)
  BY <1>1, <1>2, FusedType
<1>4. QED
  BY <1>1, <1>2, <1>3, ConcatProperties DEF Fuse

(* Whatever the outcome, so does the end of wake_data.                     *)
LEMMA WakePushType ==
    ASSUME TypeOK, WakePush
    PROVE  /\ replies' \in Seq(Reply)
           /\ connected' \in BOOLEAN
           /\ overlapped' \in BOOLEAN
           /\ connected' => connected
           /\ connected' /\ tls = "handshake" => UNCHANGED <<connected, replies, overlapped>>
<1>1. PICK outcome \in Outcomes :
        LET reply == IF outcome = "delivered" THEN "250" ELSE "5xx"
        IN  PushStatus(reply) \/ UNCHANGED <<connected, replies, overlapped>>
  BY DEF WakePush
<1>2. "250" \in Reply /\ "5xx" \in Reply
  BY DEF Reply
<1>3. QED
  BY <1>1, <1>2, PushStatusType DEF TypeOK

(* Every step of the channel, its workers and an arbitrary client keeps    *)
(* the types (channel.py, smtpd.py).                                       *)
LEMMA TypeStep == TypeOK /\ AtLine /\ TextKept /\ [Next]_vars => TypeOK'
<1> USE DEF transaction, greeting, input, within, callbacks, work, history, link, wire
<1>2. ASSUME TypeOK, AtLine, TextKept, [Next]_vars
      PROVE  TypeOK'
  <2>0. /\ {"220", "221", "250", "354", "5xx"} \subseteq Reply
        /\ <<>> \in Seq(Address) /\ <<>> \in Seq(Line) /\ NoJob \in Job
        /\ {"none", "rcpt", "data", "mark", "text", "message", "job"} \subseteq Handler
    <3>1. /\ {"220", "221", "250", "354", "5xx"} \subseteq Reply
          /\ {"none", "rcpt", "data", "mark", "text", "message", "job"} \subseteq Handler
      BY DEF Reply, Handler
    <3>2. <<>> \in Seq(Address) /\ <<>> \in Seq(Line)
      OBVIOUS
    <3>3. QED
      BY <3>1, <3>2 DEF NoJob, Job
  <2>1. ASSUME NEW reply \in Reply, NEW verb, Command(verb), Answer(reply)
        PROVE  TypeOK'
    BY <1>2, <2>1, PushType, CommandType DEF Answer, Command, TypeOK
  <2>2. CASE Greet
    <3>1. PICK verb \in {"HELO", "EHLO"} :
            /\ Command(verb)
            /\ SetRsetState
            /\ seen_greeting' = TRUE
            /\ extended_smtp' = (extended_smtp \/ verb = "EHLO")
            /\ Push("250")
            /\ UNCHANGED <<work, closing, tls, net, eof>>
      BY <2>2 DEF Greet
    <3>2. QED
      BY <1>2, <2>0, <3>1, PushType, CommandType
      DEF Command, SetRsetState, SetPostDataState, TypeOK
  <2>3. CASE Mail
    <3> DEFINE line == Head(ac_in_buffer)
    <3>1. Command("MAIL") /\ line.arg \in Address
      BY <1>2, <2>3, CommandType DEF Mail
    <3>2. CASE Answer("5xx")
      BY <2>0, <2>1, <3>1, <3>2
    <3>3. CASE /\ require_SMTPUTF8' = (require_SMTPUTF8 \/ "SMTPUTF8" \in line.params)
               /\ \/ Push("5xx") /\ UNCHANGED mailfrom
                  \/ Push("250") /\ mailfrom' = line.arg
               /\ UNCHANGED <<smtp_state, rcpttos, num_bytes, greeting,
                              received_lines, work, closing, tls, net, eof>>
      <4>1. replies' \in Seq(Reply) /\ connected' \in BOOLEAN
        BY <1>2, <2>0, <3>3, PushType
      <4>2. mailfrom' \in Address \cup {None}
        BY <1>2, <3>1, <3>3 DEF TypeOK
      <4>3. require_SMTPUTF8' \in BOOLEAN
        BY <3>3
      <4>4. QED
        BY <1>2, <3>1, <3>3, <4>1, <4>2, <4>3, CommandType DEF Command, TypeOK
    <3>4. QED
      BY <2>3, <3>2, <3>3 DEF Mail
  <2>4. CASE RcptCheck \/ DataCheck \/ NoCommand \/ InData
    BY <1>2, <2>0, <2>4 DEF RcptCheck, DataCheck, NoCommand, InData, TypeOK
  <2>5. CASE Rcpt
    <3>1. Head(ac_in_buffer).arg \in Address /\ Tail(ac_in_buffer) \in Seq(Line)
      BY <1>2, <2>5, HeadType DEF Rcpt, Resume, AtLine, Line
    <3>2. rcpttos' \in Seq(Address)
      BY <1>2, <2>5, <3>1, AppendProperties DEF Rcpt, TypeOK
    <3>3. QED
      BY <1>2, <2>0, <2>5, <3>1, <3>2, PushType DEF Rcpt, Resume, TypeOK
  <2>6. CASE Data
    <3>1. Tail(ac_in_buffer) \in Seq(Line)
      BY <1>2, <2>6, HeadType DEF Data, Resume, AtLine
    <3>2. QED
      BY <1>2, <2>0, <2>6, <3>1, PushType DEF Data, Resume, TypeOK
  <2>7. CASE Rset
    BY <1>2, <2>0, <2>7, PushType, CommandType
    DEF Rset, Command, SetRsetState, SetPostDataState, TypeOK
  <2>8. CASE Quit
    BY <1>2, <2>0, <2>8, PushType, CommandType DEF Quit, Command, TypeOK
  <2>9. CASE StartTls
    <3>1. replies' \in Seq(Reply)
      BY <1>2, <2>0, <2>9, AppendProperties DEF StartTls, TypeOK
    <3>2. QED
      BY <1>2, <2>0, <2>9, <3>1, CommandType
      DEF StartTls, Command, SetRsetState, SetPostDataState, TypeOK
  <2>10. CASE StartTlsBroken \/ Garbage
    <3>1. /\ ac_in_buffer' = <<>> /\ connected' \in BOOLEAN
          /\ UNCHANGED <<transaction, greeting, received_lines, rest, within, work, history,
                         closing, tls, wire>>
      BY <2>10 DEF StartTlsBroken, Garbage, Abort
    <3>2. QED
      BY <1>2, <2>0, <3>1 DEF TypeOK
  <2>11. CASE RcptRefused \/ DataRefused \/ StartTlsRefused \/ Noop \/ Bad
    BY <2>0, <2>1, <2>11 DEF RcptRefused, DataRefused, StartTlsRefused, Noop, Bad
  <2>12. CASE Collect
    BY <1>2, <2>0, <2>12, CollectedType DEF Collect, TypeOK
  <2>13. CASE Mark
    <3>1. /\ ac_in_buffer' \in Seq(Line) /\ received_lines' \in Seq(Line)
          /\ num_bytes' \in Nat
      BY <1>2, <2>13, MarkType DEF AtLine, TextKept
    <3>2. ahead' \in BOOLEAN /\ rest' \in BOOLEAN /\ handler' \in Handler
      BY <2>0, <2>13 DEF Mark
    <3>3. UNCHANGED <<smtp_state, mailfrom, rcpttos, require_SMTPUTF8, greeting, args,
                      work, overlapped, link, wire>>
      BY <2>13 DEF Mark
    <3>4. QED
      BY <1>2, <3>1, <3>2, <3>3 DEF TypeOK
  <2>14. CASE Confused \/ DataTooLarge
    <3>1. Tail(ac_in_buffer) \in Seq(Line)
      BY <1>2, <2>14, HeadType DEF Confused, DataTooLarge, Conclude, Resume, AtLine
    <3>2. /\ handler' = "none" /\ ac_in_buffer' = Tail(ac_in_buffer)
          /\ received_lines' = <<>> /\ num_bytes' = 0
          /\ Push("5xx")
          /\ UNCHANGED <<smtp_state, mailfrom, rcpttos, require_SMTPUTF8, greeting, args,
                         rest, work, history, closing, tls, net, eof>>
      BY <2>14 DEF Confused, DataTooLarge, Conclude, Resume
    <3>3. QED
      BY <1>2, <2>0, <3>1, <3>2, PushType DEF TypeOK
  <2>15. CASE MakeJob
    <3>1. args' \in Job
      BY <1>2, <2>15 DEF MakeJob, Job, TypeOK
    <3>2. QED
      BY <1>2, <2>0, <2>15, <3>1 DEF MakeJob, TypeOK
  <2>16. CASE Sleep
    <3>1. Tail(ac_in_buffer) \in Seq(Line)
      BY <1>2, <2>16, HeadType DEF Sleep, Conclude, Resume, AtLine
    <3>2. jobs' \in Seq(Job)
      BY <1>2, <2>16, AppendProperties DEF Sleep, TypeOK
    <3>3. QED
      BY <1>2, <2>0, <2>16, <3>1, <3>2 DEF Sleep, Conclude, Resume, TypeOK
  <2>17. CASE ReadHeldBack
    <3>1. /\ ac_in_buffer' \in Seq(Line) /\ received_lines' = <<>> /\ rest' = rest
          /\ UNCHANGED <<transaction, greeting, within, work, history, link, wire>>
      BY <1>2, <2>17, FuseType DEF ReadHeldBack
    <3>2. QED
      BY <1>2, <2>0, <3>1 DEF TypeOK
  <2>18. CASE ReadAsCommand
    <3>1. /\ Tail(ac_in_buffer) \in Seq(Line)
          /\ received_lines \in Seq(Line) /\ received_lines # <<>>
      BY <1>2, <2>18, HeadType DEF ReadAsCommand, AtLine, TypeOK
    <3>2. PICK line \in Fused(received_lines) : ac_in_buffer' = <<line>> \o Tail(ac_in_buffer)
      BY <2>18 DEF ReadAsCommand
    <3>3. <<line>> \in Seq(Line)
      BY <3>1, <3>2, FusedType
    <3>4. ac_in_buffer' \in Seq(Line)
      BY <3>1, <3>2, <3>3, ConcatProperties
    <3>5. QED
      BY <1>2, <2>0, <2>18, <3>4 DEF ReadAsCommand, TypeOK
  <2>19. CASE CollectPart
    <3>1. Head(ac_in_buffer) \in Line /\ Tail(ac_in_buffer) \in Seq(Line)
      BY <1>2, <2>19, HeadType DEF CollectPart, Turn, LoopIdle
    <3>2. received_lines' \in Seq(Line)
      BY <1>2, <2>19, <3>1, AppendProperties DEF CollectPart, TypeOK
    <3>3. QED
      BY <1>2, <2>0, <2>19, <3>1, <3>2 DEF CollectPart, TypeOK
  <2>20. CASE Complete
    <3>1. Head(ac_in_buffer) \in Line /\ Tail(ac_in_buffer) \in Seq(Line)
      BY <1>2, <2>20, HeadType DEF Complete, Turn, LoopIdle
    <3> DEFINE lines == Append(received_lines, Head(ac_in_buffer))
    <3>2. lines \in Seq(Line) /\ lines # <<>>
      <4>1. received_lines \in Seq(Line)
        BY <1>2 DEF TypeOK
      <4>2. QED
        BY <3>1, <4>1, AppendSplit, AppendProperties
    <3>3. PICK line \in Fused(lines) : ac_in_buffer' = <<line>> \o Tail(ac_in_buffer)
      BY <2>20 DEF Complete
    <3> HIDE DEF lines
    <3>4. <<line>> \in Seq(Line)
      BY <3>2, <3>3, FusedType
    <3>5. ac_in_buffer' \in Seq(Line)
      BY <3>1, <3>3, <3>4, ConcatProperties
    <3>6. QED
      BY <1>2, <2>0, <2>20, <3>5 DEF Complete, TypeOK
  <2>21. CASE Recv
    <3>1. PICK k \in 1 .. Len(net) :
            /\ ac_in_buffer' = SubSeq(net, 1, k)
            /\ net' = SubSeq(net, k + 1, Len(net))
      BY <2>21 DEF Recv
    <3>2. net \in Seq(Line) /\ Len(net) \in Nat
      BY <1>2, LenProperties DEF TypeOK
    <3>3. ac_in_buffer' \in Seq(Line)
      BY <3>1, <3>2, SubSeqType
    <3>4. net' \in Seq(Line)
      <4>1. k + 1 \in Nat \ {0} /\ Len(net) \in Int /\ Len(net) <= Len(net)
        BY <3>2
      <4>2. QED
        BY <3>1, <3>2, <4>1, SubSeqType
    <3>5. QED
      BY <1>2, <2>21, <3>3, <3>4 DEF Recv, TypeOK
  <2>22. CASE RecvEof
    <3>1. CASE Fuse
      <4>1. /\ ac_in_buffer' \in Seq(Line) /\ received_lines' = <<>> /\ rest' = rest
            /\ connected' \in BOOLEAN
            /\ UNCHANGED <<transaction, greeting, within, work, history, closing, tls, wire>>
        BY <1>2, <2>22, <3>1, FuseType DEF RecvEof
      <4>2. QED
        BY <1>2, <2>0, <4>1 DEF TypeOK
    <3>2. CASE UNCHANGED input
      BY <1>2, <2>22, <3>2 DEF RecvEof, TypeOK
    <3>3. QED
      BY <2>22, <3>1, <3>2 DEF RecvEof
  <2>23. CASE CloseWhenDone \/ HandshakeDone \/ HandshakeFail
    <3>1. /\ in_background' \in BOOLEAN /\ closing' \in BOOLEAN
          /\ connected' \in BOOLEAN /\ tls' \in {tls, "tls"}
          /\ UNCHANGED <<transaction, greeting, input, within, jobs, callbacks, history, wire>>
      BY <1>2, <2>23 DEF CloseWhenDone, HandshakeDone, HandshakeFail, TypeOK
    <3>2. QED
      BY <1>2, <3>1 DEF TypeOK
  <2>24. CASE Wake
    <3>1. jobs' \in Seq(Job)
      <4>1. PICK k \in DOMAIN jobs : jobs' = RemoveAt(jobs, k)
        BY <2>24 DEF Wake
      <4>2. jobs \in Seq(Job)
        BY <1>2 DEF TypeOK
      <4>3. QED
        BY <4>1, <4>2, RemoveAtType
    <3>2. /\ in_background' \in BOOLEAN /\ waking' = waking + 1
          /\ UNCHANGED <<transaction, greeting, input, within, answering, history, link, wire>>
      BY <2>24 DEF Wake
    <3>3. QED
      BY <1>2, <3>1, <3>2 DEF TypeOK
  <2>25. CASE WakeReset
    <3>1. /\ waking' \in Nat /\ answering' \in Nat
          /\ smtp_state' = "COMMAND" /\ mailfrom' = None /\ rcpttos' = <<>>
          /\ require_SMTPUTF8' = FALSE /\ num_bytes' = 0
          /\ UNCHANGED <<greeting, input, within, in_background, jobs, history, link, wire>>
      BY <1>2, <2>25 DEF WakeReset, SetPostDataState, TypeOK
    <3>2. QED
      BY <1>2, <2>0, <3>1 DEF TypeOK
  <2>26. CASE WakePush
    <3>1. /\ replies' \in Seq(Reply) /\ connected' \in BOOLEAN
          /\ overlapped' \in BOOLEAN
      BY <1>2, <2>26, WakePushType
    <3>2. /\ answering' \in Nat
          /\ UNCHANGED <<transaction, greeting, input, within, in_background, jobs, waking,
                         ahead, closing, tls, net, eof>>
      BY <1>2, <2>26 DEF WakePush, TypeOK
    <3>3. QED
      BY <1>2, <3>1, <3>2 DEF TypeOK
  <2>27. CASE ClientSend
    <3>1. net' \in Seq(Line)
      BY <1>2, <2>27, ClientLinesAssumption, AppendProperties DEF ClientSend, TypeOK
    <3>2. QED
      BY <1>2, <2>27, <3>1 DEF ClientSend, server, TypeOK
  <2>28. CASE ClientRead
    <3>1. replies' \in Seq(Reply)
      BY <1>2, <2>28, HeadTailProperties DEF ClientRead, TypeOK
    <3>2. QED
      BY <1>2, <2>28, <3>1 DEF ClientRead, server, TypeOK
  <2>29. CASE ClientClose
    <3>0. net' \in Seq(Line)
      BY <1>2, <2>0, <2>29 DEF ClientClose, TypeOK
    <3>1. /\ eof' \in BOOLEAN
          /\ UNCHANGED <<transaction, greeting, input, within, work, history, link, replies>>
      BY <2>29 DEF ClientClose, server
    <3>2. QED
      BY <1>2, <3>0, <3>1 DEF TypeOK
  <2>30. CASE UNCHANGED vars
    BY <1>2, <2>30 DEF vars, TypeOK
  <2>31. QED
    BY <1>2, <2>2, <2>3, <2>4, <2>5, <2>6, <2>7, <2>8, <2>9, <2>10, <2>11, <2>12,
       <2>13, <2>14, <2>15, <2>16, <2>17, <2>18, <2>19, <2>20, <2>21, <2>22, <2>23,
       <2>24, <2>25, <2>26, <2>27, <2>28, <2>29, <2>30
    DEF Next, MainLoop, WakeData, Rest
<1>3. QED
  BY <1>2

(* An accepted connection has them (the constructors).                     *)
LEMMA TypeInit == Init => TypeOK
<1>1. <<"220">> \in Seq(Reply)
  BY DEF Reply
<1>2. <<>> \in Seq(Address) /\ <<>> \in Seq(Line) /\ <<>> \in Seq(Job)
  OBVIOUS
<1>3. 0 \in Nat
  OBVIOUS
<1>4. NoJob \in Job /\ "none" \in Handler
  BY <1>2 DEF NoJob, Job, Handler
<1>5. QED
  BY <1>1, <1>2, <1>3, <1>4, Zenon DEF Init, TypeOK

(* A handler is at work on the line at the head of the buffer, and what    *)
(* has come with an end-of-data mark is there (handle_read).               *)
LEMMA AtLineStep ==
    TypeOK /\ TypeOK' /\ AtLine /\ TextKept /\ [Next]_vars => AtLine'
<1> USE DEF transaction, greeting, input, within, callbacks, work, history, link, wire
<1>2. ASSUME TypeOK, TypeOK', AtLine, TextKept, [Next]_vars
      PROVE  AtLine'
  <2>1. CASE Greet \/ Mail \/ RcptRefused \/ DataRefused \/ Rset \/ Quit \/ Noop \/ Bad
             \/ StartTls \/ StartTlsRefused
    <3>1. PICK verb : Command(verb)
      BY <2>1 DEF Greet, Mail, RcptRefused, DataRefused, Rset, Quit, Noop, Bad, StartTls,
                  StartTlsRefused
    <3>2. QED
      BY <3>1 DEF Command, AtCommand, Turn, AtLine
  <2>2. CASE RcptCheck \/ DataCheck
    BY <2>2 DEF RcptCheck, DataCheck, AtCommand, Turn, LoopIdle, AtLine
  <2>3. CASE Rcpt \/ Data
    BY <2>3 DEF Rcpt, Data, Resume, AtLine
  <2>4. CASE Confused \/ DataTooLarge \/ Sleep
    BY <2>4 DEF Confused, DataTooLarge, Sleep, Conclude, Resume, AtLine
  <2>5. CASE NoCommand \/ InData \/ MakeJob
    BY <1>2, <2>5 DEF NoCommand, InData, MakeJob, AtLine
  <2>6. CASE StartTlsBroken \/ Garbage
    BY <2>6 DEF StartTlsBroken, Garbage, Abort, AtCommand, Turn, AtLine
  <2>7. CASE Collect \/ ReadHeldBack \/ CollectPart \/ Complete
    BY <2>7 DEF Collect, ReadHeldBack, CollectPart, Complete, Turn, AtLine
  <2>8. CASE Mark
    <3>1. /\ handler' = "mark" /\ received_lines' # <<>>
          /\ ac_in_buffer \in Seq(Line)
      BY <1>2, <2>8, MarkType DEF Mark, TextKept, TypeOK
    <3>2. PICK i \in DOMAIN ac_in_buffer :
            ac_in_buffer' = SubSeq(ac_in_buffer, i, Len(ac_in_buffer))
      BY <2>8 DEF Mark
    <3>3. i \in 1 .. Len(ac_in_buffer) /\ Len(ac_in_buffer) \in Nat
      BY <3>1, LenProperties
    <3>4. Len(ac_in_buffer') = Len(ac_in_buffer) - i + 1
      BY <3>1, <3>2, <3>3, SubSeqType
    <3>5. ac_in_buffer' # <<>>
      BY <3>3, <3>4, EmptySeq
    <3>6. QED
      BY <3>1, <3>5 DEF AtLine
  <2>9. CASE ReadAsCommand
    BY <2>9 DEF ReadAsCommand, AtLine
  <2>10. CASE Recv \/ RecvEof \/ CloseWhenDone \/ HandshakeDone \/ HandshakeFail
    <3>1. handler' = handler /\ LoopIdle
      BY <2>10 DEF Recv, RecvEof, CloseWhenDone, HandshakeDone, HandshakeFail, Readable
    <3>2. QED
      BY <1>2, <3>1 DEF LoopIdle, AtLine
  <2>11. CASE Wake \/ WakeReset \/ WakePush
    BY <1>2, <2>11 DEF Wake, WakeReset, WakePush, AtLine
  <2>12. CASE ClientSend \/ ClientRead \/ ClientClose
    BY <1>2, <2>12 DEF ClientSend, ClientRead, ClientClose, server, AtLine
  <2>13. CASE UNCHANGED vars
    BY <1>2, <2>13 DEF vars, AtLine
  <2>14. QED
    BY <1>2, <2>1, <2>2, <2>3, <2>4, <2>5, <2>6, <2>7, <2>8, <2>9, <2>10, <2>11, <2>12,
       <2>13
    DEF Next, MainLoop, WakeData, Rest
<1>3. QED
  BY <1>2

(* What was collected is there when it is needed, although wake-ups set    *)
(* its size to zero (collect_incoming_data, found_terminator).             *)
LEMMA TextKeptStep ==
    TypeOK /\ TypeOK' /\ AtLine /\ TextKept /\ [Next]_vars => TextKept'
<1> USE DEF transaction, greeting, input, within, callbacks, work, history, link, wire
<1>2. ASSUME TypeOK, TypeOK', AtLine, TextKept, [Next]_vars
      PROVE  TextKept'
  <2>0. DataLimit \in Nat /\ num_bytes \in Nat
    BY <1>2, DataLimitAssumption DEF TypeOK
  <2>1. ASSUME UNCHANGED <<smtp_state, num_bytes, received_lines, handler, args, jobs>>
        PROVE  TextKept'
    BY <1>2, <2>1 DEF TextKept, OverLimit
  <2>2. CASE Greet \/ Rset \/ StartTls
    <3>1. num_bytes' = 0 /\ handler = "none" /\ handler' = "none" /\ jobs' = jobs
      BY <2>2 DEF Greet, Rset, StartTls, Command, AtCommand, Turn, SetRsetState,
                  SetPostDataState
    <3>2. QED
      BY <1>2, <2>0, <3>1 DEF TextKept, OverLimit
  <2>3. CASE Mail \/ RcptRefused \/ DataRefused \/ Quit \/ StartTlsRefused \/ Noop \/ Bad
    BY <2>1, <2>3
    DEF Mail, RcptRefused, DataRefused, Quit, StartTlsRefused, Noop, Bad, Answer, Command
  <2>4. CASE RcptCheck \/ DataCheck \/ Rcpt \/ Data
    <3>1. UNCHANGED <<num_bytes, received_lines, jobs>>
          /\ (smtp_state' = "COMMAND" => smtp_state = "COMMAND")
          /\ handler' \in {"none", "rcpt", "data"}
      BY <2>4 DEF RcptCheck, DataCheck, Rcpt, Data, Resume
    <3>2. QED
      BY <1>2, <3>1 DEF TextKept, OverLimit
  <2>5. CASE StartTlsBroken \/ Garbage
    BY <2>1, <2>5 DEF StartTlsBroken, Garbage, Abort
  <2>6. CASE Collect
    <3>1. ac_in_buffer # <<>> /\ ac_in_buffer \in Seq(Line)
      BY <1>2, <2>6 DEF Collect, Turn, LoopIdle, TypeOK
    <3>2. Collected(ac_in_buffer) # <<>>
      BY <1>2, <3>1, CollectedSome DEF TextKept
    <3>3. received_lines' # <<>> /\ handler = "none" /\ handler' = "none"
          /\ smtp_state' = "DATA" /\ jobs' = jobs
      BY <2>6, <3>2 DEF Collect, Turn
    <3>4. QED
      BY <1>2, <3>3 DEF TextKept
  <2>7. CASE Mark
    <3>1. /\ received_lines' # <<>> /\ handler' = "mark" /\ smtp_state' = "DATA"
          /\ jobs' = jobs
      BY <1>2, <2>7, MarkType DEF Mark, TextKept
    <3>2. QED
      BY <1>2, <3>1 DEF TextKept
  <2>8. CASE NoCommand \/ InData
    BY <1>2, <2>8 DEF NoCommand, InData, TextKept, OverLimit
  <2>9. CASE Confused \/ DataTooLarge
    <3>1. num_bytes' = 0 /\ handler' = "none" /\ jobs' = jobs
      BY <2>9 DEF Confused, DataTooLarge, Conclude, Resume
    <3>2. QED
      BY <1>2, <2>0, <3>1 DEF TextKept, OverLimit
  <2>10. CASE MakeJob
    <3>1. /\ args'.body # <<>> /\ handler' = "job" /\ ~OverLimit'
          /\ UNCHANGED <<smtp_state, num_bytes, received_lines, jobs>>
      BY <1>2, <2>10 DEF MakeJob, TooLarge, TextKept, OverLimit, AtLine
    <3>2. QED
      BY <1>2, <3>1 DEF TextKept, OverLimit
  <2>11. CASE Sleep
    <3>1. /\ ~OverLimit' /\ handler' = "none" /\ args.body # <<>>
          /\ UNCHANGED <<smtp_state, num_bytes>>
          /\ jobs' = Append(jobs, args) /\ jobs \in Seq(Job) /\ args \in Job
      BY <1>2, <2>11 DEF Sleep, Conclude, Resume, TextKept, OverLimit, TypeOK
    <3>2. \A k \in DOMAIN jobs' : jobs'[k].body # <<>>
      BY <1>2, <3>1, AppendSplit DEF TextKept
    <3>3. QED
      BY <1>2, <3>1, <3>2 DEF TextKept
  <2>12. CASE ReadHeldBack \/ ReadAsCommand \/ CollectPart \/ Complete
    <3>1. /\ smtp_state = "COMMAND" /\ handler' = "none" /\ jobs' = jobs
          /\ UNCHANGED <<smtp_state, num_bytes>>
      BY <1>2, <2>12 DEF ReadHeldBack, ReadAsCommand, CollectPart, Complete, Fuse, HeldBack,
                         Turn, TypeOK
    <3>2. ~OverLimit'
      BY <1>2, <2>0, <3>1 DEF TextKept, OverLimit
    <3>3. QED
      BY <1>2, <3>1, <3>2 DEF TextKept
  <2>13. CASE RecvEof
    <3>1. CASE Fuse
      <4>1. /\ smtp_state = "COMMAND" /\ LoopIdle
            /\ UNCHANGED <<smtp_state, num_bytes, handler, args, jobs>>
        BY <2>13, <3>1 DEF RecvEof, Fuse, HeldBack, Readable
      <4>2. handler = "none" /\ ~OverLimit'
        BY <1>2, <2>0, <4>1 DEF TextKept, OverLimit, AtLine, LoopIdle
      <4>3. QED
        BY <1>2, <4>1, <4>2 DEF TextKept
    <3>2. CASE UNCHANGED input
      BY <2>1, <2>13, <3>2 DEF RecvEof
    <3>3. QED
      BY <2>13, <3>1, <3>2 DEF RecvEof
  <2>14. CASE Recv \/ CloseWhenDone \/ HandshakeDone \/ HandshakeFail
    BY <2>1, <2>14 DEF Recv, CloseWhenDone, HandshakeDone, HandshakeFail
  <2>15. CASE Wake
    <3>1. \A n \in DOMAIN jobs' : \E m \in DOMAIN jobs : jobs'[n] = jobs[m]
      BY <1>2, <2>15, RemoveAtType DEF Wake, TypeOK
    <3>2. QED
      BY <1>2, <2>15, <3>1 DEF Wake, TextKept, OverLimit
  <2>16. CASE WakeReset
    <3>1. num_bytes' = 0 /\ UNCHANGED <<received_lines, handler, args, jobs>>
      BY <2>16 DEF WakeReset, SetPostDataState
    <3>2. QED
      BY <1>2, <2>0, <3>1 DEF TextKept, OverLimit
  <2>17. CASE WakePush
    BY <2>1, <2>17 DEF WakePush
  <2>18. CASE ClientSend \/ ClientRead \/ ClientClose
    BY <2>1, <2>18 DEF ClientSend, ClientRead, ClientClose, server
  <2>19. CASE UNCHANGED vars
    BY <2>1, <2>19 DEF vars
  <2>20. QED
    BY <1>2, <2>2, <2>3, <2>4, <2>5, <2>6, <2>7, <2>8, <2>9, <2>10, <2>11, <2>12,
       <2>13, <2>14, <2>15, <2>16, <2>17, <2>18, <2>19
    DEF Next, MainLoop, WakeData, Rest
<1>3. QED
  BY <1>2

(* A new connection has collected nothing.                                 *)
LEMMA TextKeptInit == Init => AtLine /\ TextKept
  BY DataLimitAssumption DEF Init, AtLine, TextKept, OverLimit

(* Every variable keeps its type whatever the client sends, however reads  *)
(* are cut and wherever wake_data runs (channel.py, smtpd.py).             *)
THEOREM TypeCorrect == Spec => []TypeOK
<1> DEFINE TInv == TypeOK /\ AtLine /\ TextKept
<1>1. Init => TInv
  BY TypeInit, TextKeptInit
<1>2. TInv /\ [Next]_vars => TInv'
  BY TypeStep, AtLineStep, TextKeptStep
<1>3. QED
  BY <1>1, <1>2, PTL DEF Spec

----------------------------------------------------------------------------
(* Safety. *)

(* What Calm says nothing of may change as it likes.                       *)
LEMMA CalmStutter ==
    ASSUME Calm,
           UNCHANGED <<smtp_state, mailfrom, rcpttos, seen_greeting, handler, args, jobs,
                       waking, ahead>>
    PROVE  Calm'
  BY DEF Calm

(* A command is obeyed when nothing is to be reset: what a wake-up found   *)
(* in DATA state it also leaves there (found_terminator, wake_data).       *)
LEMMA CalmCommand ==
    ASSUME TypeOK, Calm, ~ahead, smtp_state = "COMMAND"
    PROVE  jobs = <<>> /\ waking = 0
  BY DEF Calm, TypeOK

(* Every step keeps what holds until a message ends ahead of its turn: in  *)
(* the middle of a handler nothing can be reset (channel.py, smtpd.py).    *)
LEMMA CalmStep == TypeOK /\ TypeOK' /\ Calm /\ [Next]_vars => Calm'
<1> USE DEF transaction, greeting, input, within, callbacks, work, history, link, wire
<1>2. ASSUME TypeOK, TypeOK', Calm, [Next]_vars
      PROVE  Calm'
  <2>1. CASE Greet \/ Rset \/ StartTls
    <3>1. /\ SetPostDataState /\ smtp_state = "COMMAND"
          /\ handler = "none" /\ handler' = "none"
          /\ UNCHANGED <<jobs, waking, ahead, args>>
      BY <2>1 DEF Greet, Rset, StartTls, Command, AtCommand, Turn, SetRsetState
    <3>2. QED
      BY <1>2, <3>1, CalmCommand DEF Calm, SetPostDataState
  <2>2. CASE Mail
    <3>1. CASE Answer("5xx") \/ UNCHANGED mailfrom
      BY <1>2, <2>2, <3>1, CalmStutter DEF Mail, Command, Answer
    <3>2. CASE ~MailRefused(Head(ac_in_buffer)) /\ mailfrom' # mailfrom
      <4>1. /\ mailfrom = None /\ seen_greeting
            /\ smtp_state = "COMMAND" /\ handler = "none" /\ handler' = "none"
            /\ UNCHANGED <<smtp_state, rcpttos, seen_greeting, jobs, waking, ahead, args>>
        BY <2>2, <3>2 DEF Mail, Command, AtCommand, Turn, MailRefused, Answer
      <4>2. QED
        BY <1>2, <3>2, <4>1, CalmCommand DEF Calm
    <3>3. QED
      BY <2>2, <3>1, <3>2 DEF Mail
  <2>3. CASE RcptRefused \/ DataRefused \/ Quit \/ StartTlsRefused \/ Noop \/ Bad
    BY <1>2, <2>3, CalmStutter
    DEF RcptRefused, DataRefused, Quit, StartTlsRefused, Noop, Bad, Answer, Command
  <2>4. CASE RcptCheck
    <3>1. /\ smtp_state = "COMMAND" /\ mailfrom # None /\ handler' = "rcpt"
          /\ UNCHANGED <<transaction, greeting, args, work, ahead>>
      BY <2>4 DEF RcptCheck, AtCommand, RcptAccepted
    <3>2. QED
      BY <1>2, <3>1, CalmCommand DEF Calm
  <2>5. CASE Rcpt
    <3>1. /\ handler = "rcpt" /\ handler' = "none"
          /\ UNCHANGED <<smtp_state, mailfrom, greeting, args, work, ahead>>
          /\ rcpttos' = Append(rcpttos, Head(ac_in_buffer).arg)
      BY <2>5 DEF Rcpt, Resume
    <3>2. CASE ~ahead
      <4>1. mailfrom # None
        BY <1>2, <3>1, <3>2 DEF Calm
      <4>2. smtp_state = "DATA" => rcpttos' # <<>>
        <5>1. smtp_state = "DATA" => rcpttos # <<>>
          BY <1>2, <3>2 DEF Calm
        <5>2. rcpttos \in Seq(Address) /\ rcpttos' \in Seq(Address)
          BY <1>2 DEF TypeOK
        <5>3. smtp_state = "DATA" => Len(rcpttos') # 0
          BY <3>1, <5>1, <5>2, EmptySeq, LenProperties
        <5>4. QED
          BY <5>2, <5>3, EmptySeq
      <4>3. QED
        BY <1>2, <3>1, <3>2, <4>1, <4>2 DEF Calm
    <3>3. CASE ahead
      BY <3>1, <3>3 DEF Calm
    <3>4. QED
      BY <3>2, <3>3
  <2>6. CASE DataCheck
    <3>1. /\ smtp_state = "COMMAND" /\ rcpttos # <<>> /\ handler' = "data"
          /\ UNCHANGED <<transaction, greeting, args, work, ahead>>
      BY <2>6 DEF DataCheck, AtCommand, DataAccepted
    <3>2. QED
      BY <1>2, <3>1, CalmCommand DEF Calm
  <2>7. CASE Data
    <3>1. /\ handler = "data" /\ handler' = "none" /\ smtp_state' = "DATA"
          /\ UNCHANGED <<mailfrom, rcpttos, greeting, args, work, ahead>>
      BY <2>7 DEF Data, Resume
    <3>2. QED
      BY <1>2, <3>1 DEF Calm
  <2>8. CASE StartTlsBroken \/ Garbage
    BY <1>2, <2>8, CalmStutter DEF StartTlsBroken, Garbage, Abort
  <2>9. CASE Collect
    BY <1>2, <2>9, CalmStutter DEF Collect
  <2>10. CASE Mark
    <3>1. /\ smtp_state = "DATA" /\ handler' = "mark"
          /\ ahead' = (ahead \/ jobs # <<>> \/ waking > 0)
          /\ UNCHANGED <<smtp_state, mailfrom, rcpttos, greeting, args, work>>
      BY <2>10 DEF Mark
    <3>2. QED
      BY <1>2, <3>1 DEF Calm
  <2>11. CASE NoCommand \/ InData
    <3>1. /\ handler \in {"mark", "text"} /\ handler' \in {"text", "message"}
          /\ UNCHANGED <<transaction, greeting, args, work, ahead>>
      BY <2>11 DEF NoCommand, InData
    <3>2. QED
      BY <1>2, <3>1 DEF Calm
  <2>12. CASE Confused \/ DataTooLarge
    <3>1. /\ handler' = "none"
          /\ UNCHANGED <<smtp_state, mailfrom, rcpttos, greeting, args, work, ahead>>
      BY <2>12 DEF Confused, DataTooLarge, Conclude, Resume
    <3>2. QED
      BY <1>2, <3>1 DEF Calm
  <2>13. CASE MakeJob
    <3>1. /\ handler = "message" /\ handler' = "job"
          /\ args'.from = mailfrom /\ args'.to = rcpttos
          /\ UNCHANGED <<transaction, greeting, work, ahead>>
      BY <2>13 DEF MakeJob
    <3>2. QED
      BY <1>2, <3>1 DEF Calm
  <2>14. CASE Sleep
    <3>1. /\ handler = "job" /\ handler' = "none"
          /\ jobs' = Append(jobs, args)
          /\ UNCHANGED <<transaction, greeting, waking, ahead>>
          /\ jobs \in Seq(Job) /\ args \in Job
      BY <1>2, <2>14 DEF Sleep, Conclude, Resume, TypeOK
    <3>2. CASE ~ahead
      <4>1. /\ smtp_state = "DATA" /\ args.from # None /\ args.to # <<>>
            /\ jobs = <<>> /\ waking = 0
        BY <1>2, <3>1, <3>2 DEF Calm, TypeOK
      <4>2. /\ \A k \in DOMAIN jobs' : jobs'[k].from # None /\ jobs'[k].to # <<>>
            /\ Len(jobs') = 1
        BY <3>1, <4>1, AppendSplit
      <4>3. QED
        BY <1>2, <3>1, <4>1, <4>2 DEF Calm
    <3>3. QED
      BY <3>1, <3>2 DEF Calm
  <2>15. CASE ReadHeldBack \/ Recv \/ RecvEof \/ CloseWhenDone \/ HandshakeDone
              \/ HandshakeFail \/ CollectPart \/ Complete
    BY <1>2, <2>15, CalmStutter
    DEF ReadHeldBack, Recv, RecvEof, CloseWhenDone, HandshakeDone, HandshakeFail,
        CollectPart, Complete
  <2>16. CASE ReadAsCommand
    <3>1. /\ handler = "mark" /\ smtp_state # "DATA" /\ handler' = "none"
          /\ UNCHANGED <<transaction, greeting, args, work, ahead>>
      BY <2>16 DEF ReadAsCommand
    <3>2. QED
      BY <1>2, <3>1 DEF Calm
  <2>17. CASE Wake
    <3>1. PICK k \in DOMAIN jobs : jobs' = RemoveAt(jobs, k)
      BY <2>17 DEF Wake
    <3>2. /\ waking' = waking + 1
          /\ UNCHANGED <<transaction, greeting, handler, args, ahead>>
          /\ jobs \in Seq(Job) /\ waking \in Nat
      BY <1>2, <2>17 DEF Wake, TypeOK
    <3>3. /\ \A n \in DOMAIN jobs' : \E m \in DOMAIN jobs : jobs'[n] = jobs[m]
          /\ Len(jobs') = Len(jobs) - 1
          /\ jobs # <<>>
      BY <3>1, <3>2, RemoveAtType, EmptySeq
    <3>4. CASE ~ahead
      <4>1. smtp_state = "DATA" /\ handler = "none"
        BY <1>2, <3>3, <3>4 DEF Calm
      <4>2. \A n \in DOMAIN jobs' : jobs'[n].from # None /\ jobs'[n].to # <<>>
        BY <1>2, <3>3, <3>4 DEF Calm
      <4>3. Len(jobs') + waking' <= 1
        <5>1. Len(jobs) \in Nat /\ Len(jobs) + waking <= 1
          BY <1>2, <3>2, <3>4, LenProperties DEF Calm
        <5>2. QED
          BY <3>2, <3>3, <5>1
      <4>4. QED
        BY <1>2, <3>2, <3>4, <4>1, <4>2, <4>3 DEF Calm
    <3>5. QED
      BY <3>2, <3>4 DEF Calm
  <2>18. CASE WakeReset
    <3>1. /\ waking > 0 /\ waking' = waking - 1 /\ waking \in Nat
          /\ SetPostDataState
          /\ UNCHANGED <<greeting, handler, args, jobs, ahead>>
          /\ jobs \in Seq(Job)
      BY <1>2, <2>18 DEF WakeReset, TypeOK
    <3>2. CASE ~ahead
      <4>1. handler = "none" /\ Len(jobs) + waking <= 1 /\ Len(jobs) \in Nat
        BY <1>2, <3>1, <3>2, LenProperties DEF Calm
      <4>2. jobs = <<>> /\ waking' = 0
        BY <3>1, <4>1, EmptySeq
      <4>3. Len(jobs') + waking' <= 1
        BY <3>1, <4>1
      <4>4. QED
        BY <1>2, <3>1, <3>2, <4>1, <4>2, <4>3 DEF Calm, SetPostDataState
    <3>3. QED
      BY <3>1, <3>2 DEF Calm
  <2>19. CASE WakePush
    BY <1>2, <2>19, CalmStutter DEF WakePush
  <2>20. CASE ClientSend \/ ClientRead \/ ClientClose
    BY <1>2, <2>20, CalmStutter DEF ClientSend, ClientRead, ClientClose, server
  <2>21. CASE UNCHANGED vars
    BY <1>2, <2>21, CalmStutter DEF vars
  <2>22. QED
    BY <1>2, <2>1, <2>2, <2>3, <2>4, <2>5, <2>6, <2>7, <2>8, <2>9, <2>10, <2>11, <2>12,
       <2>13, <2>14, <2>15, <2>16, <2>17, <2>18, <2>19, <2>20, <2>21
    DEF Next, MainLoop, WakeData, Rest
<1>3. QED
  BY <1>2

(* Whatever is pushed during the handshake closes the channel, and what    *)
(* pushes nothing finds the transaction empty: nothing begins in it        *)
(* (smtp_STARTTLS, push).                                                  *)
LEMMA ClearStep ==
    TypeOK /\ TypeOK' /\ AtLine /\ TextKept /\ Clear /\ [Next]_vars => Clear'
<1> USE DEF transaction, greeting, input, within, callbacks, work, history, link, wire
<1>2. ASSUME TypeOK, TypeOK', AtLine, TextKept, Clear, [Next]_vars
      PROVE  Clear'
  <2>0. {"220", "221", "250", "354", "5xx"} \subseteq Reply
    BY DEF Reply
  <2>1. ASSUME UNCHANGED <<smtp_state, mailfrom, rcpttos, require_SMTPUTF8, received_lines,
                           handler, tls>>,
               connected' => connected
        PROVE  Clear'
    BY <1>2, <2>1 DEF Clear, HandshakeClean
  <2>2. ASSUME NEW reply \in Reply, Push(reply), tls' = tls
        PROVE  Clear'
    <3>1. connected' => tls' # "handshake"
      BY <1>2, <2>2, PushType
    <3>2. QED
      BY <3>1 DEF Clear, HandshakeClean
  <2>3. CASE Greet \/ RcptRefused \/ DataRefused \/ Rset \/ Quit \/ Noop \/ Bad
             \/ StartTlsRefused \/ Rcpt \/ Data \/ Confused \/ DataTooLarge
    <3>1. \E reply \in Reply : Push(reply) /\ tls' = tls
      BY <2>0, <2>3
      DEF Greet, RcptRefused, DataRefused, Rset, Quit, Noop, Bad, StartTlsRefused, Rcpt,
          Data, Confused, DataTooLarge, Answer
    <3>2. QED
      BY <2>2, <3>1
  <2>4. CASE Mail
    <3>1. \E reply \in Reply : Push(reply) /\ tls' = tls
      BY <2>0, <2>4 DEF Mail, Answer
    <3>2. QED
      BY <2>2, <3>1
  <2>5. CASE StartTls
    <3>1. SetRsetState /\ handler' = "none"
      BY <2>5 DEF StartTls, Command, AtCommand, Turn
    <3>2. QED
      BY <3>1 DEF SetRsetState, SetPostDataState, Clear, HandshakeClean
  <2>6. CASE RcptCheck \/ DataCheck
    <3>1. /\ mailfrom # None \/ rcpttos # <<>>
          /\ UNCHANGED <<transaction, link>>
      BY <2>6 DEF RcptCheck, DataCheck, RcptAccepted, DataAccepted
    <3>2. QED
      BY <1>2, <3>1 DEF Clear, HandshakeClean
  <2>7. CASE StartTlsBroken \/ Garbage
    BY <2>1, <2>7 DEF StartTlsBroken, Garbage, Abort
  <2>8. CASE Collect \/ Mark
    <3>1. smtp_state = "DATA" /\ UNCHANGED <<smtp_state, link>>
      BY <2>8 DEF Collect, Mark
    <3>2. QED
      BY <1>2, <3>1 DEF Clear, HandshakeClean
  <2>9. CASE NoCommand \/ InData \/ MakeJob \/ Sleep \/ ReadAsCommand
    <3>1. handler # "none" /\ UNCHANGED link
      BY <2>9 DEF NoCommand, InData, MakeJob, Sleep, Conclude, Resume, ReadAsCommand
    <3>2. QED
      BY <1>2, <3>1 DEF Clear, HandshakeClean
  <2>10. CASE ReadHeldBack \/ Complete
    <3>1. received_lines' = <<>> /\ UNCHANGED <<transaction, handler, link>>
      BY <2>10 DEF ReadHeldBack, Complete, Fuse
    <3>2. QED
      BY <1>2, <3>1 DEF Clear, HandshakeClean
  <2>11. CASE CollectPart
    <3>1. /\ received_lines' = Append(received_lines, Head(ac_in_buffer))
          /\ Head(ac_in_buffer).verb = "PART"
          /\ UNCHANGED <<transaction, handler, link>>
      BY <2>11 DEF CollectPart
    <3>2. received_lines \in Seq(Line) /\ Head(ac_in_buffer) \in Line
      BY <1>2, <2>11, HeadType DEF CollectPart, Turn, LoopIdle, TypeOK
    <3>3. \A i \in DOMAIN received_lines' :
             \/ received_lines'[i].verb = "PART"
             \/ i \in DOMAIN received_lines /\ received_lines'[i] = received_lines[i]
      BY <3>1, <3>2, AppendSplit
    <3>4. QED
      BY <1>2, <3>1, <3>3 DEF Clear, HandshakeClean
  <2>12. CASE Recv
    BY <2>1, <2>12 DEF Recv
  <2>13. CASE RecvEof
    BY <2>13 DEF RecvEof, Clear, HandshakeClean
  <2>14. CASE CloseWhenDone \/ HandshakeFail
    BY <2>1, <2>14 DEF CloseWhenDone, HandshakeFail
  <2>15. CASE HandshakeDone
    BY <2>15 DEF HandshakeDone, Clear, HandshakeClean
  <2>16. CASE Wake
    BY <2>1, <2>16 DEF Wake
  <2>17. CASE WakeReset
    BY <1>2, <2>17 DEF WakeReset, SetPostDataState, Clear, HandshakeClean
  <2>18. CASE WakePush
    <3>1. connected' => connected
      BY <1>2, <2>18, WakePushType
    <3>2. QED
      BY <2>1, <2>18, <3>1 DEF WakePush
  <2>19. CASE ClientSend \/ ClientRead \/ ClientClose
    BY <2>1, <2>19 DEF ClientSend, ClientRead, ClientClose, server
  <2>20. CASE UNCHANGED vars
    BY <2>1, <2>20 DEF vars
  <2>21. QED
    BY <1>2, <2>3, <2>4, <2>5, <2>6, <2>7, <2>8, <2>9, <2>10, <2>11, <2>12, <2>13,
       <2>14, <2>15, <2>16, <2>17, <2>18, <2>19, <2>20
    DEF Next, MainLoop, WakeData, Rest
<1>3. QED
  BY <1>2

(* The flag is set with a future and cleared by any (sleep, wake_data).    *)
LEMMA BackgroundStep == TypeOK /\ BackgroundHasJob /\ [Next]_vars => BackgroundHasJob'
<1> USE DEF transaction, greeting, input, within, callbacks, work, history, link, wire
<1>2. ASSUME TypeOK, BackgroundHasJob, [Next]_vars
      PROVE  BackgroundHasJob'
  <2>1. ASSUME UNCHANGED <<in_background, jobs>>
        PROVE  BackgroundHasJob'
    BY <1>2, <2>1 DEF BackgroundHasJob
  <2>2. CASE Sleep
    <3>1. jobs' = Append(jobs, args) /\ jobs \in Seq(Job) /\ args \in Job
      BY <1>2, <2>2 DEF Sleep, TypeOK
    <3>2. QED
      BY <3>1, AppendSplit DEF BackgroundHasJob
  <2>3. CASE Wake \/ HandshakeDone
    BY <2>3 DEF Wake, HandshakeDone, BackgroundHasJob
  <2>4. CASE Greet \/ Mail \/ RcptRefused \/ RcptCheck \/ Rcpt \/ DataRefused \/ DataCheck
             \/ Data \/ Rset \/ Quit \/ Noop \/ Bad \/ StartTls \/ StartTlsBroken
             \/ StartTlsRefused \/ Garbage
    BY <2>1, <2>4
    DEF Greet, Mail, RcptRefused, RcptCheck, Rcpt, DataRefused, DataCheck, Data, Rset, Quit,
        Noop, Bad, StartTls, StartTlsBroken, StartTlsRefused, Garbage, Answer, Abort
  <2>5. CASE Collect \/ Mark \/ NoCommand \/ Confused \/ InData \/ DataTooLarge \/ MakeJob
             \/ ReadHeldBack \/ ReadAsCommand \/ CollectPart \/ Complete \/ Recv \/ RecvEof
             \/ CloseWhenDone \/ HandshakeFail
    BY <2>1, <2>5
    DEF Collect, Mark, NoCommand, Confused, InData, DataTooLarge, MakeJob, ReadHeldBack,
        ReadAsCommand, CollectPart, Complete, Recv, RecvEof, CloseWhenDone, HandshakeFail
  <2>6. CASE WakeReset \/ WakePush \/ ClientSend \/ ClientRead \/ ClientClose \/ UNCHANGED vars
    BY <2>1, <2>6 DEF WakeReset, WakePush, ClientSend, ClientRead, ClientClose, server, vars
  <2>7. QED
    BY <1>2, <2>2, <2>3, <2>4, <2>5, <2>6 DEF Next, MainLoop, WakeData, Rest
<1>3. QED
  BY <1>2

(* A new connection has nothing that could be inconsistent.                *)
LEMMA SafeInit == Init => AtLine /\ Safe
<1>1. Init => AtLine /\ TextKept
  BY TextKeptInit
<1>2. Init => Calm
  BY DEF Init, Calm
<1>3. Init => Clear /\ BackgroundHasJob
  BY DEF Init, Clear, HandshakeClean, BackgroundHasJob
<1>4. QED
  BY <1>1, <1>2, <1>3 DEF Safe

(* The transaction, the futures, the handshake and the flag that makes the *)
(* channel deaf stay consistent, with wake_data between any two steps of a *)
(* handler and any number of futures (channel.py, smtpd.py).               *)
THEOREM SafeCorrect == Spec => []Safe
<1> DEFINE SInv == TypeOK /\ AtLine /\ Safe
<1>1. Init => SInv
  BY TypeInit, SafeInit
<1>2. SInv /\ [Next]_vars => SInv'
  BY TypeStep, AtLineStep, TextKeptStep, CalmStep, ClearStep, BackgroundStep DEF Safe
<1>3. SInv => Safe
  OBVIOUS
<1>4. QED
  BY <1>1, <1>2, <1>3, PTL DEF Spec

(* No message text without recipients, no recipients without a sender, as  *)
(* long as no message ends while another is to be reset; only then can     *)
(* wake_data come between a test and what rests on it (smtp_RCPT,          *)
(* smtp_DATA, wake_data).                                                  *)
THEOREM EnvelopeOrderHolds == Spec => []EnvelopeOrder
<1>1. Safe => EnvelopeOrder
  BY DEF Safe, Calm, EnvelopeOrder
<1>2. QED
  BY <1>1, SafeCorrect, PTL

(* process_message always gets a text, and under the same condition sender *)
(* and recipients (found_terminator, sleep, wake_data).                    *)
THEOREM JobsCompleteHolds == Spec => []JobsComplete
<1>1. Safe => JobsComplete
  BY DEF Safe, Calm, TextKept, JobsComplete
<1>2. QED
  BY <1>1, SafeCorrect, PTL

(* A channel that does not listen has a future that will wake it (sleep,   *)
(* wake_data).                                                             *)
THEOREM BackgroundHasJobHolds == Spec => []BackgroundHasJob
<1>1. Safe => BackgroundHasJob
  BY DEF Safe
<1>2. QED
  BY <1>1, SafeCorrect, PTL

(* No transaction and no complete line from before the handshake goes into *)
(* TLS; the beginning of a line may (smtp_STARTTLS, replace_connection).   *)
THEOREM HandshakeCleanHolds == Spec => []HandshakeClean
<1>1. Safe => HandshakeClean
  BY DEF Safe, Clear
<1>2. QED
  BY <1>1, SafeCorrect, PTL

=============================================================================
