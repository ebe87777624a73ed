--------------------------- MODULE MCSmtpChannel ---------------------------
(* Instances of SmtpChannel with an arbitrary client. *)
EXTENDS SmtpChannel

CONSTANTS alice, hello

MailLine(params) == [verb |-> "MAIL", arg |-> alice, params |-> params]
RcptLine == [verb |-> "RCPT", arg |-> alice, params |-> {}]
TextLine == [verb |-> "TEXT", arg |-> hello, params |-> {}]

\* A transaction, with lines behind its end that are held back, lines behind
\* STARTTLS and bytes that are not UTF-8.
Lines ==
    {Bare(verb) : verb \in {"HELO", "DATA", "DOT", "RSET", "NOOP", "QUIT", "STARTTLS",
                           "GARBAGE", "PART"}}
    \cup {MailLine({}), RcptLine, TextLine}

\* What may be under way when a line is sent: less for those that are not
\* needed behind a message.
Bound == [line \in Lines |->
    CASE line.verb \in {"TEXT", "DOT"} -> 4
      [] line.verb = "DATA" -> 3
      [] line.verb \in {"MAIL", "RCPT", "PART"} -> 2
      [] OTHER -> 1]

=============================================================================
