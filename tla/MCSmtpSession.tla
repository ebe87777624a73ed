--------------------------- MODULE MCSmtpSession ---------------------------
(* Instances of SmtpSession. *)
EXTENDS SmtpSession

CONSTANTS alice, bob, hello, bye

MailTo(verb, who, params) == [verb |-> verb, arg |-> who, params |-> params]

\* Two addresses and two lines of text, so that order and mixing show.
SessionLines ==
    {Bare(verb) : verb \in {"HELO", "EHLO", "DATA", "RSET", "QUIT", "STARTTLS", "NOOP", "BAD"}}
    \cup {MailTo("MAIL", who, {}) : who \in {alice, bob}}
    \cup {MailTo("MAIL", alice, Params), MailTo("MAIL", bob, {"SMTPUTF8"})}
    \cup {MailTo("RCPT", who, {}) : who \in {alice, bob}}
    \cup {MailTo("RCPT", alice, {"REFUSED"})}
    \cup {[verb |-> "TEXT", arg |-> t, params |-> {}] : t \in {hello, bye}}

\* The session's client bounds itself.
NoBound == [line \in SessionLines |-> 0]

=============================================================================
