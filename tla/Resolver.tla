------------------------------ MODULE Resolver ------------------------------
(***************************************************************************)
(* dns.resolver.Resolver.query as EEH uses it (_vendor/dns/resolver.py):   *)
(* a name that is not absolute is tried as it is and then with each search *)
(* suffix; each try asks the nameservers in rounds, takes out those that   *)
(* are broken, sleeps between rounds, and all of it within one lifetime.   *)
(* Time is counted in ticks.  There is no cache and SERVFAIL counts as     *)
(* broken, as is the default.                                              *)
(***************************************************************************)
EXTENDS Naturals, Sequences, SequencesExt, FiniteSetsExt

CONSTANTS
    Server,          \* nameservers
    NameServers,     \* in the order of resolv.conf
    Names,           \* how many names a query tries: itself and the suffixes
    Lifetime,        \* of a query
    AttemptTime      \* of an attempt at one server (Resolver.timeout)

ASSUME ResolverAssumption ==
    /\ NameServers \in Seq(Server)
    /\ Names \in Nat \ {0}
    /\ Lifetime \in Nat /\ AttemptTime \in Nat

VARIABLES
    query,      \* "ask", "tcp", or how the query has ended
    name,       \* the name that is tried
    servers,    \* nameservers that are not broken
    turn,       \* those still to be asked in this round
    elapsed,    \* since the query began
    backoff

queryVars == <<query, name, servers, turn, elapsed, backoff>>

Running == {"ask", "tcp"}
Outcome == {"Answer", "NoAnswer", "NXDOMAIN", "YXDOMAIN", "Timeout", "NoNameservers"}

QueryTypeOK ==
    /\ query \in Running \cup Outcome
    /\ name \in 1 .. Names
    /\ servers \in Seq(Server)
    /\ turn \in Seq(Server)
    /\ elapsed \in Nat
    /\ backoff \in Nat \ {0}

\* The next query begins.
Fresh ==
    /\ query' = "ask"
    /\ name' = 1
    /\ servers' = NameServers
    /\ turn' = NameServers
    /\ elapsed' = 0
    /\ backoff' = 1

\* Mutant: an attempt takes its own time limit in any case.
AttemptTimeout == AttemptTime

\* _compute_timeout, while there is time.
Timeout == Min({Lifetime - elapsed, AttemptTime})

End(outcome) ==
    /\ query' = outcome
    /\ UNCHANGED <<name, servers, turn, backoff>>

\* _compute_timeout raises, before an attempt or before the sleep.
TimesOut ==
    /\ query = "ask"
    /\ turn # <<>> \/ servers # <<>>
    /\ elapsed >= Lifetime
    /\ End("Timeout")
    /\ UNCHANGED elapsed

\* Between the two transports it raises where it is caught: the server only
\* counts as silent.
TcpTimesOut ==
    /\ query = "tcp"
    /\ elapsed >= Lifetime
    /\ query' = "ask"
    /\ turn' = Tail(turn)
    /\ UNCHANGED <<name, servers, elapsed, backoff>>

\* An attempt at the next server takes its time.
Attempt ==
    /\ query \in Running
    /\ turn # <<>>
    /\ elapsed < Lifetime
    /\ \E d \in 0 .. Timeout : elapsed' = elapsed + d

\* UDP brings a truncated answer: the same server is asked with TCP.
Truncated ==
    /\ query = "ask"
    /\ Attempt
    /\ query' = "tcp"
    /\ UNCHANGED <<name, servers, turn, backoff>>

\* A socket error, no answer in time, or one of somebody else.
Silent ==
    /\ Attempt
    /\ query' = "ask"
    /\ turn' = Tail(turn)
    /\ UNCHANGED <<name, servers, backoff>>

\* An answer that cannot be read or has another rcode, or a hang-up: the
\* server is not asked again.
Broken ==
    /\ Attempt
    /\ query' = "ask"
    /\ servers' = RemoveFirst(servers, Head(turn))
    /\ turn' = Tail(turn)
    /\ UNCHANGED <<name, backoff>>

Found == Attempt /\ End("Answer")
NoneOfType == Attempt /\ End("NoAnswer")
TooLong == Attempt /\ End("YXDOMAIN")

\* Mutant: the last answer counts, whatever it says.
AbsentCounts ==
    /\ Attempt
    /\ IF name < Names
         THEN /\ query' = "ask" /\ name' = name + 1
              /\ servers' = NameServers /\ turn' = NameServers /\ backoff' = 1
         ELSE End("Answer")

\* The name does not exist: the next one is tried, in the same lifetime.
Absent ==
    /\ Attempt
    /\ IF name < Names
         THEN /\ query' = "ask" /\ name' = name + 1
              /\ servers' = NameServers /\ turn' = NameServers /\ backoff' = 1
         ELSE End("NXDOMAIN")

NoServers ==
    /\ query = "ask"
    /\ turn = <<>> /\ servers = <<>>
    /\ End("NoNameservers")
    /\ UNCHANGED elapsed

\* Mutant: the rounds follow each other at once.
SleepNot ==
    /\ query = "ask"
    /\ turn = <<>> /\ servers # <<>>
    /\ elapsed < Lifetime
    /\ turn' = servers
    /\ UNCHANGED <<query, name, servers, elapsed, backoff>>

\* Between two rounds, a little longer each time.
Sleep ==
    /\ query = "ask"
    /\ turn = <<>> /\ servers # <<>>
    /\ elapsed < Lifetime
    /\ elapsed' = elapsed + Min({Timeout, backoff})
    /\ backoff' = 2 * backoff
    /\ turn' = servers
    /\ UNCHANGED <<query, name, servers>>

=============================================================================
