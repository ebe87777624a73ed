----------------------------- MODULE BlockLists -----------------------------
(***************************************************************************)
(* The check of a client against the block lists (EEHlib/spam/RBL.py):     *)
(* one list after the other is asked for an A record of the client's       *)
(* reversed address, and for its text if there is one; what process_message*)
(* then answers.  The queries are those of module Resolver; the name       *)
(* servers tell the truth or fail.                                         *)
(***************************************************************************)
EXTENDS Resolver

CONSTANT Lists    \* how many lists are configured

ASSUME ListsAssumption == Lists \in Nat

VARIABLES
    zone,       \* what there is under each name of each list
    list,       \* the list that is asked
    rdtype,     \* "A" or "TXT"
    timedout,   \* lists that were skipped
    spent,      \* time spent with queries that have ended
    status      \* of the message, so far

checkVars == <<zone, list, rdtype, timedout, spent, status>>
vars == <<queryVars, checkVars>>

Record == {"record", "other records", "nothing"}

TypeOK ==
    /\ QueryTypeOK
    /\ zone \in [1 .. Lists -> [1 .. Names -> Record]]
    /\ list \in 1 .. Lists + 1
    /\ rdtype \in {"A", "TXT"}
    /\ timedout \subseteq 1 .. Lists
    /\ spent \in Nat
    /\ status \in {"checking", "passed", "refused", "554"}

Init ==
    /\ zone \in [1 .. Lists -> [1 .. Names -> Record]]
    /\ list = 1
    /\ rdtype = "A"
    /\ timedout = {}
    /\ spent = 0
    /\ status = IF Lists = 0 THEN "passed" ELSE "checking"
    /\ query = "ask" /\ name = 1
    /\ servers = NameServers /\ turn = NameServers
    /\ elapsed = 0 /\ backoff = 1

----------------------------------------------------------------------------
(* The nameservers answer for the zone, or fail.  The text is under the    *)
(* name of the record, or is not.                                          *)

Here == zone[list][name]

Answers ==
    \/ Here = "record" /\ Found
    \/ Here = "record" /\ rdtype = "TXT" /\ NoneOfType
    \/ Here = "other records" /\ NoneOfType
    \/ Here = "nothing" /\ Absent

Ask ==
    /\ status = "checking"
    /\ \/ Answers \/ Truncated \/ Silent \/ Broken \/ TooLong
       \/ TimesOut \/ TcpTimesOut \/ NoServers \/ Sleep
    /\ UNCHANGED checkVars

----------------------------------------------------------------------------
(* validate, when a query has ended. *)

Ended(type, outcomes) == status = "checking" /\ rdtype = type /\ query \in outcomes

\* The loop goes on with the next list, or the client passes.
NextList ==
    /\ list' = list + 1
    /\ status' = IF list = Lists THEN "passed" ELSE status
    /\ spent' = spent + elapsed
    /\ Fresh
    /\ UNCHANGED <<zone, rdtype>>

Skip ==
    /\ Ended("A", {"Timeout"})
    /\ timedout' = timedout \cup {list}
    /\ NextList

NotListed ==
    /\ Ended("A", {"NXDOMAIN"})
    /\ NextList
    /\ UNCHANGED timedout

\* Mutant: every failure of a list is passed over.
SkipAll ==
    /\ Ended("A", {"NoAnswer", "YXDOMAIN", "NoNameservers"})
    /\ NextList
    /\ UNCHANGED timedout

\* The exception leaves validate and process_message: 554.
Raises ==
    /\ Ended("A", {"NoAnswer", "YXDOMAIN", "NoNameservers"})
    /\ status' = "554"
    /\ spent' = spent + elapsed
    /\ UNCHANGED <<queryVars, zone, list, rdtype, timedout>>

Listed ==
    /\ Ended("A", {"Answer"})
    /\ rdtype' = "TXT"
    /\ spent' = spent + elapsed
    /\ Fresh
    /\ UNCHANGED <<zone, list, timedout, status>>

\* With the text, or with "Unknown reason.": whatever became of the query.
Refuse ==
    /\ Ended("TXT", Outcome)
    /\ status' = "refused"
    /\ spent' = spent + elapsed
    /\ UNCHANGED <<queryVars, zone, list, rdtype, timedout>>

Done == status # "checking" /\ UNCHANGED vars

Next == Ask \/ Skip \/ NotListed \/ Raises \/ Listed \/ Refuse \/ Done

Spec == Init /\ [][Next]_vars

FairSpec == Spec /\ WF_vars(Next)

----------------------------------------------------------------------------
(* Properties. *)

\* A client is refused only if the list has a record for it, under the name
\* itself or, which is not meant, with a suffix of the search list; it passes
\* only the lists that have none under any name, and those that timed out
\* (validate, query).
Judged ==
    /\ status = "refused" => \E i \in 1 .. Names : zone[list][i] = "record"
    /\ \A l \in 1 .. Lists :
        l < list /\ l \notin timedout => \A i \in 1 .. Names : zone[l][i] = "nothing"

\* A query keeps to its lifetime, however many names, servers and rounds it
\* takes, and the check to that of its queries (_compute_timeout).
InTime ==
    /\ elapsed <= Lifetime
    /\ spent <= (Lists + 1) * Lifetime

\* Every check comes to an end.
Ends == <>(status # "checking")

=============================================================================
