--------------------------- MODULE ProcessMessage ---------------------------
(***************************************************************************)
(* EEHd.process_message (EEHlib/__init__.py), run by a worker thread for   *)
(* one message: check and resolve every recipient, deliver to the local    *)
(* mailboxes, pass the rest on to the mail exchangers of their domains,    *)
(* and return one status for all of it.  User driver, delivery backend,    *)
(* DNS and remote servers answer as they please; an exception ends the     *)
(* call and becomes 554 in wake_data.                                      *)
(***************************************************************************)
EXTENDS Naturals, Sequences, FiniteSets, Functions

CONSTANTS
    Name,         \* local parts
    Domain,       \* the domains EEH is responsible for
    Foreign,      \* other domains
    NoHost,       \* an address without a host, as the List driver gives
    CheckDomains, \* "Allow defined domains only"
    Malformed,    \* a recipient that is not an address
    None,         \* Python's None
    Messages,     \* the recipient lists to consider
    Directories,  \* what a user driver may hold
    MaxExchanges  \* bound on the exchangers of a domain

Host == Domain \cup Foreign
Recipient == [user : Name, host : Host] \cup {Malformed}
User == [user : Name, host : Host \cup {NoHost}]

\* resolve_user: the List driver gives the name back, LDAP expands mailing
\* lists and gives None for a name it does not know.
Directory == [Name -> Seq(User) \cup {None}]

ASSUME HostAssumption == Domain \cap Foreign = {} /\ NoHost \notin Host
ASSUME MalformedAssumption == Malformed \notin [user : Name, host : Host]
ASSUME MessagesAssumption == Messages \subseteq Seq(Recipient) \ {<<>>}
ASSUME DirectoriesAssumption == Directories \subseteq Directory
ASSUME FlagAssumption == CheckDomains \in BOOLEAN /\ MaxExchanges \in Nat

\* What the channel sends: 250 for None, "554" for an exception.
Status == {"250", "501", "551", "550", "554"}

ASSUME NoneAssumption == None \notin Seq(User) /\ None \notin Status

VARIABLES
    recipients, directory,    \* the arguments, the user database
    pc,                       \* where process_message is
    todo,                     \* recipients not done with
    results,                  \* what the first of them resolved to, not done with
    internal_users,           \* dict: resolved user to domain
    external_users,           \* list of addresses elsewhere
    unvisited,                \* keys the delivery loop has not come to
    outbox,                   \* external_users the loop has not done with
    exchanges,                \* exchangers left to try for the first of them
    success_count, failure_count,
    status,                   \* what the channel hears
    mailboxes, sent           \* what was delivered here, accepted elsewhere

input   == <<recipients, directory>>
users   == <<internal_users, external_users>>
loops   == <<unvisited, outbox, exchanges>>
counts  == <<success_count, failure_count>>
effects == <<mailboxes, sent>>
vars    == <<input, pc, todo, results, users, loops, counts, status, effects>>

TypeOK ==
    /\ recipients \in Seq(Recipient) \ {<<>>}
    /\ directory \in Directory
    /\ pc \in {"check", "resolve", "results", "internal", "external", "exchange", "done"}
    /\ todo \in Seq(Recipient)
    /\ results \in Seq(User)
    /\ DOMAIN internal_users \subseteq User
    /\ \A u \in DOMAIN internal_users : internal_users[u] \in Host
    /\ external_users \in Seq(User)
    /\ unvisited \subseteq DOMAIN internal_users
    /\ outbox \in Seq(User)
    /\ exchanges \in Nat
    /\ success_count \in Nat
    /\ failure_count \in Nat
    /\ status \in Status \cup {None}
    /\ mailboxes \in Seq(User \X Host)
    /\ sent \in Seq(User)

Init ==
    /\ recipients \in Messages
    /\ directory \in Directories
    /\ pc = "check"
    /\ todo = recipients
    /\ results = <<>>
    /\ internal_users = <<>>
    /\ external_users = <<>>
    /\ unvisited = {}
    /\ outbox = <<>>
    /\ exchanges = 0
    /\ success_count = 0
    /\ failure_count = 0
    /\ status = None
    /\ mailboxes = <<>>
    /\ sent = <<>>

----------------------------------------------------------------------------

Return(answer) == pc' = "done" /\ status' = answer

\* An exception that process_message does not catch.
Raise ==
    /\ Return("554")
    /\ UNCHANGED <<input, todo, results, users, loops, counts, effects>>

\* rbl_checker.validate: the client is on a block list, or DNS fails.
Blocked == pc = "check" /\ Raise

Unblocked ==
    /\ pc = "check"
    /\ pc' = "resolve"
    /\ UNCHANGED <<input, todo, results, users, loops, counts, status, effects>>

\* The address is not an address, or not one of ours.
Refused(recipient) ==
    IF recipient = Malformed THEN "501"
    ELSE IF CheckDomains /\ recipient.host \notin Domain THEN "551" ELSE None

Refuse ==
    /\ pc = "resolve"
    /\ todo # <<>>
    /\ Refused(Head(todo)) # None
    /\ Return(Refused(Head(todo)))
    /\ UNCHANGED <<input, todo, results, users, loops, counts, effects>>

\* A resolved user whose mail is passed on.
External(user) == CheckDomains /\ user.host \notin Domain \cup {NoHost}

\* The keys of internal_users and the domain each is given.
Mailbox(user, host) == IF user.host = NoHost THEN host ELSE user.host

\* resolve_user
Resolve ==
    /\ pc = "resolve"
    /\ todo # <<>>
    /\ Refused(Head(todo)) = None
    /\ directory[Head(todo).user] # None
    /\ results' = directory[Head(todo).user]
    /\ pc' = "results"
    /\ UNCHANGED <<input, todo, users, loops, counts, status, effects>>

\* Mutant: a key that is already in the dict keeps its domain.
InternalSetDefault ==
    /\ pc = "results"
    /\ results # <<>>
    /\ ~External(Head(results))
    /\ internal_users' =
          [u \in DOMAIN internal_users \cup {Head(results)} |->
              IF u \in DOMAIN internal_users THEN internal_users[u]
                                             ELSE Mailbox(u, Head(todo).host)]
    /\ results' = Tail(results)
    /\ UNCHANGED <<input, pc, todo, external_users, loops, counts, status, effects>>

\* Mutant: a mailbox is served as soon as it is known.
InternalDelivered ==
    /\ pc = "results"
    /\ results # <<>>
    /\ ~External(Head(results))
    /\ mailboxes' = Append(mailboxes, <<Head(results), Mailbox(Head(results), Head(todo).host)>>)
    /\ results' = Tail(results)
    /\ UNCHANGED <<input, pc, todo, users, loops, counts, status, sent>>

\* A result that is served here; assigning to a key that is already in the
\* dict replaces its domain.
Internal ==
    /\ pc = "results"
    /\ results # <<>>
    /\ ~External(Head(results))
    /\ internal_users' =
          [u \in DOMAIN internal_users \cup {Head(results)} |->
              IF u = Head(results) THEN Mailbox(u, Head(todo).host) ELSE internal_users[u]]
    /\ results' = Tail(results)
    /\ UNCHANGED <<input, pc, todo, external_users, loops, counts, status, effects>>

\* A result that is served elsewhere.
Outgoing ==
    /\ pc = "results"
    /\ results # <<>>
    /\ External(Head(results))
    /\ external_users' = Append(external_users, Head(results))
    /\ results' = Tail(results)
    /\ UNCHANGED <<input, pc, todo, internal_users, loops, counts, status, effects>>

NextRecipient ==
    /\ pc = "results"
    /\ results = <<>>
    /\ todo' = Tail(todo)
    /\ pc' = "resolve"
    /\ UNCHANGED <<input, results, users, loops, counts, status, effects>>

\* The driver has None, or raises.
ResolveFails ==
    /\ pc = "resolve"
    /\ todo # <<>>
    /\ Refused(Head(todo)) = None
    /\ Raise

\* Nobody at all.
NoUsers ==
    /\ pc = "resolve"
    /\ todo = <<>>
    /\ DOMAIN internal_users = {} /\ external_users = <<>>
    /\ Return("550")
    /\ UNCHANGED <<input, todo, results, users, loops, counts, effects>>

\* message_from_bytes raises: data is text where "smtputf8" is off.
NotBytes ==
    /\ pc = "resolve"
    /\ todo = <<>>
    /\ DOMAIN internal_users # {} \/ external_users # <<>>
    /\ Raise

\* Mutant: the loop over the mailboxes has the external addresses too.
StartDeliveryAll ==
    /\ pc = "resolve"
    /\ todo = <<>>
    /\ DOMAIN internal_users # {} \/ external_users # <<>>
    /\ pc' = "internal"
    /\ unvisited' = DOMAIN internal_users \cup Range(external_users)
    /\ outbox' = external_users
    /\ UNCHANGED <<input, todo, results, users, exchanges, counts, status, effects>>

StartDelivery ==
    /\ pc = "resolve"
    /\ todo = <<>>
    /\ DOMAIN internal_users # {} \/ external_users # <<>>
    /\ pc' = "internal"
    /\ unvisited' = DOMAIN internal_users
    /\ outbox' = external_users
    /\ UNCHANGED <<input, todo, results, users, exchanges, counts, status, effects>>

\* Mutant: the loop does not move on.
DeliverAgain ==
    /\ pc = "internal"
    /\ \E u \in unvisited :
          /\ mailboxes' = Append(mailboxes, <<u, internal_users[u]>>)
          /\ success_count' = success_count + 1
          /\ unvisited' \in {unvisited, unvisited \ {u}}
    /\ Len(mailboxes) < 4
    /\ UNCHANGED <<input, pc, todo, results, users, outbox, exchanges, failure_count, status, sent>>

\* One turn of the loop over internal_users: deliver to an accepted user, or
\* count a failure.
Deliver ==
    /\ pc = "internal"
    /\ \E u \in unvisited :
          /\ unvisited' = unvisited \ {u}
          /\ \/ /\ mailboxes' = Append(mailboxes, <<u, internal_users[u]>>)
                /\ success_count' = success_count + 1
                /\ UNCHANGED failure_count
             \/ /\ failure_count' = failure_count + 1
                /\ UNCHANGED <<mailboxes, success_count>>
    /\ UNCHANGED <<input, pc, todo, results, users, outbox, exchanges, status, sent>>

\* is_accepted_user or deliver raises.
DeliverRaises == pc = "internal" /\ unvisited # {} /\ Raise

DeliverDone ==
    /\ pc = "internal"
    /\ unvisited = {}
    /\ pc' = "external"
    /\ UNCHANGED <<input, todo, results, users, loops, counts, status, effects>>

\* The MX records of the next external address, or the address of its host.
LookUp ==
    /\ pc = "external"
    /\ outbox # <<>>
    /\ exchanges' \in 1 .. MaxExchanges
    /\ pc' = "exchange"
    /\ UNCHANGED <<input, todo, results, users, unvisited, outbox, counts, status, effects>>

\* Neither of them.
NoExchange ==
    /\ pc = "external"
    /\ outbox # <<>>
    /\ failure_count' = failure_count + 1
    /\ outbox' = Tail(outbox)
    /\ UNCHANGED <<input, pc, todo, results, users, unvisited, exchanges, success_count, status, effects>>

\* dns.resolver raises anything but NoAnswer: NXDOMAIN, Timeout ...
LookUpRaises == pc = "external" /\ outbox # <<>> /\ Raise

\* The exchanger takes the message.
ExchangeAccepts ==
    /\ pc = "exchange"
    /\ exchanges > 0
    /\ sent' = Append(sent, Head(outbox))
    /\ outbox' = Tail(outbox)
    /\ pc' = "external"
    /\ UNCHANGED <<input, todo, results, users, unvisited, exchanges, counts, status, mailboxes>>

\* Mutant: after the last exchanger the first again.
ExchangeWraps ==
    /\ pc = "exchange"
    /\ exchanges > 0
    /\ exchanges' = IF exchanges > 1 THEN exchanges - 1 ELSE MaxExchanges
    /\ UNCHANGED <<input, pc, todo, results, users, unvisited, outbox, counts, status, effects>>

\* The connection breaks, perhaps after the exchanger took the message: on to
\* the next one.
ExchangeBreaks ==
    /\ pc = "exchange"
    /\ exchanges > 0
    /\ exchanges' = exchanges - 1
    /\ sent' \in {sent, Append(sent, Head(outbox))}
    /\ UNCHANGED <<input, pc, todo, results, users, unvisited, outbox, counts, status, mailboxes>>

\* An error with arguments that are not strings, such as a refusal or a
\* connection refused: " ".join(e.args) raises in the handler.
ExchangeRaises == pc = "exchange" /\ exchanges > 0 /\ Raise

\* Every exchanger failed.
ExchangesFail ==
    /\ pc = "exchange"
    /\ exchanges = 0
    /\ failure_count' = failure_count + 1
    /\ outbox' = Tail(outbox)
    /\ pc' = "external"
    /\ UNCHANGED <<input, todo, results, users, unvisited, exchanges, success_count, status, effects>>

\* 250 only if nothing failed.
Answer ==
    /\ pc = "external"
    /\ outbox = <<>>
    /\ Return(IF failure_count # 0 THEN "550" ELSE "250")
    /\ UNCHANGED <<input, todo, results, users, loops, counts, effects>>

Step ==
    \/ Blocked \/ Unblocked
    \/ Refuse \/ Resolve \/ Internal \/ Outgoing \/ NextRecipient \/ ResolveFails \/ NoUsers
    \/ NotBytes \/ StartDelivery
    \/ Deliver \/ DeliverRaises \/ DeliverDone
    \/ LookUp \/ NoExchange \/ LookUpRaises
    \/ ExchangeAccepts \/ ExchangeBreaks \/ ExchangeRaises \/ ExchangesFail
    \/ Answer

\* process_message has returned.
Rest == pc = "done" /\ UNCHANGED vars

Next == Step \/ Rest

Spec == Init /\ [][Next]_vars

\* The worker runs, and what it calls returns or raises.
FairSpec == Spec /\ WF_vars(Step)

----------------------------------------------------------------------------
(* Properties. *)

Passed(user) == user \in Range(sent)

\* user's mailbox has the message, in the domain of a recipient that stands
\* for him and is not before the i-th: a name that two recipients resolve to
\* is one key of internal_users, and the last of them gives the domain.
Served(user, i) ==
    \E j \in i .. Len(recipients) :
        /\ user \in Range(directory[recipients[j].user])
        /\ <<user, Mailbox(user, recipients[j].host)>> \in Range(mailboxes)

\* 250 is a promise: everybody a recipient stands for has the message, at an
\* exchanger of his or in his mailbox in that recipient's domain, unless a
\* later recipient of the same name sends it to a mailbox of another domain
\* (internal_users, failure_count, _break, for ... else).
AcceptedDelivered ==
    status = "250" =>
        \A i \in DOMAIN recipients :
            /\ directory[recipients[i].user] # None
            /\ \A u \in Range(directory[recipients[i].user]) :
                  IF External(u) THEN Passed(u) ELSE Served(u, i)

\* "It's safe to fail here": one bad recipient, even the last, refuses the
\* message before anybody got it (the loop over recipients).
RefusedUndelivered ==
    status \in {"501", "551"} => mailboxes = <<>> /\ sent = <<>>

\* However often a user is named, in recipients and lists, no mailbox gets
\* the message twice, and none that no recipient stands for gets it
\* (internal_users).
OnceEach ==
    /\ \A j, k \in DOMAIN mailboxes : mailboxes[j] = mailboxes[k] => j = k
    /\ \A k \in DOMAIN mailboxes : \E i \in DOMAIN recipients :
          LET found == directory[recipients[i].user]
          IN  /\ found # None
              /\ mailboxes[k][1] \in Range(found)
              /\ mailboxes[k][2] = Mailbox(mailboxes[k][1], recipients[i].host)

\* The client gets a status whatever drivers, DNS and exchangers answer.
Returns == <>(status # None)

=============================================================================
