----------------------------- MODULE LdapDriver -----------------------------
(***************************************************************************)
(* The user driver "LDAP" (EEHlib/users/ldap.py): resolve_user finds a     *)
(* user, or the members of a mailing list, whose members may be lists      *)
(* again, in a cycle or by several ways.  _recursive_search is a stack of  *)
(* calls that share one list, resolved; every search goes to the server    *)
(* and may fail.                                                           *)
(***************************************************************************)
EXTENDS Naturals, Sequences, SequencesExt

CONSTANTS
    Dn,           \* entries that are groups or their members
    Address,      \* mail addresses and user names
    None,
    Directories   \* what the server may hold

\* A directory: the entries there are, their members and mail attributes, and
\* the user that a name or address belongs to; a user's name is his own.
ASSUME DirectoryAssumption ==
    /\ None \notin Dn \cup Address
    /\ \A d \in Directories :
        /\ d.present \subseteq Dn
        /\ d.members \in [Dn -> Seq(Dn)]
        /\ d.mails \in [Dn -> Seq(Address)]
        /\ d.user \in [Address -> Address \cup {None}]
        /\ \A a \in Address : d.user[a] # None => d.user[d.user[a]] = d.user[a]

VARIABLES
    directory,
    asked,       \* resolve_user's argument
    group,       \* the entry the group query finds for it
    stack,       \* the calls of _recursive_search, innermost first
    resolved,    \* the list they share
    value,       \* what the last call returned
    outcome      \* how resolve_user ended

vars == <<directory, asked, group, stack, resolved, value, outcome>>
query == <<directory, asked, group>>

Frame == [dn : Dn, phase : {"search", "members", "mails"}, members : Seq(Dn),
          todo : Seq(Address), mails : Seq(Address)]

TypeOK ==
    /\ directory \in Directories
    /\ asked \in Address /\ group \in Dn \cup {None}
    /\ stack \in Seq(Frame)
    /\ resolved \in Seq(Dn)
    /\ value \in Seq(Address)
    /\ outcome \in {"lookup", "search", "expand", "returned", "nothing", "raised"}

Init ==
    /\ directory \in Directories
    /\ asked \in Address
    /\ group \in Dn \cup {None}
    /\ stack = <<>>
    /\ resolved = <<>>
    /\ value = <<>>
    /\ outcome = "lookup"

Call(dn) == [dn |-> dn, phase |-> "search", members |-> <<>>, todo |-> <<>>, mails |-> <<>>]

Top == Head(stack)
SetTop(frame) == stack' = <<frame>> \o Tail(stack)

----------------------------------------------------------------------------
(* resolve_user *)

LookupUser ==
    /\ outcome = "lookup"
    /\ IF directory.user[asked] # None
         THEN outcome' = "returned" /\ value' = <<directory.user[asked]>>
         ELSE outcome' = "search" /\ UNCHANGED value
    /\ UNCHANGED <<query, stack, resolved>>

\* Without a group resolve_user falls off its end.
SearchGroup ==
    /\ outcome = "search"
    /\ IF group \in directory.present
         THEN outcome' = "expand" /\ stack' = <<Call(group)>>
         ELSE outcome' = "nothing" /\ UNCHANGED stack
    /\ UNCHANGED <<query, resolved, value>>

----------------------------------------------------------------------------
(* _recursive_search *)

Expanding(phase) == outcome = "expand" /\ stack # <<>> /\ Top.phase = phase

\* The call returns a list: the caller adds it to its own, or resolve_user
\* returns it.
ReturnMails(list) ==
    /\ stack' = IF Len(stack) = 1 THEN <<>>
                ELSE <<[stack[2] EXCEPT !.mails = @ \o list]>> \o Tail(Tail(stack))
    /\ value' = list
    /\ outcome' = IF Len(stack) = 1 THEN "returned" ELSE outcome

\* A cycle, or a member of two lists.
AlreadyResolved ==
    /\ Expanding("search")
    /\ Contains(resolved, Top.dn)
    /\ ReturnMails(<<>>)
    /\ UNCHANGED <<query, resolved>>

\* Mutant: cycles are followed.
SearchAgain ==
    /\ Expanding("search")
    /\ Len(stack) < 6 /\ Top.dn \in directory.present
    /\ resolved' = Append(resolved, Top.dn)
    /\ SetTop([Top EXCEPT !.phase = "members", !.members = directory.members[Top.dn]])
    /\ UNCHANGED <<query, value, outcome>>

Search ==
    /\ Expanding("search")
    /\ ~Contains(resolved, Top.dn)
    /\ Top.dn \in directory.present
    /\ resolved' = Append(resolved, Top.dn)
    /\ SetTop([Top EXCEPT !.phase = "members", !.members = directory.members[Top.dn]])
    /\ UNCHANGED <<query, value, outcome>>

\* entries[0] of an empty answer, or a server that fails: whatever raises
\* leaves all calls.
Raises ==
    /\ outcome \in {"lookup", "search"} \/ Expanding("search") \/ Expanding("mails")
    /\ outcome' = "raised"
    /\ stack' = <<>>
    /\ UNCHANGED <<query, resolved, value>>

\* Mutant: the loop does not go on.
MemberRepeats ==
    /\ Expanding("members")
    /\ Top.members # <<>>
    /\ stack' = <<Call(Head(Top.members)), Top>> \o Tail(stack)
    /\ UNCHANGED <<query, resolved, value, outcome>>

Member ==
    /\ Expanding("members")
    /\ Top.members # <<>>
    /\ stack' = <<Call(Head(Top.members)), [Top EXCEPT !.members = Tail(@)]>> \o Tail(stack)
    /\ UNCHANGED <<query, resolved, value, outcome>>

MembersDone ==
    /\ Expanding("members")
    /\ Top.members = <<>>
    /\ SetTop([Top EXCEPT !.phase = "mails", !.todo = directory.mails[Top.dn]])
    /\ UNCHANGED <<query, resolved, value, outcome>>

\* Mutant: only users of the directory are added.
MailOfUsers ==
    /\ Expanding("mails")
    /\ Top.todo # <<>>
    /\ LET name == directory.user[Head(Top.todo)]
       IN  SetTop([Top EXCEPT !.todo = Tail(@),
                              !.mails = IF name = None THEN @ ELSE Append(@, name)])
    /\ UNCHANGED <<query, resolved, value, outcome>>

\* An address that is in the list already is not looked up; else its user's
\* name is added, or the address itself.
Mail ==
    /\ Expanding("mails")
    /\ Top.todo # <<>>
    /\ LET mail == Head(Top.todo)
           name == directory.user[mail]
       IN  SetTop([Top EXCEPT
                     !.todo = Tail(@),
                     !.mails = IF Contains(@, mail) THEN @
                               ELSE Append(@, IF name = None THEN mail ELSE name)])
    /\ UNCHANGED <<query, resolved, value, outcome>>

MailsDone ==
    /\ Expanding("mails")
    /\ Top.todo = <<>>
    /\ ReturnMails(Top.mails)
    /\ UNCHANGED <<query, resolved>>

RecursiveSearch ==
    \/ AlreadyResolved \/ Search \/ Member \/ MembersDone \/ Mail \/ MailsDone

Ended == outcome \in {"returned", "nothing", "raised"} /\ UNCHANGED vars

Next == LookupUser \/ SearchGroup \/ RecursiveSearch \/ Raises \/ Ended

Spec == Init /\ [][Next]_vars

\* The server answers or fails.
FairSpec == Spec /\ WF_vars(Next)

----------------------------------------------------------------------------
(* Properties. *)

\* Sets of entries that hold the group and the members of what they hold.
Closed(S) ==
    /\ group \in S
    /\ \A dn \in S : Range(directory.members[dn]) \subseteq S

\* The entries the group leads to.
Reachable == {dn \in Dn : \A S \in SUBSET Dn : Closed(S) => dn \in S}

NameOf(mail) == IF directory.user[mail] = None THEN mail ELSE directory.user[mail]

Expansion == UNION {{NameOf(mail) : mail \in Range(directory.mails[dn])} : dn \in Reachable}

\* What resolve_user returns for a list is everybody its entries stand for
\* and nobody else, by whatever ways and cycles they are reached; if one of
\* them is missing it returns nothing at all (_recursive_search).
Expanded ==
    outcome = "returned" /\ directory.user[asked] = None =>
        /\ Reachable \subseteq directory.present
        /\ Range(value) = Expansion

\* No entry is searched twice, and none that the group does not lead to: the
\* calls are at most as deep as there are entries, and one (resolved).
Once ==
    /\ IsInjective(resolved)
    /\ Range(resolved) \subseteq Reachable
    /\ Len(stack) <= Len(resolved) + 1

\* resolve_user returns or raises.
Ends == <>(outcome \in {"returned", "nothing", "raised"})

=============================================================================
