-------------------------- MODULE MCProcessMessage --------------------------
(* Instances of ProcessMessage. *)
EXTENDS ProcessMessage

CONSTANTS ann, bob, staff, here, there, away, malformed, nohost

To(name, host) == [user |-> name, host |-> host]

\* One to three recipients: both local domains, one that is not local, one
\* that is no address.
MCMessages ==
    LET recipient == {To(ann, here), To(ann, there), To(bob, here), To(staff, here),
                      To(bob, away), malformed}
    IN  UNION {[1 .. n -> recipient] : n \in 1 .. 3}

ListDriver == [n \in {ann, bob, staff} |-> <<To(n, nohost)>>]

\* staff is a mailing list with members here, in another domain and
\* elsewhere, one of them twice; bob is not known, ann is bob's alias.
LdapDriver ==
    [n \in {ann, bob, staff} |->
        CASE n = ann   -> <<To(bob, nohost)>>
          [] n = bob   -> None
          [] n = staff -> <<To(bob, nohost), To(ann, there), To(ann, away), To(ann, away)>>]

\* Nobody is a member of an empty list.
EmptyDriver == [n \in {ann, bob, staff} |-> <<>>]

MCDirectories == {ListDriver, LdapDriver, EmptyDriver}

=============================================================================
