---------------------------- MODULE MCLdapDriver ----------------------------
(* Instances of LdapDriver: every graph of three entries with at most two  *)
(* members each, one entry perhaps missing, two addresses and one user.    *)
EXTENDS LdapDriver, TLC

CONSTANTS d1, d2, d3, ann, annmail, carl

Lists == {<<>>} \cup {<<d>> : d \in Dn} \cup {s \in Dn \X Dn : s[1] # s[2]}

Mails == (d1 :> <<carl>>) @@ (d2 :> <<annmail>>) @@ (d3 :> <<carl, annmail, ann>>)

Owners ==
    {(ann :> ann) @@ (annmail :> ann) @@ (carl :> None),
     (ann :> None) @@ (annmail :> None) @@ (carl :> None)}

AllDirectories ==
    [present : {Dn, Dn \ {d2}}, members : [Dn -> Lists], mails : {Mails}, user : Owners]

=============================================================================
