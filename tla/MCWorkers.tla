----------------------------- MODULE MCWorkers -----------------------------
(* Instances of Workers: ann is always allowed, cat always denied, and the *)
(* administrator changes his mind about bob.                               *)
EXTENDS Workers, TLC

CONSTANTS a, b, c, ann, bob, cat

Users3 == {ann, bob, cat}
RecipientOf == (a :> ann) @@ (b :> bob) @@ (c :> cat)
Allow == {{}, {ann, cat}, {ann, bob, cat}}
Deny == {{cat}, {bob, cat}}

\* The lists matter with the dummy, where they change; otherwise bob is
\* denied in one case, dotlocks by rename, and allowed in the others.
BobWhereItMatters ==
    method # "Dummy" => (deny = {cat} <=> dotlocks # "rename")

=============================================================================
