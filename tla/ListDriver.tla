----------------------------- MODULE ListDriver -----------------------------
(***************************************************************************)
(* The user driver "List" (EEHlib/users/list.py): two files, the users     *)
(* that are allowed and those that are denied, read again when the last    *)
(* reading is older than "Update after".  One driver object serves all     *)
(* workers and has no lock: each step below is one access to it or to a    *)
(* file.  The composition (module Workers) sends a worker in at "due" and  *)
(* takes it back at "judged".                                              *)
(***************************************************************************)
EXTENDS Naturals, FiniteSets

CONSTANTS
    Worker,        \* threads of the executor
    Conn,          \* connections, one message of each under way
    None,          \* no message
    Missing,       \* a file that is not there
    User,
    Recipient,     \* the user each connection writes to
    AllowLists,    \* what the allow file may hold at any time
    DenyLists,     \* what the deny file may hold
    MaxEdits       \* bound on what the administrator does

\* Assumed where the driver is used, of these constants.
ListAssumption ==
    /\ AllowLists \subseteq SUBSET User
    /\ DenyLists \subseteq SUBSET User
    /\ Recipient \in [Conn -> User]
    /\ None \notin Conn
    /\ MaxEdits \in Nat

VARIABLES
    pc,            \* where each worker is
    job,           \* the connection whose message it processes
    result,        \* what the call it made has returned
    allow, deny,   \* the files
    edits,         \* edits so far
    emptied,       \* the allow file has been emptied at some time
    due,           \* time() - last_update > update_after
    wl_users, bl_users,
    new_wl, new_bl    \* update's local lists

files == <<allow, deny, edits, emptied>>
driver == <<due, wl_users, bl_users>>
listVars == <<files, driver, new_wl, new_bl>>

ListLabel == {"due", "stamp", "allow", "deny", "setwl", "setbl", "white",
              "member", "black"}

ListTypeOK ==
    /\ allow \in AllowLists \cup {Missing}
    /\ deny \in DenyLists \cup {Missing}
    /\ edits \in 0 .. MaxEdits
    /\ emptied \in BOOLEAN
    /\ due \in BOOLEAN
    /\ wl_users \in AllowLists
    /\ bl_users \in DenyLists
    /\ new_wl \in [Worker -> AllowLists \cup {{}}]
    /\ new_bl \in [Worker -> DenyLists \cup {{}}]

\* main has called update; last_update is still 0, or somebody has asked
\* since.
ListInit ==
    /\ allow \in AllowLists
    /\ deny \in DenyLists
    /\ edits = 0
    /\ emptied = (allow = {})
    /\ due \in BOOLEAN
    /\ wl_users = allow
    /\ bl_users = deny
    /\ new_wl = [w \in Worker |-> {}]
    /\ new_bl = [w \in Worker |-> {}]

At(w, label) == pc[w] = label
Goto(w, label) == pc' = [pc EXCEPT ![w] = label]

\* The call returns r and the worker goes on at label.
Return(w, r, label) ==
    /\ Goto(w, label)
    /\ result' = [result EXCEPT ![w] = r]

Asked(w) == Recipient[job[w]]

----------------------------------------------------------------------------
(* update_if_required and update. *)

UpdateIfRequired(w) ==
    /\ At(w, "due")
    /\ Goto(w, IF due THEN "stamp" ELSE "white")
    /\ UNCHANGED <<result, listVars>>

Stamp(w) ==
    /\ At(w, "stamp")
    /\ due' = FALSE
    /\ Goto(w, "allow")
    /\ UNCHANGED <<result, files, wl_users, bl_users, new_wl, new_bl>>

\* The lists are built in local variables: a reader never sees half a file.
ReadAllow(w) ==
    /\ At(w, "allow")
    /\ allow # Missing
    /\ new_wl' = [new_wl EXCEPT ![w] = allow]
    /\ Goto(w, "deny")
    /\ UNCHANGED <<result, files, driver, new_bl>>

ReadDeny(w) ==
    /\ At(w, "deny")
    /\ deny # Missing
    /\ new_bl' = [new_bl EXCEPT ![w] = deny]
    /\ Goto(w, "setwl")
    /\ UNCHANGED <<result, files, driver, new_wl>>

\* open raises, and so does is_accepted_user; last_update stays.
ReadRaises(w) ==
    /\ \/ At(w, "allow") /\ allow = Missing
       \/ At(w, "deny") /\ deny = Missing
    /\ new_wl' = [new_wl EXCEPT ![w] = {}]
    /\ Return(w, "raised", "judged")
    /\ UNCHANGED <<files, driver, new_bl>>

\* Mutant: the list is read into the attribute itself.
SetWlInPlace(w) ==
    /\ At(w, "setwl")
    /\ wl_users' = new_wl[w]
    /\ bl_users' = {}
    /\ new_wl' = [new_wl EXCEPT ![w] = {}]
    /\ Goto(w, "setbl")
    /\ UNCHANGED <<result, files, due, new_bl>>

SetWl(w) ==
    /\ At(w, "setwl")
    /\ wl_users' = new_wl[w]
    /\ new_wl' = [new_wl EXCEPT ![w] = {}]
    /\ Goto(w, "setbl")
    /\ UNCHANGED <<result, files, due, bl_users, new_bl>>

\* Mutant: only the first list is published.
SetBlForgets(w) ==
    /\ At(w, "setbl")
    /\ new_bl' = [new_bl EXCEPT ![w] = {}]
    /\ Goto(w, "white")
    /\ UNCHANGED <<result, files, driver, new_wl>>

SetBl(w) ==
    /\ At(w, "setbl")
    /\ bl_users' = new_bl[w]
    /\ new_bl' = [new_bl EXCEPT ![w] = {}]
    /\ Goto(w, "white")
    /\ UNCHANGED <<result, files, due, wl_users, new_wl>>

----------------------------------------------------------------------------
(* is_accepted_user: each list is looked up when it is needed, the allow   *)
(* list twice.                                                             *)

White(w) ==
    /\ At(w, "white")
    /\ Goto(w, IF wl_users = {} THEN "black" ELSE "member")
    /\ UNCHANGED <<result, listVars>>

Member(w) ==
    /\ At(w, "member")
    /\ IF Asked(w) \in wl_users
         THEN Goto(w, "black") /\ UNCHANGED result
         ELSE Return(w, "False", "judged")
    /\ UNCHANGED listVars

Black(w) ==
    /\ At(w, "black")
    /\ Return(w, IF Asked(w) \in bl_users THEN "False" ELSE "True", "judged")
    /\ UNCHANGED listVars

IsAcceptedUser(w) ==
    \/ UpdateIfRequired(w) \/ Stamp(w)
    \/ ReadAllow(w) \/ ReadDeny(w) \/ ReadRaises(w)
    \/ SetWl(w) \/ SetBl(w)
    \/ White(w) \/ Member(w) \/ Black(w)

----------------------------------------------------------------------------
(* Time and the administrator, who edits one file after the other. *)

Expire ==
    /\ ~due
    /\ due' = TRUE
    /\ UNCHANGED <<pc, result, files, wl_users, bl_users, new_wl, new_bl>>

EditAllow ==
    /\ edits < MaxEdits
    /\ \E content \in (AllowLists \cup {Missing}) \ {allow} :
        /\ allow' = content
        /\ emptied' = (emptied \/ content = {})
    /\ edits' = edits + 1
    /\ UNCHANGED <<pc, result, deny, driver, new_wl, new_bl>>

EditDeny ==
    /\ edits < MaxEdits
    /\ \E content \in (DenyLists \cup {Missing}) \ {deny} : deny' = content
    /\ edits' = edits + 1
    /\ UNCHANGED <<pc, result, allow, emptied, driver, new_wl, new_bl>>

----------------------------------------------------------------------------
(* Properties. *)

AlwaysAllowed(u) ==
    /\ \A list \in AllowLists : list = {} \/ u \in list
    /\ \A list \in DenyLists : u \notin list

AlwaysDenied(u) == \A list \in DenyLists : u \in list

\* Whoever edits the files and whoever reads them meanwhile: a user that
\* every version denies is never accepted, and one that every version allows
\* is not refused, unless the allow file has been empty ("everybody"): a list
\* that is replaced by an empty one between the two looks refuses everybody
\* (update, is_accepted_user).
Steady ==
    \A w \in Worker :
        At(w, "judged") =>
            /\ result[w] = "True" => ~AlwaysDenied(Asked(w))
            /\ result[w] = "False" => ~AlwaysAllowed(Asked(w)) \/ emptied

\* When the files stay as they are, the driver's lists become what they say,
\* although a slow worker may put older ones back, and although a reading
\* that failed is not repeated before the interval is over (update).
CatchesUp ==
    <>[](allow # Missing /\ deny # Missing)
        => <>[](wl_users = allow /\ bl_users = deny)

=============================================================================
