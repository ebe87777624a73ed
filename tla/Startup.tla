------------------------------ MODULE Startup ------------------------------
(***************************************************************************)
(* main (EEH.py): from the configuration to the main loop.  The order      *)
(* matters: files and keys are read and the port is bound with the         *)
(* privileges the process was started with, which are given up for good    *)
(* before a single connection is accepted.  Whatever raises or exits ends  *)
(* the process.                                                            *)
(***************************************************************************)
EXTENDS Naturals

CONSTANT Configs    \* configurations, and the systems they are started on

VARIABLES
    config,
    pc,            \* where main is
    credentials,   \* of the process: user and group ids, further groups
    listening      \* the port is bound

vars == <<config, pc, credentials, listening>>

\* What the files and the command line say, and what the system is like:
\* whether the user files can be read, Python has ssl, the port is low and
\* needs root, the account to drop to is there.
Config ==
    [mode : {"normal", "other"},
     userdb : {"List", "LDAP", "unknown"}, update : BOOLEAN,
     method : {"Filesystem", "LMTP", "Dummy", "unknown"}, settings : BOOLEAN,
     limit : {"number", "inf", "nan", "text", "unknown unit"},
     ssl : BOOLEAN, starttls : BOOLEAN, certificate : {"none", "unusable", "usable"},
     port : {"free", "taken", "low"},
     posix : BOOLEAN, root : BOOLEAN,
     drop : BOOLEAN, account : {"there", "no user", "no group"},
     threads : {"DEFAULT", "number", "not a number"}]

ASSUME ConfigAssumption == Configs \subseteq Config

Id == {"root", "other", "nobody"}
Ids(id) == [real |-> id, effective |-> id, saved |-> id]

Stage == {"config", "users", "delivery", "limit", "starttls", "bind", "drop",
          "setgroups", "setgid", "setuid", "executor", "serving", "exit 0", "failed"}

TypeOK ==
    /\ config \in Configs
    /\ pc \in Stage
    /\ credentials \in [uid : [{"real", "effective", "saved"} -> Id],
                        gid : [{"real", "effective", "saved"} -> Id],
                        groups : SUBSET Id]
    /\ listening \in BOOLEAN

Init ==
    /\ config \in Configs
    /\ pc = "config"
    /\ LET id == IF config.root THEN "root" ELSE "other"
       IN  credentials = [uid |-> Ids(id), gid |-> Ids(id), groups |-> {id}]
    /\ listening = FALSE

\* A stage of main that is passed or ends the process.
Check(stage, passed, next) ==
    /\ pc = stage
    /\ pc' = IF passed THEN next ELSE "failed"
    /\ UNCHANGED config

----------------------------------------------------------------------------
(* Configuration. *)

\* Everything but a normal start prints something and exits.
ReadConfig ==
    /\ pc = "config"
    /\ pc' = IF config.mode = "normal" THEN "users" ELSE "exit 0"
    /\ UNCHANGED <<config, credentials, listening>>

\* The driver and its first update, which the list driver reads files for.
Users ==
    /\ Check("users", config.userdb # "unknown" /\ config.update, "delivery")
    /\ UNCHANGED <<credentials, listening>>

Delivery ==
    /\ Check("delivery", config.method # "unknown" /\ config.settings, "limit")
    /\ UNCHANGED <<credentials, listening>>

\* float takes "nan", which is not found in a list of another one, and round
\* raises for it.
DataSizeLimit ==
    /\ Check("limit", config.limit \in {"number", "inf"}, "starttls")
    /\ UNCHANGED <<credentials, listening>>

\* A Python without ssl cannot start, whether STARTTLS is enabled or not.
StartTls ==
    /\ Check("starttls",
             config.ssl /\ (config.starttls => config.certificate = "usable"),
             "bind")
    /\ UNCHANGED <<credentials, listening>>

----------------------------------------------------------------------------
(* EEHd and drop_privileges. *)

Effective(ids) == ids.effective

MayBind ==
    \/ config.port = "free"
    \/ config.port = "low" /\ (config.posix => Effective(credentials.uid) = "root")

Bind ==
    /\ Check("bind", MayBind, "drop")
    /\ listening' = MayBind
    /\ UNCHANGED credentials

DropPrivileges ==
    /\ pc = "drop"
    /\ pc' = IF ~config.drop THEN "executor"
             ELSE IF config.posix /\ config.root /\ config.account = "there"
                  THEN "setgroups"
                  ELSE "failed"
    /\ UNCHANGED <<config, credentials, listening>>

\* Mutant: the user is changed first.
SetUserFirst ==
    /\ Check("setgroups", Effective(credentials.uid) = "root", "setgid")
    /\ credentials' = [credentials EXCEPT !.groups = {}, !.uid = Ids("nobody")]
    /\ UNCHANGED listening

SetGroups ==
    /\ Check("setgroups", Effective(credentials.uid) = "root", "setgid")
    /\ credentials' = [credentials EXCEPT !.groups = {}]
    /\ UNCHANGED listening

\* setuid and setgid of the operating system: all three for root, else only
\* the effective id, and only to one it has.
MaySet(ids, id) ==
    Effective(credentials.uid) = "root" \/ id \in {ids.real, ids.saved}

Set(ids, id) ==
    IF Effective(credentials.uid) = "root" THEN Ids(id) ELSE [ids EXCEPT !.effective = id]

\* setresgid, where there is one, and setgid.
SetGid ==
    /\ Check("setgid", MaySet(credentials.gid, "nobody"), "setuid")
    /\ credentials' = [credentials EXCEPT !.gid = Set(@, "nobody")]
    /\ UNCHANGED listening

\* Mutant: only the effective user is changed.
SetEuid ==
    /\ Check("setuid", MaySet(credentials.uid, "nobody"), "executor")
    /\ credentials' = [credentials EXCEPT !.uid.effective = "nobody"]
    /\ UNCHANGED listening

SetUid ==
    /\ Check("setuid", MaySet(credentials.uid, "nobody"), "executor")
    /\ credentials' = [credentials EXCEPT !.uid = Set(@, "nobody")]
    /\ UNCHANGED listening

----------------------------------------------------------------------------
(* bootstrap_futures and the main loop. *)

\* The pool that importing EEHlib made is replaced by one of the size asked
\* for, if that is a size.
BootstrapFutures ==
    /\ Check("executor", config.threads # "not a number", "serving")
    /\ UNCHANGED <<credentials, listening>>

Running == pc \in {"serving", "exit 0", "failed"} /\ UNCHANGED vars

Next ==
    \/ ReadConfig \/ Users \/ Delivery \/ DataSizeLimit \/ StartTls
    \/ Bind \/ DropPrivileges \/ SetGroups \/ SetGid \/ SetUid
    \/ BootstrapFutures \/ Running

Spec == Init /\ [][Next]_vars

FairSpec == Spec /\ WF_vars(Next)

----------------------------------------------------------------------------
(* Properties. *)

HeldIds ==
    {credentials.uid[k] : k \in DOMAIN credentials.uid}
        \cup {credentials.gid[k] : k \in DOMAIN credentials.gid} \cup credentials.groups

\* The main loop only runs with a port, and if privileges were to be dropped,
\* without any id that would bring them back (drop_privileges, main).
Ready ==
    pc = "serving" =>
        /\ listening
        /\ config.drop => HeldIds = {"nobody"}

Usable ==
    /\ config.userdb # "unknown" /\ config.update
    /\ config.method # "unknown" /\ config.settings
    /\ config.limit \in {"number", "inf"} /\ config.threads # "not a number"
    /\ config.ssl /\ (config.starttls => config.certificate = "usable")
    /\ config.port = "low" => config.root \/ ~config.posix
    /\ config.port # "taken"
    /\ config.drop => config.posix /\ config.root /\ config.account = "there"

\* A configuration that can be served is served, on a low port and with its
\* privileges dropped too; every other one ends the process (main).
Starts ==
    <>(pc = IF config.mode # "normal" THEN "exit 0"
            ELSE IF Usable THEN "serving" ELSE "failed")

=============================================================================
