---------------------------- MODULE StartupProof ----------------------------
(***************************************************************************)
(* Whatever the configurations and systems are: the main loop only runs    *)
(* with its port and, if they were to be dropped, without any privilege it *)
(* could take back; and a process that stops anywhere stopped for the      *)
(* right reason.                                                           *)
(***************************************************************************)
EXTENDS Startup, TLAPS

(* The port is bound before anything is given up, and stays so.            *)
Bound == pc \in {"drop", "setgroups", "setgid", "setuid", "executor", "serving"} => listening

(* Who the process is at each stage: the order of the three calls counts,  *)
(* since each needs the user id that the last one gives up.                *)
Dropping == {"setgroups", "setgid", "setuid"}

Identity ==
    /\ pc \in {"config", "users", "delivery", "limit", "starttls", "bind", "drop"} =>
          credentials.uid = Ids(IF config.root THEN "root" ELSE "other")
    /\ pc \in Dropping => config.drop /\ credentials.uid = Ids("root")
    /\ pc \in {"setgid", "setuid"} => credentials.groups = {}
    /\ pc = "setuid" => credentials.gid = Ids("nobody")
    /\ pc \in {"executor", "serving"} /\ config.drop =>
          credentials = [uid |-> Ids("nobody"), gid |-> Ids("nobody"), groups |-> {}]

(* What the stages that are behind main have found to be in order.         *)
UsersPassed == config.mode = "normal" /\ config.userdb # "unknown" /\ config.update
DeliveryPassed == UsersPassed /\ config.method # "unknown" /\ config.settings
LimitPassed == DeliveryPassed /\ config.limit \in {"number", "inf"}
TlsPassed ==
    LimitPassed /\ config.ssl /\ (config.starttls => config.certificate = "usable")
BindPassed ==
    /\ TlsPassed
    /\ config.port # "taken"
    /\ config.port = "low" => config.root \/ ~config.posix
DropPassed ==
    BindPassed /\ (config.drop => config.posix /\ config.root /\ config.account = "there")

(* Where main is, it is rightly: it ends with 0 only if it was not to      *)
(* serve, fails only with a configuration that cannot be served, and       *)
(* serves every one that gets so far.                                      *)
Rightly ==
    /\ pc = "exit 0" => config.mode # "normal"
    /\ pc = "failed" => config.mode = "normal" /\ ~Usable
    /\ pc = "users" => config.mode = "normal"
    /\ pc = "delivery" => UsersPassed
    /\ pc = "limit" => DeliveryPassed
    /\ pc = "starttls" => LimitPassed
    /\ pc = "bind" => TlsPassed
    /\ pc = "drop" => BindPassed
    /\ pc \in Dropping \cup {"executor"} => DropPassed
    /\ pc = "serving" => DropPassed /\ config.threads # "not a number"

Inductive == TypeOK /\ Bound /\ Identity /\ Rightly

----------------------------------------------------------------------------

(* The types these steps lean on.                                          *)
LEMMA StartTypes ==
    ASSUME TypeOK
    PROVE  /\ config \in Config
           /\ \A id \in Id : Ids(id) \in [{"real", "effective", "saved"} -> Id]
           /\ credentials \in [uid : [{"real", "effective", "saved"} -> Id],
                               gid : [{"real", "effective", "saved"} -> Id],
                               groups : SUBSET Id]
BY ConfigAssumption DEF TypeOK, Ids

(* main begins with the ids of whoever started it.                         *)
LEMMA StartInit == Init => Inductive
<1> SUFFICES ASSUME Init PROVE Inductive
  OBVIOUS
<1>1. PICK id \in Id :
        /\ id = IF config.root THEN "root" ELSE "other"
        /\ credentials = [uid |-> Ids(id), gid |-> Ids(id), groups |-> {id}]
  BY DEF Init, Id
<1>2. Ids(id) \in [{"real", "effective", "saved"} -> Id]
  BY DEF Ids
<1>3. TypeOK
  <2>1. credentials \in [uid : [{"real", "effective", "saved"} -> Id],
                         gid : [{"real", "effective", "saved"} -> Id],
                         groups : SUBSET Id]
    BY <1>1, <1>2
  <2>2. QED
    BY <2>1 DEF Init, TypeOK, Stage
<1>4. Bound /\ Identity /\ Rightly
  BY <1>1 DEF Init, Bound, Identity, Rightly, Dropping
<1>5. QED
  BY <1>3, <1>4 DEF Inductive

(* Reading the configuration changes neither ids nor port.                 *)
LEMMA ReadingStep ==
    ASSUME Inductive, ReadConfig \/ Users \/ Delivery \/ DataSizeLimit \/ StartTls
    PROVE  Inductive'
<1>1. UNCHANGED <<config, credentials, listening>>
  BY DEF ReadConfig, Users, Delivery, DataSizeLimit, StartTls, Check
<1>2. TypeOK /\ Bound /\ Identity /\ Rightly
  BY DEF Inductive
<1>3. /\ pc \in {"config", "users", "delivery", "limit", "starttls"}
      /\ pc' \in {"users", "delivery", "limit", "starttls", "bind", "exit 0", "failed"}
  BY DEF ReadConfig, Users, Delivery, DataSizeLimit, StartTls, Check
<1>4. TypeOK'
  BY <1>1, <1>2, <1>3 DEF TypeOK, Stage
<1>5. Bound' /\ Identity'
  BY <1>1, <1>2, <1>3 DEF Bound, Identity, Dropping
<1>6. Rightly'
  <2>1. CASE ReadConfig
    BY <1>1, <2>1 DEF ReadConfig, Rightly, Dropping
  <2>2. CASE Users
    BY <1>1, <1>2, <2>2 DEF Users, Check, Rightly, Dropping, UsersPassed, Usable
  <2>3. CASE Delivery
    BY <1>1, <1>2, <2>3
    DEF Delivery, Check, Rightly, Dropping, UsersPassed, DeliveryPassed, Usable
  <2>4. CASE DataSizeLimit
    BY <1>1, <1>2, <2>4
    DEF DataSizeLimit, Check, Rightly, Dropping, UsersPassed, DeliveryPassed, LimitPassed, Usable
  <2>5. CASE StartTls
    BY <1>1, <1>2, <2>5
    DEF StartTls, Check, Rightly, Dropping, UsersPassed, DeliveryPassed, LimitPassed,
        TlsPassed, Usable
  <2>6. QED
    BY <2>1, <2>2, <2>3, <2>4, <2>5
<1>7. QED
  BY <1>4, <1>5, <1>6 DEF Inductive

(* The port is bound with the ids main was started with.                   *)
LEMMA BindStep ==
    ASSUME Inductive, Bind
    PROVE  Inductive'
<1>1. /\ UNCHANGED <<config, credentials>>
      /\ pc = "bind" /\ pc' = (IF MayBind THEN "drop" ELSE "failed")
      /\ listening' = MayBind
  BY DEF Bind, Check
<1>2. TypeOK /\ Bound /\ Identity /\ Rightly
  BY DEF Inductive
<1>3. Effective(credentials.uid) = (IF config.root THEN "root" ELSE "other")
  BY <1>1, <1>2 DEF Identity, Ids, Effective
<1>4. config.port \in {"free", "taken", "low"}
      /\ config.posix \in BOOLEAN /\ config.root \in BOOLEAN
  BY <1>2, StartTypes DEF Config
<1>5. MayBind <=> /\ config.port # "taken"
                  /\ config.port = "low" => config.root \/ ~config.posix
  BY <1>3, <1>4 DEF MayBind
<1>6. TypeOK'
  BY <1>1, <1>2 DEF TypeOK, Stage, MayBind
<1>7. Bound' /\ Identity'
  BY <1>1, <1>2 DEF Bound, Identity, Dropping
<1>8. Rightly'
  BY <1>1, <1>2, <1>5
  DEF Rightly, Dropping, UsersPassed, DeliveryPassed, LimitPassed, TlsPassed, BindPassed, Usable
<1>9. QED
  BY <1>6, <1>7, <1>8 DEF Inductive

(* Either nothing is dropped, or the account is there and root drops it.   *)
LEMMA DropStep ==
    ASSUME Inductive, DropPrivileges
    PROVE  Inductive'
<1>1. /\ UNCHANGED <<config, credentials, listening>> /\ pc = "drop"
      /\ pc' = IF ~config.drop THEN "executor"
               ELSE IF config.posix /\ config.root /\ config.account = "there"
                    THEN "setgroups"
                    ELSE "failed"
  BY DEF DropPrivileges
<1>2. TypeOK /\ Bound /\ Identity /\ Rightly
  BY DEF Inductive
<1>3. TypeOK' /\ Bound' /\ Identity'
  BY <1>1, <1>2 DEF TypeOK, Stage, Bound, Identity, Dropping
<1>4. Rightly'
  BY <1>1, <1>2
  DEF Rightly, Dropping, UsersPassed, DeliveryPassed, LimitPassed, TlsPassed, BindPassed,
      DropPassed, Usable
<1>5. QED
  BY <1>3, <1>4 DEF Inductive

(* Further groups, group, user: root may do each of it, and is root until  *)
(* the last.                                                               *)
LEMMA SetStep ==
    ASSUME Inductive, SetGroups \/ SetGid \/ SetUid
    PROVE  Inductive'
<1>1. TypeOK /\ Bound /\ Identity /\ Rightly
  BY DEF Inductive
<1>2. /\ UNCHANGED <<config, listening>>
      /\ pc \in Dropping
  BY DEF SetGroups, SetGid, SetUid, Check, Dropping
<1>3. config.drop /\ credentials.uid = Ids("root") /\ Effective(credentials.uid) = "root"
  BY <1>1, <1>2 DEF Identity, Effective, Ids
<1>4. MaySet(credentials.gid, "nobody") /\ MaySet(credentials.uid, "nobody")
  BY <1>3 DEF MaySet
<1>5. \A ids : Set(ids, "nobody") = Ids("nobody")
  BY <1>3 DEF Set
<1>6. Ids("nobody") \in [{"real", "effective", "saved"} -> Id]
  BY DEF Ids, Id
<1>7. CASE SetGroups
  <2>1. /\ pc = "setgroups" /\ pc' = "setgid"
        /\ credentials' = [credentials EXCEPT !.groups = {}]
    BY <1>3, <1>7 DEF SetGroups, Check
  <2>2. credentials'.uid = credentials.uid /\ credentials'.groups = {}
    BY <1>1, <2>1, StartTypes
  <2>3. TypeOK'
    BY <1>1, <1>2, <2>1 DEF TypeOK, Stage
  <2>4. Bound' /\ Identity'
    BY <1>1, <1>2, <1>3, <2>1, <2>2 DEF Bound, Identity, Dropping
  <2>5. Rightly'
    BY <1>1, <1>2, <2>1
    DEF Rightly, Dropping, UsersPassed, DeliveryPassed, LimitPassed, TlsPassed, BindPassed,
        DropPassed
  <2>6. QED
    BY <2>3, <2>4, <2>5 DEF Inductive
<1>8. CASE SetGid
  <2>1. /\ pc = "setgid" /\ pc' = "setuid"
        /\ credentials' = [credentials EXCEPT !.gid = Ids("nobody")]
    BY <1>4, <1>5, <1>8 DEF SetGid, Check
  <2>2. /\ credentials'.uid = credentials.uid /\ credentials'.gid = Ids("nobody")
        /\ credentials'.groups = {}
    BY <1>1, <2>1, StartTypes DEF Identity
  <2>3. TypeOK'
    BY <1>1, <1>2, <1>6, <2>1 DEF TypeOK, Stage
  <2>4. Bound' /\ Identity'
    BY <1>1, <1>2, <1>3, <2>1, <2>2 DEF Bound, Identity, Dropping
  <2>5. Rightly'
    BY <1>1, <1>2, <2>1
    DEF Rightly, Dropping, UsersPassed, DeliveryPassed, LimitPassed, TlsPassed, BindPassed,
        DropPassed
  <2>6. QED
    BY <2>3, <2>4, <2>5 DEF Inductive
<1>9. CASE SetUid
  <2>1. /\ pc = "setuid" /\ pc' = "executor"
        /\ credentials' = [credentials EXCEPT !.uid = Ids("nobody")]
    BY <1>4, <1>5, <1>9 DEF SetUid, Check
  <2>2. credentials.gid = Ids("nobody") /\ credentials.groups = {}
    BY <1>1, <2>1 DEF Identity
  <2>3. credentials' = [uid |-> Ids("nobody"), gid |-> Ids("nobody"), groups |-> {}]
    BY <1>1, <2>1, <2>2, StartTypes
  <2>4. TypeOK'
    BY <1>1, <1>2, <1>6, <2>1, <2>3 DEF TypeOK, Stage
  <2>5. Bound' /\ Identity'
    BY <1>1, <1>2, <2>1, <2>3 DEF Bound, Identity, Dropping
  <2>6. Rightly'
    BY <1>1, <1>2, <2>1
    DEF Rightly, Dropping, UsersPassed, DeliveryPassed, LimitPassed, TlsPassed, BindPassed,
        DropPassed
  <2>7. QED
    BY <2>4, <2>5, <2>6 DEF Inductive
<1>10. QED
  BY <1>7, <1>8, <1>9

(* The pool is the last thing before the main loop.                        *)
LEMMA ExecutorStep ==
    ASSUME Inductive, BootstrapFutures
    PROVE  Inductive'
<1>1. /\ UNCHANGED <<config, credentials, listening>> /\ pc = "executor"
      /\ pc' = (IF config.threads # "not a number" THEN "serving" ELSE "failed")
  BY DEF BootstrapFutures, Check
<1>2. TypeOK /\ Bound /\ Identity /\ Rightly
  BY DEF Inductive
<1>3. TypeOK' /\ Bound' /\ Identity'
  BY <1>1, <1>2 DEF TypeOK, Stage, Bound, Identity, Dropping
<1>4. Rightly'
  BY <1>1, <1>2
  DEF Rightly, Dropping, UsersPassed, DeliveryPassed, LimitPassed, TlsPassed, BindPassed,
      DropPassed, Usable
<1>5. QED
  BY <1>3, <1>4 DEF Inductive

(* Every step of main keeps the invariant.                                 *)
LEMMA StartStep == Inductive /\ [Next]_vars => Inductive'
<1> SUFFICES ASSUME Inductive, [Next]_vars PROVE Inductive'
  OBVIOUS
<1>1. CASE UNCHANGED vars
  <2>1. UNCHANGED <<config, pc, credentials, listening>>
    BY <1>1 DEF vars
  <2>2. TypeOK' /\ Bound' /\ Identity'
    BY <2>1 DEF Inductive, TypeOK, Bound, Identity
  <2>3. Rightly'
    BY <2>1, Zenon
    DEF Inductive, Rightly, UsersPassed, DeliveryPassed, LimitPassed, TlsPassed, BindPassed,
        DropPassed, Usable
  <2>4. QED
    BY <2>2, <2>3 DEF Inductive
<1>2. CASE ReadConfig \/ Users \/ Delivery \/ DataSizeLimit \/ StartTls
  BY <1>2, ReadingStep
<1>3. CASE Bind \/ DropPrivileges
  BY <1>3, BindStep, DropStep
<1>4. CASE SetGroups \/ SetGid \/ SetUid
  BY <1>4, SetStep
<1>5. CASE BootstrapFutures
  BY <1>5, ExecutorStep
<1>6. QED
  BY <1>1, <1>2, <1>3, <1>4, <1>5 DEF Next, Running

(* Stage by stage, what main has read, bound and given up.                 *)
THEOREM StartCorrect == Spec => []Inductive
  BY StartInit, StartStep, PTL DEF Spec

(* No connection is accepted before the port is bound and, if they were to *)
(* be, user, group and further groups are given up for good: no id is held *)
(* but that of nobody, saved ones included (main, drop_privileges).        *)
THEOREM ReadyHolds == Spec => []Ready
<1>1. Inductive => Ready
  <2> SUFFICES ASSUME Inductive, pc = "serving"
               PROVE  listening /\ (config.drop => HeldIds = {"nobody"})
    BY DEF Ready
  <2>1. listening
    BY DEF Inductive, Bound
  <2>2. ASSUME config.drop PROVE HeldIds = {"nobody"}
    <3>1. credentials = [uid |-> Ids("nobody"), gid |-> Ids("nobody"), groups |-> {}]
      BY <2>2 DEF Inductive, Identity
    <3>2. credentials.uid = Ids("nobody") /\ credentials.gid = Ids("nobody")
          /\ credentials.groups = {}
      BY <3>1
    <3>3. {Ids("nobody")[k] : k \in DOMAIN Ids("nobody")} = {"nobody"}
      BY DEF Ids
    <3>4. QED
      BY <3>2, <3>3 DEF HeldIds
  <2>3. QED
    BY <2>1, <2>2
<1>2. QED
  BY <1>1, StartCorrect, PTL

(* A process that serves has a configuration that can be served, one that  *)
(* fails has not, and one that ends with 0 was not meant to serve: with    *)
(* the run's liveness property, every configuration ends as it should      *)
(* (main).                                                                 *)
THEOREM StopsRightly ==
    Spec => [](/\ pc = "serving" => config.mode = "normal" /\ Usable
               /\ pc = "failed" => config.mode = "normal" /\ ~Usable
               /\ pc = "exit 0" => config.mode # "normal")
<1>1. Inductive => /\ pc = "serving" => config.mode = "normal" /\ Usable
                   /\ pc = "failed" => config.mode = "normal" /\ ~Usable
                   /\ pc = "exit 0" => config.mode # "normal"
  BY DEF Inductive, Rightly, UsersPassed, DeliveryPassed, LimitPassed, TlsPassed, BindPassed,
         DropPassed, Usable
<1>2. QED
  BY <1>1, StartCorrect, PTL

=============================================================================
