---------------------------- MODULE WorkersProof ----------------------------
(***************************************************************************)
(* The executor with its drivers, for any number of threads, messages and  *)
(* users: types, judgements, locks, encryption, and that both delivery     *)
(* methods keep the promise of module Delivery.                            *)
(***************************************************************************)
EXTENDS Workers, SequenceTheorems, TLAPS

Label == {"idle", "judged", "delivered"} \cup Users!ListLabel
            \cup Box!BoxLabel \cup Server!LmtpLabel

PoolOK ==
    /\ queue \in Seq(Conn)
    /\ status \in [Conn -> {"none", "waiting", "250", "550", "554"}]
    /\ method \in {"Dummy", "Filesystem", "LMTP"}
    /\ pc \in [Worker -> Label]
    /\ job \in [Worker -> Conn \cup {None}]
    /\ \A w \in Worker : job[w] = None <=> pc[w] = "idle"
    /\ result \in [Worker -> {None, "True", "False", "raised"}]

(* What a thread has read of the files is a list that was there, and one   *)
(* with nobody in it only if there was such a list.                        *)
Read ==
    /\ \A w \in Worker :
        /\ pc[w] \in {"deny", "setwl"} =>
              new_wl[w] \in AllowLists /\ (new_wl[w] = {} => emptied)
        /\ pc[w] \in {"setwl", "setbl"} => new_bl[w] \in DenyLists
    /\ allow = {} => emptied
    /\ wl_users = {} => emptied

(* A thread that is in a driver is in the configured one; a box that is    *)
(* open is there.                                                          *)
Placed ==
    \A w \in Worker :
        /\ pc[w] \in Box!BoxLabel => method = "Filesystem"
        /\ pc[w] \in Server!LmtpLabel => method = "LMTP"
        /\ pc[w] \in Box!BoxLabel \ {"open", "create"} => file # Missing

Typed == PoolOK /\ Users!ListTypeOK /\ Box!BoxTypeOK /\ Server!LmtpTypeOK /\ Read /\ Placed

(* The types are those of the pool and of the three instances.             *)
LEMMA Parts == TypeOK <=> PoolOK /\ Users!ListTypeOK /\ Box!BoxTypeOK /\ Server!LmtpTypeOK
BY DEF TypeOK, PoolOK, Label

(* What is assumed of the constants.                                       *)
LEMMA Constants ==
    /\ AllowLists \subseteq SUBSET User /\ DenyLists \subseteq SUBSET User
    /\ Recipient \in [Conn -> User] /\ MaxEdits \in Nat
    /\ None \notin Conn \cup Worker
    /\ Reader \notin Worker \cup {None} /\ Eeh \notin Worker \cup {Reader, None}
    /\ Missing \notin Seq(Conn)
    /\ Regular \subseteq Conn
BY WorkersAssumption DEF Users!ListAssumption, Box!MailboxAssumption

----------------------------------------------------------------------------
(* The steps, by whose variables they change. *)

ListStep(w) == Users!IsAcceptedUser(w) /\ UNCHANGED <<pool, boxVars, lmtpVars>>
BoxStep(w) == Box!BoxDeliver(w) /\ UNCHANGED <<pool, listVars, lmtpVars>>
LmtpStep(w) == Server!LmtpDeliver(w) /\ UNCHANGED <<pool, listVars, boxVars>>

(* The types hold at the start.                                            *)
LEMMA InitTyped == ASSUME Init PROVE Typed
<1>1. PoolOK
  BY Constants DEF Init, PoolOK, Label
<1>2. Users!ListTypeOK /\ Read
  <2>1. due \in BOOLEAN /\ emptied \in BOOLEAN /\ (allow = {} => emptied)
    BY DEF Init, Users!ListInit
  <2>2. Users!ListTypeOK
    BY <2>1, Constants DEF Init, Users!ListInit, Users!ListTypeOK
  <2>3. Read
    BY <2>1 DEF Init, Users!ListInit, Read
  <2>4. QED
    BY <2>2, <2>3
<1>3. Box!BoxTypeOK
  <2>1. file \in Seq(Conn) \cup {Missing}
    BY EmptySeq DEF Init, Box!BoxInit
  <2>2. QED
    BY <2>1 DEF Init, Box!BoxInit, Box!BoxTypeOK
<1>4. Server!LmtpTypeOK
  BY DEF Init, Server!LmtpInit, Server!LmtpTypeOK
<1>5. Placed
  BY DEF Init, Placed, Box!BoxLabel, Server!LmtpLabel
<1>6. QED
  BY <1>1, <1>2, <1>3, <1>4, <1>5 DEF Typed

(* A message is queued with the types kept.                                *)
LEMMA SubmitTyped ==
    ASSUME Typed, NEW c \in Conn, Submit(c)
    PROVE  Typed'
<1>1. PoolOK'
  BY DEF Typed, PoolOK, Submit
<1>2. QED
  BY <1>1 DEF Typed, Submit, Users!ListTypeOK, Box!BoxTypeOK, Server!LmtpTypeOK, Read, Placed,
     listVars, boxVars, lmtpVars

(* A thread takes a message with the types kept.                           *)
LEMMA TakeTyped ==
    ASSUME Typed, NEW w \in Worker, Take(w)
    PROVE  Typed'
<1>1. Head(queue) \in Conn /\ Tail(queue) \in Seq(Conn)
  BY DEF Typed, PoolOK, Take
<1>2. PoolOK'
  BY <1>1, Constants DEF Typed, PoolOK, Take, At, Goto, Label, Users!ListLabel
<1>3. \A v \in Worker : pc'[v] = pc[v] \/ pc'[v] = "due"
  BY DEF Typed, PoolOK, Take, Goto
<1>4. Read' /\ Placed'
  BY <1>3 DEF Typed, Take, Read, Placed, Box!BoxLabel, Server!LmtpLabel,
     listVars, boxVars, lmtpVars
<1>5. QED
  BY <1>2, <1>4 DEF Typed, Take, Users!ListTypeOK, Box!BoxTypeOK, Server!LmtpTypeOK,
     listVars, boxVars, lmtpVars

(* process_message goes on with the types kept.                            *)
LEMMA ProcessTyped ==
    ASSUME Typed, NEW w \in Worker, Process(w)
    PROVE  Typed'
<1>1. UNCHANGED <<queue, method, listVars, boxVars, lmtpVars>>
  BY DEF Process, StartDelivery, NotDelivered, Delivered, Raised, Answer, pool
<1>2. job[w] \in Conn
  BY DEF Typed, PoolOK, Process, StartDelivery, NotDelivered, Delivered, Raised, At
<1>3. CASE StartDelivery(w)
  <2>1. UNCHANGED <<job, status, result>>
    BY <1>3 DEF Typed, PoolOK, StartDelivery, pool
  <2>2. PICK l \in {"open", "connect", "delivered"} :
              /\ pc' = [pc EXCEPT ![w] = l]
              /\ l = "open" => method = "Filesystem"
              /\ l = "connect" => method = "LMTP"
    BY <1>3 DEF Typed, PoolOK, StartDelivery, Goto
  <2>3. l \in Label
    BY DEF Label, Box!BoxLabel, Server!LmtpLabel
  <2>4. PoolOK'
    BY <1>1, <1>2, <2>1, <2>2, <2>3, Constants DEF Typed, PoolOK
  <2>5. Placed'
    BY <1>1, <2>2 DEF Typed, PoolOK, Placed, Box!BoxLabel, Server!LmtpLabel, boxVars
  <2>6. Read'
    BY <1>1, <2>2 DEF Typed, PoolOK, Read, listVars
  <2>7. QED
    BY <1>1, <2>4, <2>5, <2>6 DEF Typed, Users!ListTypeOK, Box!BoxTypeOK, Server!LmtpTypeOK,
       listVars, boxVars, lmtpVars
<1>4. ASSUME NEW s \in {"250", "550", "554"}, Answer(w, s)
      PROVE  Typed'
  <2>1. PoolOK'
    BY <1>2, <1>4, Constants DEF Typed, PoolOK, Answer, Goto, Label
  <2>2. \A v \in Worker : pc'[v] = pc[v] \/ pc'[v] = "idle"
    BY <1>4 DEF Typed, PoolOK, Answer, Goto
  <2>3. Placed'
    BY <1>1, <2>2 DEF Typed, Placed, Box!BoxLabel, Server!LmtpLabel, boxVars
  <2>4. Read'
    BY <1>1, <2>2 DEF Typed, Read, listVars
  <2>5. QED
    BY <1>1, <2>1, <2>3, <2>4 DEF Typed, Users!ListTypeOK, Box!BoxTypeOK, Server!LmtpTypeOK,
       listVars, boxVars, lmtpVars
<1>5. QED
  BY <1>3, <1>4 DEF Process, NotDelivered, Delivered, Raised

(* A thread makes a step in a driver: it is in it and stays, or leaves.    *)
Moves(w, labels, exit) ==
    /\ pc[w] \in labels /\ pc'[w] \in labels \cup {exit}
    /\ pc' \in [Worker -> Label]
    /\ result' \in [Worker -> {None, "True", "False", "raised"}]
    /\ \A v \in Worker \ {w} : pc'[v] = pc[v] /\ result'[v] = result[v]

(* A step of the list driver moves one thread, inside the driver or out of *)
(* it.                                                                     *)
LEMMA ListMoves ==
    ASSUME Typed, NEW w \in Worker, ListStep(w)
    PROVE  Moves(w, Users!ListLabel, "judged")
<1>1. /\ pc \in [Worker -> Label]
      /\ result \in [Worker -> {None, "True", "False", "raised"}]
  BY DEF Typed, PoolOK
<1>2. QED
  BY <1>1 DEF ListStep, Users!IsAcceptedUser, Users!UpdateIfRequired, Users!Stamp,
     Users!ReadAllow, Users!ReadDeny, Users!ReadRaises, Users!SetWl, Users!SetBl,
     Users!White, Users!Member, Users!Black, Users!At, Users!Goto, Users!Return,
     Moves, Label, Users!ListLabel

(* A step of the mailbox moves one thread, inside the delivery or out of   *)
(* it.                                                                     *)
LEMMA BoxMoves ==
    ASSUME Typed, NEW w \in Worker, BoxStep(w)
    PROVE  Moves(w, Box!BoxLabel, "delivered")
<1>1. /\ pc \in [Worker -> Label]
      /\ result \in [Worker -> {None, "True", "False", "raised"}]
  BY DEF Typed, PoolOK
<1>2. QED
  BY <1>1 DEF BoxStep, Box!BoxDeliver, Box!Open, Box!Create, Box!OpenRaises, Box!LockF,
     Box!LockFClash, Box!DotLock, Box!DotLockFails, Box!Seek, Box!Write, Box!WriteFails,
     Box!FlushFails, Box!Unlock, Box!Remove, Box!Close, Box!CloseFile, Box!Put, Box!At,
     Box!Goto, Box!Fails, Box!Unlocks, Moves, Label, Box!BoxLabel

(* A step of an LMTP session moves one thread, inside the delivery or out  *)
(* of it.                                                                  *)
LEMMA LmtpMoves ==
    ASSUME Typed, NEW w \in Worker, LmtpStep(w)
    PROVE  Moves(w, Server!LmtpLabel, "delivered")
<1>1. /\ pc \in [Worker -> Label]
      /\ result \in [Worker -> {None, "True", "False", "raised"}]
  BY DEF Typed, PoolOK
<1>2. QED
  BY <1>1 DEF LmtpStep, Server!LmtpDeliver, Server!Connect, Server!ConnectFails, Server!Lhlo,
     Server!LhloFails, Server!StartTls, Server!StartTlsFails, Server!StartTlsRaises,
     Server!Login, Server!LoginFails, Server!SendmailFails, Server!SendText,
     Server!SendmailReturns, Server!ReplyLost, Server!At, Server!Goto, Server!Return,
     Server!AfterEncryption, Moves, Label, Server!LmtpLabel

(* A thread that moves inside a part stays with its message.               *)
LEMMA MovesPool ==
    ASSUME Typed, NEW w \in Worker, NEW labels, NEW exit, Moves(w, labels, exit),
           "idle" \notin labels \cup {exit}, UNCHANGED pool
    PROVE  PoolOK'
BY DEF Typed, PoolOK, Moves, pool

(* The list driver keeps the types.                                        *)
LEMMA ListTyped ==
    ASSUME Typed, NEW w \in Worker, ListStep(w)
    PROVE  Typed'
<1>1. UNCHANGED <<pool, boxVars, lmtpVars>> /\ Users!IsAcceptedUser(w)
  BY DEF ListStep
<1>2. Moves(w, Users!ListLabel, "judged")
  BY ListMoves
<1>3. PoolOK' /\ Placed'
  <2>1. PoolOK'
    BY <1>1, <1>2, MovesPool DEF Users!ListLabel
  <2>2. Placed'
    BY <1>1, <1>2 DEF Typed, Placed, Moves, Users!ListLabel, Box!BoxLabel, Server!LmtpLabel,
       pool, boxVars
  <2>3. QED
    BY <2>1, <2>2
<1>4. Users!ListTypeOK' /\ Read'
  <2>1. pc \in [Worker -> Label] /\ Users!ListTypeOK /\ Read
    BY DEF Typed, PoolOK
  <2>2. CASE Users!UpdateIfRequired(w) \/ Users!White(w) \/ Users!Member(w) \/ Users!Black(w)
    <3>1. UNCHANGED listVars /\ pc'[w] \in {"stamp", "white", "black", "member", "judged"}
      BY <2>1, <2>2 DEF Users!UpdateIfRequired, Users!White, Users!Member, Users!Black,
         Users!Goto, Users!Return, Users!listVars, Users!files, Users!driver, listVars
    <3>2. QED
      BY <1>2, <2>1, <3>1 DEF Users!ListTypeOK, Read, Moves, listVars
  <2>3. CASE Users!Stamp(w)
    BY <2>1, <2>3, Constants DEF Users!ListTypeOK, Read, Users!Stamp, Users!At, Users!Goto,
       Users!Return, Users!files, Users!driver
  <2>4. CASE Users!ReadAllow(w)
    BY <2>1, <2>4, Constants DEF Users!ListTypeOK, Read, Users!ReadAllow, Users!At, Users!Goto,
       Users!Return, Users!files, Users!driver
  <2>5. CASE Users!ReadDeny(w)
    BY <2>1, <2>5, Constants DEF Users!ListTypeOK, Read, Users!ReadDeny, Users!At, Users!Goto,
       Users!Return, Users!files, Users!driver
  <2>6. CASE Users!ReadRaises(w)
    BY <2>1, <2>6, Constants DEF Users!ListTypeOK, Read, Users!ReadRaises, Users!At, Users!Goto,
       Users!Return, Users!files, Users!driver
  <2>7. CASE Users!SetWl(w)
    BY <2>1, <2>7, Constants DEF Users!ListTypeOK, Read, Users!SetWl, Users!At, Users!Goto,
       Users!Return, Users!files, Users!driver
  <2>8. CASE Users!SetBl(w)
    BY <2>1, <2>8, Constants DEF Users!ListTypeOK, Read, Users!SetBl, Users!At, Users!Goto,
       Users!Return, Users!files, Users!driver
  <2>9. QED
    BY <1>1, <2>2, <2>3, <2>4, <2>5, <2>6, <2>7, <2>8 DEF Users!IsAcceptedUser
<1>5. QED
  BY <1>1, <1>3, <1>4 DEF Typed, Box!BoxTypeOK, Server!LmtpTypeOK, boxVars, lmtpVars

(* The mailbox keeps the types.                                            *)
LEMMA BoxTyped ==
    ASSUME Typed, NEW w \in Worker, BoxStep(w)
    PROVE  Typed'
<1>1. UNCHANGED <<pool, listVars, lmtpVars>> /\ Box!BoxDeliver(w)
  BY DEF BoxStep
<1>2. Moves(w, Box!BoxLabel, "delivered")
  BY BoxMoves
<1>3. PoolOK' /\ Read'
  <2>1. PoolOK'
    BY <1>1, <1>2, MovesPool DEF Box!BoxLabel
  <2>2. Read'
    BY <1>1, <1>2 DEF Typed, Read, Moves, Box!BoxLabel, listVars
  <2>3. QED
    BY <2>1, <2>2
<1>4. Box!BoxTypeOK' /\ Placed'
  <2>1. pc \in [Worker -> Label] /\ job[w] \in Conn
    BY <1>2 DEF Typed, PoolOK, Moves, Box!BoxLabel
  <2>2. file # Missing => file \in Seq(Conn) /\ Len(file) \in Nat
    BY LenProperties DEF Typed, Box!BoxTypeOK
  <2>3. Box!BoxTypeOK /\ Placed
    BY DEF Typed
  <2>4. file' = file \/ file' \in Seq(Conn)
    <3>1. ASSUME NEW n \in Nat, n < Len(file), file # Missing
          PROVE  [file EXCEPT ![n + 1] = job[w]] \in Seq(Conn)
      BY <2>1, <2>2, <3>1, ExceptSeq
    <3>2. CASE Box!Put(w) /\ pc[w] \in {"write", "close"}
      <4>1. file # Missing /\ offset[w] \in Nat
        BY <2>3, <3>2 DEF Placed, Box!BoxLabel, Box!BoxTypeOK
      <4>2. CASE offset[w] < Len(file)
        <5>1. [file EXCEPT ![offset[w] + 1] = job[w]] \in Seq(Conn)
          BY <3>1, <4>1, <4>2
        <5>2. QED
          BY <3>2, <4>2, <5>1 DEF Box!Put
      <4>3. CASE ~(offset[w] < Len(file))
        <5>1. Append(file, job[w]) \in Seq(Conn)
          BY <2>1, <2>2, <4>1, AppendProperties
        <5>2. QED
          BY <3>2, <4>3, <5>1 DEF Box!Put
      <4>4. QED
        BY <4>2, <4>3
    <3>3. CASE Box!WriteFails(w)
      <4>1. file # Missing /\ offset[w] \in Nat
        BY <1>1, <2>3, <3>3 DEF Box!WriteFails, Box!At, Placed, Box!BoxLabel, Box!BoxTypeOK
      <4> DEFINE n == IF offset[w] < Len(file) THEN offset[w] ELSE Len(file)
      <4>2. n \in Nat /\ n <= Len(file) /\ file' = SubSeq(file, 1, n)
        BY <2>2, <3>3, <4>1 DEF Box!WriteFails
      <4> HIDE DEF n
      <4>3. SubSeq(file, 1, n) \in Seq(Conn)
        BY <2>2, <4>1, <4>2, SubSeqProperties
      <4>4. QED
        BY <4>2, <4>3
    <3>4. QED
      BY <1>1, <3>2, <3>3, EmptySeq DEF Box!BoxDeliver, Box!Open, Box!Create, Box!OpenRaises,
         Box!LockF, Box!LockFClash, Box!DotLock, Box!DotLockFails, Box!Seek, Box!Write,
         Box!FlushFails, Box!Unlock, Box!Remove, Box!Close, Box!CloseFile, Box!At, Box!boxVars
  <2>5. pc'[w] \in {"open", "create", "delivered"} \/ file' # Missing
    <3>1. CASE pc[w] \notin {"open", "create"}
      BY <1>2, <2>2, <2>3, <2>4, <3>1, Constants DEF Placed, Moves
    <3>2. CASE pc[w] \in {"open", "create"}
      BY <1>1, <2>1, <2>4, <3>2, Constants, EmptySeq DEF Box!BoxDeliver, Box!Open,
         Box!Create, Box!OpenRaises, Box!LockF, Box!LockFClash, Box!DotLock,
         Box!DotLockFails, Box!Seek, Box!Write, Box!WriteFails, Box!FlushFails, Box!Unlock,
         Box!Remove, Box!Close, Box!CloseFile, Box!Put, Box!At, Box!Goto, Box!boxVars
    <3>3. QED
      BY <3>1, <3>2
  <2>6. Placed'
    BY <1>1, <1>2, <2>2, <2>3, <2>4, <2>5, Constants DEF Placed, Moves, Box!BoxLabel,
       Server!LmtpLabel, pool
  <2>7. offset' \in [Worker -> Nat]
    <3>1. pc[w] = "seek" => Len(file) \in Nat
      BY <2>2, <2>3 DEF Placed, Box!BoxLabel
    <3>2. QED
      BY <1>1, <2>3, <3>1 DEF Box!BoxTypeOK, Box!BoxDeliver, Box!Open, Box!Create,
         Box!OpenRaises, Box!LockF, Box!LockFClash, Box!DotLock, Box!DotLockFails, Box!Seek,
         Box!Write, Box!WriteFails, Box!FlushFails, Box!Unlock, Box!Remove, Box!Close,
         Box!CloseFile, Box!Put, Box!At, Box!boxVars
  <2>8. lost' \subseteq Conn
    <3>1. file # Missing => \A i \in 1 .. Len(file) : file[i] \in Conn
      BY <2>2, ElementOfSeq
    <3>2. DOMAIN file = 1 .. Len(file) \/ file = Missing
      BY <2>2, LenProperties
    <3>3. CASE (Box!Put(w) /\ pc[w] \in {"write", "close"}) \/ Box!WriteFails(w)
      <4>1. file # Missing /\ offset[w] \in Nat
        BY <1>1, <2>3, <3>3 DEF Box!WriteFails, Box!At, Placed, Box!BoxLabel, Box!BoxTypeOK
      <4>2. QED
        BY <2>2, <2>3, <3>1, <3>3, <4>1, SubSeqProperties
           DEF Box!Put, Box!WriteFails, Box!BoxTypeOK
    <3>4. CASE Box!Create(w)
      BY <2>3, <3>1, <3>2, <3>4 DEF Box!Create, Box!Messages, Box!Content, Box!BoxTypeOK
    <3>5. QED
      BY <1>1, <2>3, <3>3, <3>4 DEF Box!BoxTypeOK, Box!BoxDeliver, Box!Open,
         Box!OpenRaises, Box!LockF, Box!LockFClash, Box!DotLock, Box!DotLockFails, Box!Seek,
         Box!Write, Box!FlushFails, Box!Unlock, Box!Remove, Box!Close, Box!CloseFile, Box!At,
         Box!boxVars
  <2>9. /\ dotlocks' \in {"link", "rename", "skip"} /\ lockf' \in {None, Eeh, Reader}
        /\ dotlock' \in Worker \cup {None, Reader, Eeh}
        /\ reader' \in {"away", "lockf", "both"} /\ created' \in 0 .. 2
        /\ buffered' \subseteq Conn
    BY <1>1, <2>1, <2>3 DEF Box!BoxTypeOK, Box!BoxDeliver, Box!Open, Box!Create,
         Box!OpenRaises, Box!LockF, Box!LockFClash, Box!DotLock, Box!DotLockFails, Box!Seek,
         Box!Write, Box!WriteFails, Box!FlushFails, Box!Unlock, Box!Remove, Box!Close,
         Box!CloseFile, Box!Put, Box!Fails, Box!boxVars
  <2>10. QED
    BY <2>2, <2>3, <2>4, <2>6, <2>7, <2>8, <2>9 DEF Box!BoxTypeOK
<1>5. QED
  BY <1>1, <1>3, <1>4 DEF Typed, Users!ListTypeOK, Server!LmtpTypeOK, listVars, lmtpVars

(* The LMTP sessions keep the types.                                       *)
LEMMA LmtpTyped ==
    ASSUME Typed, NEW w \in Worker, LmtpStep(w)
    PROVE  Typed'
<1>1. UNCHANGED <<pool, listVars, boxVars>> /\ Server!LmtpDeliver(w)
  BY DEF LmtpStep
<1>2. Moves(w, Server!LmtpLabel, "delivered")
  BY LmtpMoves
<1>3. PoolOK' /\ Read' /\ Placed'
  <2>1. PoolOK'
    BY <1>1, <1>2, MovesPool DEF Server!LmtpLabel
  <2>2. Read'
    BY <1>1, <1>2 DEF Typed, Read, Moves, Server!LmtpLabel, listVars
  <2>3. Placed'
    BY <1>1, <1>2 DEF Typed, Placed, Moves, Box!BoxLabel, Server!LmtpLabel, pool, boxVars
  <2>4. QED
    BY <2>1, <2>2, <2>3
<1>4. Server!LmtpTypeOK'
  <2>1. job[w] \in Conn
    BY <1>2 DEF Typed, PoolOK, Moves, Server!LmtpLabel
  <2>2. QED
    BY <1>1, <2>1 DEF Typed, Server!LmtpTypeOK, Server!LmtpDeliver,
       Server!Connect, Server!ConnectFails, Server!Lhlo, Server!LhloFails, Server!StartTls,
       Server!StartTlsFails, Server!StartTlsRaises, Server!Login, Server!LoginFails,
       Server!SendmailFails, Server!SendText, Server!SendmailReturns, Server!ReplyLost,
       Server!Return, Server!lmtpConfig, Server!lmtpVars
<1>5. QED
  BY <1>1, <1>3, <1>4 DEF Typed, Users!ListTypeOK, Box!BoxTypeOK, listVars, boxVars

(* Administrator, expiring locks and mail reader keep the types.           *)
LEMMA EnvironmentTyped ==
    ASSUME Typed, Administrator \/ Expire \/ MailReader
    PROVE  Typed'
<1>1. UNCHANGED <<pool, pc, result, lmtpVars>>
  BY DEF Administrator, Expire, MailReader, Users!EditAllow, Users!EditDeny, Users!Expire,
     Box!MailReader, Box!ReaderLockF, Box!ReaderDotLock, Box!ReaderGivesUp
<1>2. PoolOK' /\ Server!LmtpTypeOK'
  BY <1>1 DEF Typed, PoolOK, Server!LmtpTypeOK, pool, lmtpVars
<1>3. Users!ListTypeOK' /\ Read'
  <2>1. Users!ListTypeOK /\ Read
    BY DEF Typed
  <2>2. CASE Users!EditAllow
    <3>1. PICK content \in (AllowLists \cup {Missing}) \ {allow} :
             allow' = content /\ emptied' = (emptied \/ content = {})
      BY <2>2 DEF Users!EditAllow
    <3>2. emptied' \in BOOLEAN /\ (emptied => emptied') /\ (content = {} => emptied')
      BY <3>1
    <3>3. edits' \in 0 .. MaxEdits /\ UNCHANGED <<deny, due, wl_users, bl_users, new_wl,
    new_bl>>
      BY <2>1, <2>2, Constants DEF Users!EditAllow, Users!driver, Users!ListTypeOK
    <3>4. QED
      BY <1>1, <2>1, <3>1, <3>2, <3>3 DEF Users!ListTypeOK, Read
  <2>3. CASE Users!EditDeny
    BY <1>1, <2>1, <2>3, Constants DEF Users!EditDeny, Users!driver, Users!ListTypeOK, Read
  <2>4. CASE Users!Expire
    BY <1>1, <2>1, <2>4 DEF Users!Expire, Users!files, Users!ListTypeOK, Read
  <2>5. CASE UNCHANGED listVars
    BY <1>1, <2>1, <2>5 DEF listVars, Users!ListTypeOK, Read
  <2>6. QED
    BY <2>2, <2>3, <2>4, <2>5 DEF Administrator, Expire, MailReader
<1>4. Box!BoxTypeOK' /\ Placed'
  BY <1>1 DEF Typed, Administrator, Expire, MailReader, Box!MailReader, Box!ReaderLockF,
     Box!ReaderDotLock, Box!ReaderGivesUp, boxVars, Box!BoxTypeOK, Placed, pool
<1>5. QED
  BY <1>2, <1>3, <1>4 DEF Typed

(* A server that never answers stops its thread, and nothing else.         *)
LEMMA HangMoves ==
    ASSUME Typed, NEW w \in Worker, Hang(w)
    PROVE  /\ Moves(w, Server!LmtpLabel, "delivered")
           /\ pc[w] \in Server!LmtpLabel /\ pc'[w] = "hung"
           /\ UNCHANGED <<pool, result, listVars, boxVars, lmtpVars>>
<1>1. /\ pc \in [Worker -> Label]
      /\ result \in [Worker -> {None, "True", "False", "raised"}]
  BY DEF Typed, PoolOK
<1>2. QED
  BY <1>1 DEF Hang, Server!Hang, Server!Goto, Server!lmtpVars, Server!lmtpConfig, lmtpVars,
     Moves, Label, Server!LmtpLabel

(* It keeps the types.                                                     *)
LEMMA HangTyped ==
    ASSUME Typed, NEW w \in Worker, Hang(w)
    PROVE  Typed'
<1>1. PoolOK'
  BY HangMoves, MovesPool DEF Server!LmtpLabel
<1>2. Read' /\ Placed'
  BY HangMoves DEF Typed, Read, Placed, Moves, Box!BoxLabel, Server!LmtpLabel,
     listVars, boxVars, pool
<1>3. QED
  BY <1>1, <1>2, HangMoves DEF Typed, Users!ListTypeOK, Box!BoxTypeOK, Server!LmtpTypeOK,
     listVars, boxVars, lmtpVars

(* Every step keeps the types.                                             *)
LEMMA StepTyped ==
    ASSUME Typed, [Next]_vars
    PROVE  Typed'
<1>1. CASE UNCHANGED vars
  BY <1>1 DEF vars, pool, listVars, boxVars, lmtpVars, Typed, PoolOK, Users!ListTypeOK,
     Box!BoxTypeOK, Server!LmtpTypeOK, Read, Placed
<1>2. CASE \E w \in Worker : WorkerStep(w) \/ Hang(w)
  BY <1>2, TakeTyped, ProcessTyped, ListTyped, BoxTyped, LmtpTyped, HangTyped
     DEF WorkerStep, ListStep, BoxStep, LmtpStep
<1>3. QED
  BY <1>1, <1>2, SubmitTyped, EnvironmentTyped DEF Next, Rest

(* Every variable of the pool, the drivers and the mailbox keeps its type, *)
(* for any number of threads and messages; in particular a thread has a    *)
(* message exactly while it works.                                         *)
THEOREM TypeCorrect == Spec => []TypeOK
<1>1. Spec => []Typed
  BY InitTyped, StepTyped, PTL DEF Spec
<1>2. Typed => TypeOK
  BY Parts DEF Typed
<1>3. QED
  BY <1>1, <1>2, PTL

----------------------------------------------------------------------------
(* The steps of one thread, seen from another; and those without a thread. *)

(* A step of one thread leaves the position and the message of the others  *)
(* alone.                                                                  *)
LEMMA OtherThread ==
    ASSUME Typed, NEW w \in Worker, WorkerStep(w) \/ Hang(w), NEW v \in Worker, v # w
    PROVE  pc'[v] = pc[v] /\ result'[v] = result[v] /\ job'[v] = job[v]
<1>1. CASE Take(w)
  BY <1>1 DEF Typed, PoolOK, Take, Goto
<1>2. CASE Process(w)
  BY <1>2 DEF Typed, PoolOK, Process, StartDelivery, NotDelivered, Delivered, Raised, Answer,
     Goto, pool
<1>3. CASE ListStep(w)
  BY <1>3, ListMoves DEF ListStep, Moves, pool
<1>4. CASE BoxStep(w)
  BY <1>4, BoxMoves DEF BoxStep, Moves, pool
<1>5. CASE LmtpStep(w)
  BY <1>5, LmtpMoves DEF LmtpStep, Moves, pool
<1>6. CASE Hang(w)
  BY <1>6, HangMoves DEF Moves, pool
<1>7. QED
  BY <1>1, <1>2, <1>3, <1>4, <1>5, <1>6 DEF WorkerStep, ListStep, BoxStep, LmtpStep

(* A step of no thread leaves all of them alone.                           *)
LEMMA NoThread ==
    ASSUME [Next]_vars, ~ \E w \in Worker : WorkerStep(w) \/ Hang(w)
    PROVE  UNCHANGED <<pc, result, job, method, lmtpVars>>
BY DEF Next, Submit, Administrator, Expire, MailReader, Rest, Users!EditAllow, Users!EditDeny,
   Users!Expire, Box!MailReader, Box!ReaderLockF, Box!ReaderDotLock, Box!ReaderGivesUp,
   vars, pool, lmtpVars

----------------------------------------------------------------------------
(* Judgements. *)

Judgement(w) ==
    pc[w] = "judged" =>
        /\ result[w] = "True" => ~Users!AlwaysDenied(Users!Asked(w))
        /\ result[w] = "False" => ~Users!AlwaysAllowed(Users!Asked(w)) \/ emptied

(* Steady is said of each thread on its own.                               *)
LEMMA SteadyIs == Users!Steady <=> \A w \in Worker : Judgement(w)
BY DEF Users!Steady, Judgement, Users!At

(* That an allow list was once empty stays so.                             *)
LEMMA EmptiedStays ==
    ASSUME Typed, [Next]_vars, emptied
    PROVE  emptied'
<1>1. ASSUME NEW w \in Worker, WorkerStep(w) \/ Hang(w)
      PROVE  emptied'
  BY <1>1, HangMoves DEF WorkerStep, Take, Process, StartDelivery, NotDelivered, Delivered,
     Raised, Answer, Users!IsAcceptedUser, Users!UpdateIfRequired, Users!Stamp,
     Users!ReadAllow, Users!ReadDeny, Users!ReadRaises, Users!SetWl, Users!SetBl,
     Users!White, Users!Member, Users!Black, Users!files, Users!listVars, listVars
<1>2. CASE Administrator
  <2>1. CASE Users!EditAllow
    <3>1. PICK content : emptied' = (emptied \/ content = {})
      BY <2>1 DEF Users!EditAllow
    <3>2. QED
      BY <3>1
  <2>2. CASE Users!EditDeny
    BY <2>2 DEF Users!EditDeny
  <2>3. QED
    BY <1>2, <2>1, <2>2 DEF Administrator
<1>3. QED
  BY <1>1, <1>2 DEF Next, Submit, Expire, MailReader, Rest, Users!Expire, Users!files,
     vars, listVars

(* The judgement of a thread holds after its own step in the driver.       *)
LEMMA ListJudges ==
    ASSUME Typed, NEW w \in Worker, ListStep(w)
    PROVE  Judgement(w)'
<1>1. /\ pc \in [Worker -> Label] /\ wl_users \in AllowLists /\ bl_users \in DenyLists
      /\ result \in [Worker -> {None, "True", "False", "raised"}]
      /\ (wl_users = {} => emptied) /\ emptied' = emptied /\ job' = job
  BY DEF Typed, PoolOK, Users!ListTypeOK, Read, ListStep, pool, Users!IsAcceptedUser,
     Users!UpdateIfRequired, Users!Stamp, Users!ReadAllow, Users!ReadDeny, Users!ReadRaises,
     Users!SetWl, Users!SetBl, Users!White, Users!Member, Users!Black, Users!files,
     Users!listVars
<1>2. SUFFICES ASSUME pc'[w] = "judged", result'[w] # "raised"
               PROVE  Judgement(w)'
  BY DEF Judgement
<1>3. Users!Member(w) \/ Users!Black(w)
  BY <1>1, <1>2 DEF ListStep, Users!IsAcceptedUser, Users!UpdateIfRequired, Users!Stamp,
     Users!ReadAllow, Users!ReadDeny, Users!ReadRaises, Users!SetWl, Users!SetBl,
     Users!White, Users!Goto, Users!Return
<1>4. CASE Users!Member(w)
  <2>1. Users!Asked(w) \notin wl_users /\ result'[w] = "False"
    BY <1>1, <1>2, <1>4 DEF Users!Member, Users!Goto, Users!Return
  <2>2. Users!AlwaysAllowed(Users!Asked(w)) => wl_users = {}
    BY <1>1, <2>1 DEF Users!AlwaysAllowed
  <2>3. QED
    BY <1>1, <2>1, <2>2 DEF Judgement, Users!Asked, Users!AlwaysAllowed
<1>5. CASE Users!Black(w)
  <2>1. result'[w] = IF Users!Asked(w) \in bl_users THEN "False" ELSE "True"
    BY <1>1, <1>5 DEF Users!Black, Users!Return
  <2>2. QED
    BY <1>1, <2>1 DEF Judgement, Users!Asked, Users!AlwaysAllowed, Users!AlwaysDenied
<1>6. QED
  BY <1>3, <1>4, <1>5

(* Every step keeps the judgements.                                        *)
LEMMA SteadyKept ==
    ASSUME Typed, Users!Steady, [Next]_vars
    PROVE  Users!Steady'
<1>1. SUFFICES ASSUME NEW v \in Worker PROVE Judgement(v)'
  BY DEF Users!Steady, Judgement, Users!At
<1>2. Judgement(v)
  BY SteadyIs
<1>3. ASSUME pc'[v] = pc[v], result'[v] = result[v], job'[v] = job[v]
      PROVE  Judgement(v)'
  BY <1>2, <1>3, EmptiedStays DEF Judgement, Users!Asked, Users!AlwaysAllowed,
      Users!AlwaysDenied
<1>4. CASE ~ \E w \in Worker : WorkerStep(w) \/ Hang(w)
  BY <1>3, <1>4, NoThread
<1>5. ASSUME NEW w \in Worker, WorkerStep(w) \/ Hang(w), v # w
      PROVE  Judgement(v)'
  BY <1>3, <1>5, OtherThread
<1>6. CASE WorkerStep(v) \/ Hang(v)
  <2>1. CASE ListStep(v)
    BY <2>1, ListJudges
  <2>2. CASE Take(v) \/ Process(v)
    <3>1. pc'[v] # "judged"
      BY <2>2 DEF Typed, PoolOK, Take, Process, StartDelivery, NotDelivered, Delivered, Raised,
         Answer, Goto
    <3>2. QED
      BY <3>1 DEF Judgement
  <2>3. CASE BoxStep(v) \/ LmtpStep(v) \/ Hang(v)
    <3>1. pc'[v] # "judged"
      BY <2>3, BoxMoves, LmtpMoves, HangMoves DEF Moves, Box!BoxLabel, Server!LmtpLabel
    <3>2. QED
      BY <3>1 DEF Judgement
  <2>4. QED
    BY <1>6, <2>1, <2>2, <2>3 DEF WorkerStep, ListStep, BoxStep, LmtpStep
<1>7. QED
  BY <1>4, <1>5, <1>6

----------------------------------------------------------------------------
(* Encryption. *)

Clean(w) ==
    /\ pc[w] = "lhlo again" => link[w] = "tls"
    /\ eenforce /\ pc[w] \in {"login", "mail", "reply"} => link[w] = "tls"

Encrypted == \A w \in Worker : Clean(w)

(* Every step keeps password and message off a connection in clear.        *)
LEMMA EncryptedKept ==
    ASSUME Typed, Encrypted, [Next]_vars
    PROVE  Encrypted'
<1>1. SUFFICES ASSUME NEW v \in Worker PROVE Clean(v)'
  BY DEF Encrypted
<1>2. Clean(v) /\ link \in [Worker -> {"none", "plain", "tls"}] /\ pc \in [Worker -> Label]
  BY DEF Encrypted, Typed, PoolOK, Server!LmtpTypeOK
<1>3. CASE ~ \E w \in Worker : WorkerStep(w) \/ Hang(w)
  <2>1. pc' = pc /\ link' = link /\ eenforce' = eenforce
    BY <1>3, NoThread DEF lmtpVars
  <2>2. QED
    BY <1>2, <2>1 DEF Clean
<1>4. ASSUME NEW w \in Worker, WorkerStep(w) \/ Hang(w), v # w
      PROVE  Clean(v)'
  <2>1. link'[v] = link[v] /\ eenforce' = eenforce
    BY <1>2, <1>4, HangMoves DEF WorkerStep, Take, Process, StartDelivery, NotDelivered,
       Delivered, Raised, Answer, lmtpVars, Server!LmtpDeliver, Server!Connect,
       Server!ConnectFails, Server!Lhlo, Server!LhloFails, Server!StartTls,
       Server!StartTlsFails, Server!StartTlsRaises, Server!Login, Server!LoginFails,
       Server!SendmailFails, Server!SendText, Server!SendmailReturns, Server!ReplyLost,
       Server!Return, Server!lmtpConfig, Server!lmtpVars
  <2>2. QED
    BY <1>2, <1>4, <2>1, OtherThread DEF Clean
<1>5. CASE LmtpStep(v)
  <2>1. eenforce' = eenforce /\ Server!LmtpDeliver(v)
    BY <1>5 DEF LmtpStep, Server!LmtpDeliver, Server!Connect,
       Server!ConnectFails, Server!Lhlo, Server!LhloFails, Server!StartTls,
       Server!StartTlsFails, Server!StartTlsRaises, Server!Login, Server!LoginFails,
       Server!SendmailFails, Server!SendText, Server!SendmailReturns, Server!ReplyLost,
       Server!lmtpConfig, Server!lmtpVars
  <2>2. CASE pc'[v] \notin {"lhlo again", "login", "mail", "reply"}
    BY <2>2 DEF Clean
  <2>3. CASE Server!StartTls(v) \/ Server!StartTlsFails(v)
    BY <1>2, <2>1, <2>3 DEF Clean, Server!StartTls, Server!StartTlsFails, Server!Goto,
       Server!Return, Server!AfterEncryption
  <2>4. CASE Server!Lhlo(v) \/ Server!Login(v) \/ Server!SendText(v)
    BY <1>2, <2>1, <2>4 DEF Clean, Server!Lhlo, Server!Login, Server!SendText, Server!At,
       Server!Goto, Server!AfterEncryption, Server!lmtpVars, Server!lmtpConfig
  <2>5. QED
    BY <1>2, <2>1, <2>2, <2>3, <2>4 DEF Server!LmtpDeliver, Server!Connect,
       Server!ConnectFails, Server!LhloFails, Server!StartTlsRaises, Server!LoginFails,
       Server!SendmailFails, Server!SendmailReturns, Server!ReplyLost, Server!Goto,
       Server!Return
<1>6. CASE Take(v) \/ Process(v) \/ ListStep(v) \/ BoxStep(v) \/ Hang(v)
  <2>1. pc'[v] \notin {"lhlo again", "login", "mail", "reply"}
    <3>1. CASE Take(v) \/ Process(v)
      BY <1>2, <3>1 DEF Take, Process, StartDelivery, Delivered, NotDelivered, Raised, Answer,
         Goto, Typed, PoolOK
    <3>2. CASE ListStep(v) \/ BoxStep(v) \/ Hang(v)
      BY <3>2, ListMoves, BoxMoves, HangMoves DEF Moves, Users!ListLabel, Box!BoxLabel
    <3>3. QED
      BY <1>6, <3>1, <3>2
  <2>2. QED
    BY <2>1 DEF Clean
<1>7. QED
  BY <1>3, <1>4, <1>5, <1>6 DEF WorkerStep, ListStep, BoxStep, LmtpStep

----------------------------------------------------------------------------
(* The mailbox where dotlocks are made by link. *)

Holds(w) == pc[w] \in {"seek", "write", "unlock", "remove"}

(* The dotlock is the holder's until he removes it.                        *)
Owned ==
    dotlocks = "link" =>
        /\ \A w \in Worker : Holds(w) => dotlock = w
        /\ reader = "both" => dotlock = Reader

(* A thread that is about to make the box has found none, or somebody else *)
(* has made it; the end of the box stays where its writer has found it.    *)
Whole ==
    /\ \A w \in Worker : pc[w] = "create" => file = Missing \/ created > 0
    /\ Box!Reliable =>
          /\ lost = {}
          /\ \A w \in Worker : pc[w] = "write" => offset[w] = Len(file)

(* A lock file that has one owner admits one writer.                       *)
LEMMA OwnedAlone ==
    ASSUME Owned
    PROVE  Box!OneWriter
BY Constants DEF Owned, Holds, Box!OneWriter, Box!Writing

(* Other steps of a thread leave the box alone and end at most before it.  *)
LEMMA OutsideBox ==
    ASSUME Typed, NEW w \in Worker, WorkerStep(w) \/ Hang(w), ~BoxStep(w)
    PROVE  /\ UNCHANGED boxVars
           /\ pc'[w] \notin Box!BoxLabel \ {"open"}
<1>1. pc \in [Worker -> Label]
  BY DEF Typed, PoolOK
<1>2. CASE Take(w) \/ Process(w)
  BY <1>1, <1>2 DEF Typed, PoolOK, Take, Process, StartDelivery, Delivered,
     NotDelivered, Raised, Answer, Goto, Box!BoxLabel
<1>3. CASE ListStep(w) \/ LmtpStep(w) \/ Hang(w)
  BY <1>3, ListMoves, LmtpMoves, HangMoves DEF Moves, Users!ListLabel, Server!LmtpLabel,
     Box!BoxLabel, ListStep, LmtpStep
<1>4. QED
  BY <1>2, <1>3 DEF WorkerStep, ListStep, BoxStep, LmtpStep

(* Every step keeps the lock file with its owner.                          *)
LEMMA OwnedKept ==
    ASSUME Typed, Owned, [Next]_vars
    PROVE  Owned'
<1>1. pc \in [Worker -> Label] /\ dotlocks' = dotlocks
  BY HangMoves DEF Typed, PoolOK, Next, WorkerStep, Submit, Take, Process, StartDelivery,
      Delivered, NotDelivered, Raised, Answer, Administrator, Expire, MailReader, Rest,
      boxVars, vars, Box!BoxDeliver, Box!Open, Box!Create, Box!OpenRaises, Box!LockF,
      Box!LockFClash, Box!DotLock, Box!DotLockFails, Box!Seek, Box!Write, Box!WriteFails,
      Box!FlushFails, Box!Unlock, Box!Remove, Box!Close, Box!CloseFile, Box!Put,
      Box!boxVars, Box!MailReader, Box!ReaderLockF, Box!ReaderDotLock, Box!ReaderGivesUp
<1>2. SUFFICES ASSUME dotlocks = "link"
               PROVE  /\ \A w \in Worker : Holds(w)' => dotlock' = w
                      /\ reader' = "both" => dotlock' = Reader
  BY <1>1 DEF Owned
<1>3. /\ \A w \in Worker : Holds(w) => dotlock = w
      /\ reader = "both" => dotlock = Reader
  BY <1>2 DEF Owned
<1>4. CASE ~ \E w \in Worker : WorkerStep(w) \/ Hang(w)
  <2>1. \A w \in Worker : Holds(w)' <=> Holds(w)
    BY <1>4, NoThread DEF Holds
  <2>2. CASE MailReader
    BY <1>2, <1>3, <2>1, <2>2, Constants DEF MailReader, Box!MailReader, Box!ReaderLockF,
       Box!ReaderDotLock, Box!ReaderGivesUp, Box!DotlockFree
  <2>3. CASE UNCHANGED boxVars
    BY <1>3, <2>1, <2>3 DEF boxVars
  <2>4. QED
    BY <1>4, <2>2, <2>3 DEF Next, Submit, Administrator, Expire, Rest, vars
<1>5. ASSUME NEW w \in Worker, WorkerStep(w) \/ Hang(w)
      PROVE  /\ \A v \in Worker : Holds(v)' => dotlock' = v
             /\ reader' = "both" => dotlock' = Reader
  <2>1. \A v \in Worker \ {w} : Holds(v)' <=> Holds(v)
    BY <1>5, OtherThread DEF Holds
  <2>2. CASE ~BoxStep(w)
    BY <1>3, <1>5, <2>1, <2>2, OutsideBox DEF Holds, Box!BoxLabel, boxVars
  <2>3. CASE BoxStep(w)
    <3>1. reader' = reader /\ Box!BoxDeliver(w)
      BY <2>3 DEF BoxStep, Box!BoxDeliver, Box!Open, Box!Create, Box!OpenRaises, Box!LockF,
         Box!LockFClash, Box!DotLock, Box!DotLockFails, Box!Seek, Box!Write, Box!WriteFails,
         Box!FlushFails, Box!Unlock, Box!Remove, Box!Close, Box!CloseFile, Box!Put,
         Box!Fails, Box!boxVars
    <3>2. CASE Box!DotLock(w)
      BY <1>2, <1>3, <2>1, <3>1, <3>2, Constants DEF Box!DotLock, Box!DotlockFree
    <3>3. CASE Box!Remove(w)
      BY <1>1, <1>3, <2>1, <3>1, <3>3, Constants DEF Box!Remove, Holds, Box!At, Box!Goto
    <3>4. CASE ~Box!DotLock(w) /\ ~Box!Remove(w)
      <4>1. dotlock' = dotlock /\ (Holds(w)' => Holds(w))
        BY <1>1, <3>1, <3>4 DEF Box!BoxDeliver, Box!Open, Box!Create, Box!OpenRaises,
           Box!LockF, Box!LockFClash, Box!DotLockFails, Box!Seek, Box!Write, Box!WriteFails,
           Box!FlushFails, Box!Unlock, Box!Close, Box!CloseFile, Box!Put, Box!Fails,
           Box!Unlocks, Box!At, Box!Goto, Box!boxVars, Holds
      <4>2. QED
        BY <1>3, <2>1, <3>1, <4>1
    <3>5. QED
      BY <3>2, <3>3, <3>4
  <2>4. QED
    BY <2>2, <2>3
<1>6. QED
  BY <1>4, <1>5

(* Only the holder of the dotlock moves the end of the box, and only those *)
(* who found no box make one.                                              *)
LEMMA WholeKept ==
    ASSUME Typed, Owned, Whole, [Next]_vars
    PROVE  Whole'
<1>1. /\ pc \in [Worker -> Label] /\ offset \in [Worker -> Nat] /\ created \in 0 .. 2
      /\ (file # Missing => file \in Seq(Conn) /\ Len(file) \in Nat)
  BY LenProperties DEF Typed, PoolOK, Box!BoxTypeOK
<1>2. CASE ~ \E w \in Worker : WorkerStep(w) \/ Hang(w)
  <2>1. pc' = pc /\ UNCHANGED <<dotlocks, file, offset, created, lost, buffered>>
    BY <1>2, NoThread DEF Next, Submit, Administrator, Expire, MailReader, Rest, vars, boxVars,
       Box!MailReader, Box!ReaderLockF, Box!ReaderDotLock, Box!ReaderGivesUp
  <2>2. QED
    BY <2>1 DEF Whole, Box!Reliable
<1>3. ASSUME NEW w \in Worker, WorkerStep(w) \/ Hang(w), ~BoxStep(w)
      PROVE  Whole'
  <2>1. UNCHANGED <<dotlocks, file, offset, created, lost, buffered>>
        /\ pc'[w] \notin {"create", "write"}
        /\ \A v \in Worker : pc'[v] \in {"create", "write"} => pc[v] = pc'[v]
    BY <1>3, OutsideBox, OtherThread DEF boxVars, Box!BoxLabel
  <2>2. QED
    BY <2>1 DEF Whole, Box!Reliable
<1>4. ASSUME NEW w \in Worker, BoxStep(w)
      PROVE  Whole'
  <2>1. /\ Box!BoxDeliver(w) /\ dotlocks' = dotlocks
        /\ \A v \in Worker \ {w} : pc'[v] = pc[v]
    BY <1>4, BoxMoves DEF BoxStep, Moves, Box!BoxDeliver, Box!Open, Box!Create, Box!OpenRaises,
       Box!LockF, Box!LockFClash, Box!DotLock, Box!DotLockFails, Box!Seek, Box!Write,
       Box!WriteFails, Box!FlushFails, Box!Unlock, Box!Remove, Box!Close, Box!CloseFile,
       Box!Put, Box!Fails, Box!boxVars
  <2>2. \A v \in Worker : Holds(w) /\ Holds(v) /\ dotlocks = "link" => v = w
    BY DEF Owned
  <2>3. CASE Box!Open(w)
    BY <1>1, <2>1, <2>3 DEF Whole, Box!Reliable, Box!Open, Box!At, Box!Goto, Box!boxVars
  <2>4. CASE Box!Create(w)
    <3>1. created' > 0 /\ created' \in 1 .. 2 /\ (created' < 2 => created = 0)
      BY <1>1, <2>4 DEF Box!Create
    <3>2. created' < 2 => file = Missing
      BY <2>4, <3>1 DEF Whole, Box!Create, Box!At
    <3>3. Box!Reliable' => lost' = {}
      <4>1. Box!Reliable' => created' < 2 /\ Box!Reliable
        BY <2>1, <2>4, <3>1 DEF Box!Reliable, Box!Create
      <4>2. QED
        BY <2>4, <3>2, <4>1 DEF Whole, Box!Create, Box!Messages
    <3>4. ASSUME created' < 2, NEW v \in Worker, pc'[v] = "write"
          PROVE  FALSE
      <4>1. v # w
        BY <1>1, <2>4, <3>4 DEF Box!Create, Box!Goto
      <4>2. pc[v] = "write"
        BY <2>1, <3>4, <4>1
      <4>3. QED
        BY <3>2, <3>4, <4>2 DEF Typed, Placed, Box!BoxLabel
    <3>5. QED
      BY <2>1, <3>1, <3>3, <3>4 DEF Whole, Box!Reliable
  <2>5. CASE Box!Seek(w)
    BY <1>1, <2>1, <2>5 DEF Whole, Box!Reliable, Box!Seek, Box!At, Box!Goto
  <2>6. CASE Box!Write(w) \/ Box!WriteFails(w)
    <3>1. /\ created' = created /\ offset' = offset /\ pc[w] = "write" /\ pc'[w] = "unlock"
          /\ file # Missing /\ buffered' = buffered
      BY <1>1, <2>6 DEF Box!Write, Box!WriteFails, Box!FlushFails, Box!Unlocks, Box!Goto,
          Box!At, Typed, Placed, Box!BoxLabel
    <3>2. \A v \in Worker : pc'[v] = "create" => file' = Missing \/ created' > 0
      <4>1. \A v \in Worker : pc'[v] = "create" => pc[v] = "create"
        BY <2>1, <3>1
      <4>2. QED
        BY <3>1, <4>1 DEF Whole
    <3>3. dotlocks = "link" => \A v \in Worker : pc'[v] # "write"
      BY <2>1, <2>2, <3>1 DEF Holds
    <3>4. Box!Reliable => lost' = {}
      <4>1. SUFFICES ASSUME Box!Reliable
                     PROVE  lost' = {}
        OBVIOUS
      <4>2. lost = {} /\ offset[w] = Len(file)
        BY <3>1, <4>1 DEF Whole
      <4>3. CASE Box!Write(w)
        BY <1>1, <3>1, <4>2, <4>3 DEF Box!Write, Box!Put
      <4>4. CASE Box!WriteFails(w)
        <5>1. SubSeq(file, 1, Len(file)) = file
          BY <1>1, <3>1, SubSeqFull
        <5>2. lost' = lost \cup {file[i] : i \in Len(file) + 1 .. Len(file)}
          BY <1>1, <3>1, <4>2, <4>4, <5>1 DEF Box!WriteFails
        <5>3. QED
          BY <1>1, <3>1, <4>2, <5>2
      <4>5. QED
        BY <2>6, <4>3, <4>4
    <3>5. QED
      BY <2>1, <3>1, <3>2, <3>3, <3>4 DEF Whole, Box!Reliable
  <2>7. CASE Box!FlushFails(w)
    <3>1. created' = created /\ file' = file /\ pc'[w] = "unlock" /\ ~Box!Reliable'
      BY <1>1, <2>7 DEF Box!FlushFails, Box!Unlocks, Box!Goto, Box!Reliable
    <3>2. QED
      BY <2>1, <3>1 DEF Whole
  <2>8. CASE Box!Close(w)
    <3>1. /\ UNCHANGED <<dotlocks, created, buffered>>
          /\ pc'[w] = "delivered" /\ pc[w] = "close" /\ file # Missing
          /\ \A v \in Worker \ {w} : offset'[v] = offset[v]
      BY <1>1, <2>8 DEF Box!Close, Box!Goto, Box!At, Typed, Placed, Box!BoxLabel
    <3>2. Box!Reliable => file' = file /\ lost' = lost
      BY <2>8 DEF Box!Close, Box!CloseFile, Box!Reliable
    <3>3. \A v \in Worker : pc'[v] = "create" => created' > 0
      BY <2>1, <3>1 DEF Whole
    <3>4. Box!Reliable' => Box!Reliable
      BY <3>1 DEF Box!Reliable
    <3>5. \A v \in Worker : pc'[v] = "write" => v # w /\ pc[v] = "write"
      BY <2>1, <3>1
    <3>6. QED
      BY <3>1, <3>2, <3>3, <3>4, <3>5 DEF Whole
  <2>9. CASE ~ (\/ Box!Open(w) \/ Box!Create(w) \/ Box!Seek(w) \/ Box!Write(w)
                \/ Box!WriteFails(w) \/ Box!FlushFails(w) \/ Box!Close(w))
    <3>1. UNCHANGED <<file, created, lost, buffered>> /\ pc'[w] \notin {"create", "write"}
          /\ \A v \in Worker \ {w} : offset'[v] = offset[v]
      BY <1>1, <2>1, <2>9 DEF Box!BoxDeliver, Box!OpenRaises,
         Box!LockF, Box!LockFClash, Box!DotLock, Box!DotLockFails,
         Box!Unlock, Box!Remove, Box!Fails, Box!Goto, Box!boxVars
    <3>2. QED
      BY <2>1, <3>1 DEF Whole, Box!Reliable
  <2>10. QED
    BY <2>1, <2>3, <2>4, <2>5, <2>6, <2>7, <2>8, <2>9
<1>5. QED
  BY <1>2, <1>3, <1>4

Safe == Typed /\ Users!Steady /\ Encrypted /\ Owned /\ Whole

(* The invariants hold at the start.                                       *)
LEMMA InitSafe == ASSUME Init PROVE Safe
<1>1. Users!Steady /\ Encrypted
  BY DEF Init, Users!Steady, Users!At, Encrypted, Clean
<1>2. Owned /\ Whole
  BY DEF Init, Box!BoxInit, Owned, Holds, Whole
<1>3. QED
  BY <1>1, <1>2, InitTyped DEF Safe

(* Types, judgements, encryption, the owner of the dotlock and the end of  *)
(* the box carry each other through every step of threads, mail reader,    *)
(* administrator and time.                                                 *)
THEOREM SafeAlways == Spec => []Safe
<1>1. Safe /\ [Next]_vars => Safe'
  BY StepTyped, SteadyKept, EncryptedKept, OwnedKept, WholeKept DEF Safe
<1>2. QED
  BY <1>1, InitSafe, PTL DEF Spec

(* Nobody whom every version of the files denies is let in, and nobody     *)
(* whom every version allows is refused but for an emptied file, whatever  *)
(* the threads that update the lists and those that read them do to each   *)
(* other (is_accepted_user).                                               *)
THEOREM SteadyHolds == Spec => []Steady
<1>1. Safe => Steady
  BY DEF Safe, Steady
<1>2. QED
  BY <1>1, SafeAlways, PTL

(* With "Enforce encryption" no password or message goes out in clear,     *)
(* on any way through the failures of STARTTLS (delivery/lmtp.py).         *)
THEOREM EnforcedHolds == Spec => []Enforced
<1>1. Safe => Enforced
  BY DEF Safe, Encrypted, Clean, Enforced, Server!Enforced
<1>2. QED
  BY <1>1, SafeAlways, PTL

(* A mailbox has one writer at a time, of any number of threads and a mail *)
(* reader, where dotlocks are made by link (delivery/filesystem.py).       *)
THEOREM OneWriterHolds == Spec => []OneWriter
<1>1. Safe => OneWriter
  BY OwnedAlone DEF Safe, OneWriter
<1>2. QED
  BY <1>1, SafeAlways, PTL

(* Such a mailbox loses nothing, unless it was made twice or a flush       *)
(* failed: whoever writes at the end he has looked up finds it still the   *)
(* end (mailbox.add).                                                      *)
THEOREM KeptHolds == Spec => []Kept
<1>1. Safe => Kept
  BY DEF Safe, Whole, Kept, Box!Kept
<1>2. QED
  BY <1>1, SafeAlways, PTL

----------------------------------------------------------------------------
(* The promise of module Delivery. *)

(* A message is in one place: with its client, in the queue, with one      *)
(* thread, or answered.                                                    *)
Single ==
    method # "Dummy" =>
        /\ \A i \in DOMAIN queue : status[queue[i]] = "waiting"
        /\ \A i, j \in DOMAIN queue : queue[i] = queue[j] => i = j
        /\ \A w \in Worker : job[w] # None =>
              /\ status[job[w]] = "waiting"
              /\ \A i \in DOMAIN queue : queue[i] # job[w]
              /\ \A v \in Worker : job[v] = job[w] => v = w

(* Every step keeps each message in one place.                             *)
LEMMA SingleKept ==
    ASSUME Typed, Single, [Next]_vars
    PROVE  Single'
<1>1. method' = method
  BY HangMoves DEF Next, Submit, WorkerStep, Take, Process, StartDelivery, NotDelivered,
     Delivered, Raised, Answer, Administrator, Expire, MailReader, Rest, pool, vars
<1>2. SUFFICES ASSUME method # "Dummy" PROVE Single'
  BY <1>1 DEF Single
<1>3. /\ \A i \in DOMAIN queue : status[queue[i]] = "waiting"
      /\ \A i, j \in DOMAIN queue : queue[i] = queue[j] => i = j
      /\ \A w \in Worker : job[w] # None =>
            /\ status[job[w]] = "waiting"
            /\ \A i \in DOMAIN queue : queue[i] # job[w]
            /\ \A v \in Worker : job[v] = job[w] => v = w
  BY <1>2 DEF Single
<1>4. /\ queue \in Seq(Conn) /\ Len(queue) \in Nat /\ DOMAIN queue = 1 .. Len(queue)
      /\ status \in [Conn -> {"none", "waiting", "250", "550", "554"}]
      /\ job \in [Worker -> Conn \cup {None}]
      /\ \A i \in 1 .. Len(queue) : queue[i] \in Conn
  BY LenProperties, ElementOfSeq DEF Typed, PoolOK
<1>5. ASSUME NEW c \in Conn, Submit(c)
      PROVE  Single'
  <2>1. /\ status[c] = "none" /\ status' = [status EXCEPT ![c] = "waiting"]
        /\ queue' = Append(queue, c) /\ job' = job
    BY <1>2, <1>5 DEF Submit
  <2>2. /\ DOMAIN queue' = 1 .. Len(queue) + 1 /\ queue'[Len(queue) + 1] = c
        /\ \A i \in 1 .. Len(queue) : queue'[i] = queue[i]
    BY <1>4, <2>1, AppendProperties, LenProperties
  <2>3. \A i \in 1 .. Len(queue) : queue[i] # c
    BY <1>3, <1>4, <2>1
  <2>4. \A w \in Worker : job[w] # c
    BY <1>3, <1>4, <2>1, Constants
  <2>5. \A i \in 1 .. Len(queue) + 1 : i \in 1 .. Len(queue) \/ i = Len(queue) + 1
    BY <1>4
  <2>6. \A i \in DOMAIN queue' : status'[queue'[i]] = "waiting"
    BY <1>3, <1>4, <2>1, <2>2, <2>3, <2>5
  <2>7. \A i, j \in DOMAIN queue' : queue'[i] = queue'[j] => i = j
    BY <1>3, <1>4, <2>2, <2>3, <2>5
  <2>8. \A w \in Worker : job'[w] # None =>
            /\ status'[job'[w]] = "waiting"
            /\ \A i \in DOMAIN queue' : queue'[i] # job'[w]
            /\ \A v \in Worker : job'[v] = job'[w] => v = w
    BY <1>3, <1>4, <2>1, <2>2, <2>4, <2>5
  <2>9. QED
    BY <2>6, <2>7, <2>8 DEF Single
<1>6. ASSUME NEW w \in Worker, Take(w)
      PROVE  Single'
  <2>1. /\ queue # <<>> /\ queue' = Tail(queue) /\ status' = status
        /\ job' = [job EXCEPT ![w] = Head(queue)]
    BY <1>6 DEF Take
  <2>2. /\ DOMAIN queue' = 1 .. Len(queue) - 1 /\ Len(queue) > 0
        /\ Head(queue) = queue[1]
        /\ \A i \in 1 .. Len(queue) - 1 : queue'[i] = queue[i + 1]
    BY <1>4, <2>1, HeadTailProperties, EmptySeq, LenProperties
  <2>3. \A i \in 1 .. Len(queue) - 1 : i + 1 \in 2 .. Len(queue)
    BY <1>4
  <2>4. \A i \in DOMAIN queue' : status'[queue'[i]] = "waiting" /\ queue'[i] # Head(queue)
    BY <1>3, <1>4, <2>1, <2>2, <2>3
  <2>5. \A i, j \in DOMAIN queue' : queue'[i] = queue'[j] => i = j
    BY <1>3, <1>4, <2>2, <2>3
  <2>6. 1 \in DOMAIN queue
    BY <1>4, <2>2
  <2>7. \A v \in Worker : job[v] # Head(queue)
    BY <1>3, <1>4, <2>2, <2>6, Constants
  <2>8. \A v \in Worker : job'[v] # None =>
            /\ status'[job'[v]] = "waiting"
            /\ \A i \in DOMAIN queue' : queue'[i] # job'[v]
            /\ \A u \in Worker : job'[u] = job'[v] => u = v
    <3>1. ASSUME NEW v \in Worker, job'[v] # None
          PROVE  /\ status'[job'[v]] = "waiting"
                 /\ \A i \in DOMAIN queue' : queue'[i] # job'[v]
                 /\ \A u \in Worker : job'[u] = job'[v] => u = v
      <4>1. CASE v = w
        BY <1>3, <1>4, <2>1, <2>2, <2>4, <2>6, <2>7, <4>1
      <4>2. CASE v # w
        <5>1. job'[v] = job[v] /\ job[v] # None
          BY <1>4, <2>1, <3>1, <4>2
        <5>2. \A i \in DOMAIN queue' : queue'[i] # job[v]
          BY <1>3, <1>4, <2>2, <2>3, <5>1
        <5>3. \A u \in Worker : job'[u] = job'[v] => u = v
          BY <1>3, <1>4, <2>1, <2>7, <5>1
        <5>4. QED
          BY <1>3, <2>1, <5>1, <5>2, <5>3
      <4>3. QED
        BY <4>1, <4>2
    <3>2. QED
      BY <3>1
  <2>9. QED
    BY <2>4, <2>5, <2>8 DEF Single
<1>7. ASSUME NEW w \in Worker, NEW r \in {"250", "550", "554"}, Answer(w, r), job[w] # None
      PROVE  Single'
  <2>1. /\ status' = [status EXCEPT ![job[w]] = r] /\ queue' = queue
        /\ job' = [job EXCEPT ![w] = None]
    BY <1>7 DEF Answer
  <2>2. \A i \in DOMAIN queue : queue[i] # job[w]
    BY <1>3, <1>7
  <2>3. \A v \in Worker : v # w /\ job[v] # None => job[v] # job[w]
    BY <1>3, <1>7
  <2>4. QED
    BY <1>3, <1>4, <2>1, <2>2, <2>3 DEF Single
<1>8. CASE UNCHANGED <<queue, status, job>>
  BY <1>1, <1>3, <1>8 DEF Single
<1>9. ASSUME NEW w \in Worker, Process(w)
      PROVE  Single'
  <2>1. job[w] # None
    BY <1>9 DEF Typed, PoolOK, Process, StartDelivery, NotDelivered, Delivered, Raised, At
  <2>2. QED
    BY <1>7, <1>8, <1>9, <2>1 DEF Process, StartDelivery, NotDelivered, Delivered, Raised, pool
<1>10. QED
  BY <1>5, <1>6, <1>8, <1>9, HangMoves DEF Next, WorkerStep, Administrator, Expire, MailReader,
     Rest, pool, vars

(* The thread has handed its message over, and will not say that it has    *)
(* not.                                                                    *)
Handed(w) ==
    /\ pc[w] \in {"unlock", "remove", "close", "delivered", "reply", "hung"}
    /\ result[w] # "False"

(* A message that is stored has been answered with 250 or 554, or will be; *)
(* one that is answered with 250, or will be, is stored.                   *)
Honest ==
    /\ \A w \in Worker :
          pc[w] \in {"open", "create", "lockf", "dotlock", "seek",
          "write"} \cup Server!LmtpLabel
              => result[w] = "True"
    /\ method # "Dummy" =>
          /\ \A c \in Stored :
                \/ status[c] \in {"250", "554"}
                \/ \E w \in Worker : job[w] = c /\ Handed(w)
          /\ \A c \in Conn : status[c] = "250" => c \in Stored
          /\ \A w \in Worker :
                /\ pc[w] \in {"unlock", "remove", "close", "delivered", "reply"}
                /\ result[w] = "True"
                => job[w] \in Stored

(* What is stored, once unreliable for ever so.                            *)
LEMMA ReliableFalls ==
    ASSUME Typed, [Next]_vars, Reliable'
    PROVE  Reliable
<1>1. created \in 0 .. 2
  BY DEF Typed, Box!BoxTypeOK
<1>2. method' = method /\ dotlocks' = dotlocks
  BY HangMoves DEF Next, WorkerStep, Submit, Take, Process, StartDelivery, Delivered,
     NotDelivered, Raised, Answer, Administrator, Expire, MailReader, Rest, boxVars, vars, pool,
     Box!BoxDeliver, Box!Open, Box!Create, Box!OpenRaises, Box!LockF,
     Box!LockFClash, Box!DotLock, Box!DotLockFails, Box!Seek, Box!Write, Box!WriteFails,
     Box!FlushFails, Box!Unlock, Box!Remove, Box!Close, Box!boxVars,
     Box!MailReader, Box!ReaderLockF, Box!ReaderDotLock, Box!ReaderGivesUp
<1>3. created <= created' /\ buffered \subseteq buffered'
  <2>1. CASE UNCHANGED <<created, buffered>>
    BY <1>1, <2>1
  <2>2. ASSUME NEW w \in Worker, Box!Create(w) \/ Box!FlushFails(w)
        PROVE  created <= created' /\ buffered \subseteq buffered'
    BY <1>1, <2>2 DEF Box!Create, Box!FlushFails
  <2>3. QED
    BY <2>1, <2>2, HangMoves DEF Next, WorkerStep, Submit, Take, Process, StartDelivery,
        Delivered, NotDelivered, Raised, Answer, Administrator, Expire, MailReader, Rest,
        boxVars, vars, Box!BoxDeliver, Box!Open, Box!OpenRaises, Box!LockF, Box!LockFClash,
        Box!DotLock, Box!DotLockFails, Box!Seek, Box!Write, Box!WriteFails, Box!Unlock,
        Box!Remove, Box!Close, Box!boxVars, Box!MailReader, Box!ReaderLockF,
        Box!ReaderDotLock, Box!ReaderGivesUp
<1>4. (created' < 2 => created < 2) /\ (buffered' = {} => buffered = {})
  <2>1. created' \in 0 .. 2
    BY StepTyped DEF Typed, Box!BoxTypeOK
  <2>2. QED
    BY <1>1, <1>3, <2>1
<1>5. QED
  BY <1>2, <1>4 DEF Reliable, Box!Reliable

(* Only messages are stored.                                               *)
LEMMA StoredTyped == Typed => Stored \subseteq Conn
<1> SUFFICES ASSUME Typed PROVE Stored \subseteq Conn
  OBVIOUS
<1>1. file # Missing => \A i \in DOMAIN file : file[i] \in Conn
  BY LenProperties, ElementOfSeq DEF Typed, Box!BoxTypeOK
<1>2. QED
  BY <1>1 DEF Typed, Box!BoxTypeOK, Server!LmtpTypeOK, Stored, Box!Messages, Box!Content

(* In a box that can be relied on, the write at its end is what stores a   *)
(* message, and nothing takes one out.                                     *)
LEMMA StoredInBox ==
    ASSUME Typed, Whole, Reliable, Reliable', NEW w \in Worker, BoxStep(w)
    PROVE  Stored' = IF Box!Write(w) THEN Stored \cup {job[w]} ELSE Stored
<1>1. /\ Box!BoxDeliver(w) /\ taken' = taken
      /\ Box!Reliable /\ Box!Reliable'
  <2>1. method = "Filesystem" /\ method' = method
    BY BoxMoves DEF Typed, Placed, Moves, BoxStep, pool
  <2>2. QED
    BY <2>1 DEF BoxStep, lmtpVars, Reliable
<1>2. (file # Missing => file \in Seq(Conn) /\ Len(file) \in Nat /\ DOMAIN file = 1 .. Len(file))
      /\ job[w] \in Conn
  <2>1. file # Missing => file \in Seq(Conn) /\ Len(file) \in Nat /\ DOMAIN file = 1 .. Len(file)
    BY LenProperties DEF Typed, Box!BoxTypeOK
  <2>2. job[w] \in Conn
    BY BoxMoves DEF Typed, PoolOK, Moves, Box!BoxLabel
  <2>3. QED
    BY <2>1, <2>2
<1>3. pc[w] = "write" => file # Missing /\ offset[w] = Len(file) /\ file' # Missing
  <2>1. ASSUME pc[w] = "write"
        PROVE  file # Missing /\ offset[w] = Len(file)
    BY <1>1, <2>1 DEF Typed, Placed, Box!BoxLabel, Whole
  <2>2. pc[w] = "write" => pc'[w] = "unlock"
    BY <1>1 DEF Typed, PoolOK, Box!BoxDeliver, Box!Open, Box!Create, Box!OpenRaises,
       Box!LockF, Box!LockFClash, Box!DotLock, Box!DotLockFails, Box!Seek, Box!Write,
       Box!WriteFails, Box!FlushFails, Box!Unlock, Box!Remove, Box!Close, Box!Unlocks,
       Box!At, Box!Goto
  <2>3. QED
    BY <2>1, <2>2, BoxTyped DEF Typed, Placed, Box!BoxLabel
<1>4. CASE Box!Write(w)
  <2>1. file # Missing /\ file' # Missing /\ file' = Append(file, job[w])
    BY <1>2, <1>3, <1>4 DEF Box!Write, Box!Put, Box!At
  <2>2. /\ DOMAIN file' = 1 .. Len(file) + 1
        /\ file'[Len(file) + 1] = job[w]
        /\ \A i \in 1 .. Len(file) : file'[i] = file[i]
    BY <1>2, <2>1, AppendProperties, LenProperties
  <2>3. /\ Box!Messages = {file[i] : i \in 1 .. Len(file)}
        /\ Box!Messages' = {file'[i] : i \in 1 .. Len(file) + 1}
    BY <1>2, <2>1, <2>2 DEF Box!Messages, Box!Content
  <2>4. Box!Messages' = Box!Messages \cup {job[w]}
    BY <1>2, <2>1, <2>2, <2>3
  <2>5. QED
    BY <1>1, <1>4, <2>4 DEF Stored
<1>5. CASE Box!WriteFails(w)
  <2>1. ~Box!Write(w)
    BY <1>5 DEF Box!WriteFails, Box!Write, Box!Unlocks, Typed, PoolOK
  <2>2. file' = file
    <3>1. file' = SubSeq(file, 1, Len(file)) /\ file # Missing
      BY <1>2, <1>3, <1>5 DEF Box!WriteFails, Box!At
    <3>2. QED
      BY <1>2, <3>1, SubSeqFull
  <2>3. QED
    BY <1>1, <2>1, <2>2 DEF Stored, Box!Messages, Box!Content
<1>6. CASE Box!Create(w)
  <2>1. Box!Messages' = {}
    BY <1>6 DEF Box!Create, Box!Messages, Box!Content
  <2>2. Box!Messages = {}
    <3>1. created \in 0 .. 2 /\ created' < 2
      BY <1>1 DEF Typed, Box!BoxTypeOK, Box!Reliable
    <3>2. created = 0
      BY <1>6, <3>1 DEF Box!Create
    <3>3. file = Missing
      BY <1>6, <3>2 DEF Whole, Box!Create, Box!At
    <3>4. QED
      BY <3>3 DEF Box!Messages
  <2>3. ~Box!Write(w)
    BY <1>6 DEF Box!Create, Box!Write, Box!At
  <2>4. QED
    BY <1>1, <2>1, <2>2, <2>3 DEF Stored
<1>7. CASE ~Box!Write(w) /\ ~Box!WriteFails(w) /\ ~Box!Create(w)
  <2>1. file' = file
    BY <1>1, <1>7 DEF Box!BoxDeliver, Box!Open, Box!OpenRaises,
       Box!LockF, Box!LockFClash, Box!DotLock, Box!DotLockFails, Box!Seek, Box!FlushFails,
       Box!Unlock, Box!Remove, Box!Close, Box!CloseFile, Box!boxVars, Box!Reliable
  <2>2. QED
    BY <1>1, <1>7, <2>1 DEF Stored, Box!Messages, Box!Content
<1>8. QED
  BY <1>4, <1>5, <1>6, <1>7

(* The end of the text is what stores a message on the server.             *)
LEMMA StoredInServer ==
    ASSUME Typed, NEW w \in Worker, LmtpStep(w)
    PROVE  Stored' = IF Server!SendText(w) THEN Stored \cup {job[w]} ELSE Stored
<1>1. Server!LmtpDeliver(w) /\ file' = file
  BY DEF LmtpStep, boxVars
<1>2. taken' = IF Server!SendText(w) THEN taken \cup {job[w]} ELSE taken
  <2>1. CASE Server!SendText(w)
    BY <2>1 DEF Server!SendText
  <2>2. CASE ~Server!SendText(w)
    BY <1>1, <2>2 DEF Server!LmtpDeliver, Server!Connect, Server!ConnectFails, Server!Lhlo,
       Server!LhloFails, Server!StartTls, Server!StartTlsFails, Server!StartTlsRaises,
       Server!Login, Server!LoginFails, Server!SendmailFails, Server!SendmailReturns,
       Server!ReplyLost, Server!lmtpVars
  <2>3. QED
    BY <2>1, <2>2
<1>3. QED
  BY <1>1, <1>2 DEF Stored, Box!Messages, Box!Content

(* Nothing else stores a message.                                          *)
LEMMA StoredElsewhere ==
    ASSUME Typed, [Next]_vars, ~ \E w \in Worker : BoxStep(w) \/ LmtpStep(w)
    PROVE  Stored' = Stored
<1>1. UNCHANGED <<file, taken>>
  BY HangMoves DEF Next, WorkerStep, BoxStep, LmtpStep, Submit, Take, Process, StartDelivery,
     NotDelivered, Delivered, Raised, Answer, Administrator, Expire, MailReader, Rest,
     Box!MailReader, Box!ReaderLockF, Box!ReaderDotLock, Box!ReaderGivesUp,
     boxVars, lmtpVars, vars
<1>2. QED
  BY <1>1 DEF Stored, Box!Messages, Box!Content

Early == {"open", "create", "lockf", "dotlock", "seek", "write"} \cup Server!LmtpLabel
Late == {"unlock", "remove", "close", "delivered", "reply"}

(* What a step inside a delivery method does to the thread's own part of   *)
(* Honest.                                                                 *)
LEMMA DeliveryHonest ==
    ASSUME Typed, Whole, Honest, Reliable, Reliable', method # "Dummy",
           NEW w \in Worker, BoxStep(w) \/ LmtpStep(w)
    PROVE  /\ Handed(w) => Handed(w)'
           /\ Stored' = Stored \/ (Stored' = Stored \cup {job[w]} /\ Handed(w)')
           /\ pc'[w] \in Early => result'[w] = "True"
           /\ pc'[w] \in Late /\ result'[w] = "True" => job[w] \in Stored'
<1>1. /\ pc \in [Worker -> Label] /\ result \in [Worker -> {None, "True", "False", "raised"}]
      /\ pc[w] \in Early => result[w] = "True"
      /\ pc[w] \in Late /\ result[w] = "True" => job[w] \in Stored
  BY DEF Typed, PoolOK, Honest, Early, Late
<1>2. CASE BoxStep(w)
  <2>1. Box!BoxDeliver(w)
    BY <1>2 DEF BoxStep
  <2>2. CASE Box!Write(w)
    <3>1. pc'[w] = "unlock" /\ result'[w] = "True"
      BY <1>1, <2>2 DEF Box!Write, Box!Unlocks, Box!Goto
    <3>2. Stored' = Stored \cup {job[w]}
      BY <1>2, <2>2, StoredInBox
    <3>3. QED
      BY <3>1, <3>2 DEF Handed, Early, Server!LmtpLabel
  <2>3. CASE ~Box!Write(w)
    <3>1. Stored' = Stored
      BY <1>2, <2>3, StoredInBox
    <3>2. CASE Box!Open(w) \/ Box!Create(w) \/ Box!LockF(w) \/ Box!DotLock(w) \/ Box!Seek(w)
      <4>1. pc[w] \in {"open", "create", "lockf", "dotlock", "seek"} /\ result' = result
            /\ pc'[w] \in {"create", "lockf", "dotlock", "seek", "write"}
        BY <1>1, <3>2 DEF Box!Open, Box!Create, Box!LockF, Box!DotLock, Box!Seek, Box!At,
            Box!Goto
      <4>2. QED
        BY <1>1, <3>1, <4>1 DEF Handed, Early, Late
    <3>3. CASE \/ Box!OpenRaises(w) \/ Box!LockFClash(w) \/ Box!DotLockFails(w)
               \/ Box!WriteFails(w) \/ Box!FlushFails(w)
      <4>1. pc[w] \in {"open", "create", "lockf", "dotlock", "write"}
            /\ pc'[w] \in {"close", "delivered", "unlock"} /\ result'[w] \in {"False", "raised"}
        BY <1>1, <3>3 DEF Box!OpenRaises, Box!LockFClash, Box!DotLockFails, Box!WriteFails,
           Box!FlushFails, Box!Fails, Box!Unlocks, Box!At, Box!Goto
      <4>2. QED
        BY <3>1, <4>1 DEF Handed, Early, Server!LmtpLabel
    <3>4. CASE Box!Unlock(w) \/ Box!Remove(w) \/ Box!Close(w)
      <4>1. pc[w] \in {"unlock", "remove", "close"} /\ pc'[w] \in {"remove", "close",
      "delivered"}
            /\ result'[w] \in {result[w], "raised"}
        BY <1>1, <3>4 DEF Box!Unlock, Box!Remove, Box!Close, Box!CloseFile, Box!At, Box!Goto
      <4>2. QED
        BY <1>1, <3>1, <4>1 DEF Handed, Early, Late, Server!LmtpLabel
    <3>5. QED
      BY <2>1, <2>3, <3>2, <3>3, <3>4 DEF Box!BoxDeliver
  <2>4. QED
    BY <2>2, <2>3
<1>3. CASE LmtpStep(w)
  <2>1. Server!LmtpDeliver(w)
    BY <1>3 DEF LmtpStep
  <2>2. CASE Server!SendText(w)
    <3>1. pc[w] = "mail" /\ pc'[w] = "reply" /\ result' = result
      BY <1>1, <2>2 DEF Server!SendText, Server!At, Server!Goto
    <3>2. Stored' = Stored \cup {job[w]} /\ result[w] = "True"
      BY <1>1, <1>3, <2>2, <3>1, StoredInServer DEF Early, Server!LmtpLabel
    <3>3. QED
      BY <3>1, <3>2 DEF Handed, Late
  <2>3. CASE ~Server!SendText(w)
    <3>1. Stored' = Stored
      BY <1>3, <2>3, StoredInServer
    <3>2. CASE pc'[w] # "delivered"
      <4>1. pc[w] \in {"connect", "lhlo", "starttls", "lhlo again", "login"} /\ result' = result
            /\ pc'[w] \in Server!LmtpLabel \ {"reply"}
        BY <1>1, <2>1, <2>3, <3>2 DEF Server!LmtpDeliver, Server!Connect,
           Server!ConnectFails, Server!Lhlo, Server!LhloFails, Server!StartTls,
           Server!StartTlsFails, Server!StartTlsRaises, Server!Login, Server!LoginFails,
           Server!SendmailFails, Server!SendmailReturns, Server!ReplyLost, Server!At,
           Server!Goto, Server!Return, Server!AfterEncryption, Server!LmtpLabel, Server!lmtpVars
      <4>2. QED
        BY <1>1, <3>1, <4>1 DEF Handed, Early, Late, Server!LmtpLabel
    <3>3. CASE pc'[w] = "delivered"
      <4>1. \/ pc[w] = "reply" /\ result'[w] \in {"True", "raised"}
            \/ /\ pc[w] \in Server!LmtpLabel \ {"reply", "hung"}
               /\ result'[w] \in {"False", "raised"}
        BY <1>1, <2>1, <2>3, <3>3 DEF Server!LmtpDeliver, Server!Connect,
           Server!ConnectFails, Server!Lhlo, Server!LhloFails, Server!StartTls,
           Server!StartTlsFails, Server!StartTlsRaises, Server!Login, Server!LoginFails,
           Server!SendmailFails, Server!SendmailReturns, Server!ReplyLost, Server!At,
           Server!Goto, Server!Return, Server!AfterEncryption, Server!LmtpLabel
      <4>2. QED
        BY <1>1, <3>1, <3>3, <4>1 DEF Handed, Early, Late, Server!LmtpLabel
    <3>4. QED
      BY <3>2, <3>3
  <2>4. QED
    BY <2>2, <2>3
<1>4. QED
  BY <1>2, <1>3

(* The delivery method is configured once.                                 *)
LEMMA MethodStays ==
    ASSUME Typed, [Next]_vars
    PROVE  method' = method
BY HangMoves DEF Next, Submit, WorkerStep, Take, Process, StartDelivery, NotDelivered,
   Delivered, Raised, Answer, Administrator, Expire, MailReader, Rest, pool, vars

(* The thread's part of Honest, and that of the messages.                  *)
Own(w) ==
    /\ pc[w] \in Early => result[w] = "True"
    /\ method # "Dummy" /\ pc[w] \in Late /\ result[w] = "True" => job[w] \in Stored

Known(c) == status[c] \in {"250", "554"} \/ \E w \in Worker : job[w] = c /\ Handed(w)

(* Honest is said of each thread, and of the stored and answered messages. *)
LEMMA HonestIs ==
    Honest <=> /\ \A w \in Worker : Own(w)
               /\ method # "Dummy" =>
                    /\ \A c \in Stored : Known(c)
                    /\ \A c \in Conn : status[c] = "250" => c \in Stored
BY DEF Honest, Own, Known, Early, Late

(* Every step without a fault keeps answers and stored messages together.  *)
LEMMA HonestKept ==
    ASSUME Typed, Whole, Single, Honest, Reliable, Reliable', [Next]_vars
    PROVE  Honest'
<1>1. method' = method /\ Typed' /\ Single'
  BY MethodStays, StepTyped, SingleKept
<1>2. \A w \in Worker : Own(w)
  BY HonestIs
<1>3. CASE method = "Dummy"
  <2>1. \A w \in Worker : pc'[w] \notin Early
    BY <1>1, <1>3 DEF Typed, Placed, Early, Box!BoxLabel
  <2>2. QED
    BY <1>1, <1>3, <2>1, HonestIs DEF Own, Honest, Early
<1>4. CASE method # "Dummy"
  <2>1. /\ \A c \in Stored : Known(c)
        /\ \A c \in Conn : status[c] = "250" => c \in Stored
    BY <1>4, HonestIs
  <2>2. /\ pc \in [Worker -> Label] /\ job \in [Worker -> Conn \cup {None}]
        /\ status \in [Conn -> {"none", "waiting", "250", "550", "554"}]
        /\ result \in [Worker -> {None, "True", "False", "raised"}]
    BY DEF Typed, PoolOK
  <2>3. SUFFICES /\ \A v \in Worker : Own(v)'
                 /\ \A c \in Stored' : Known(c)'
                 /\ \A c \in Conn : status'[c] = "250" => c \in Stored'
    BY <1>1, <1>4 DEF Honest, Own, Known, Early, Late
  <2>4. CASE ~ \E w \in Worker : WorkerStep(w) \/ Hang(w)
    <3>1. UNCHANGED <<pc, result, job>> /\ Stored' = Stored
      BY <2>4, NoThread, StoredElsewhere DEF WorkerStep, BoxStep, LmtpStep
    <3>2. \A v \in Worker : Own(v)' /\ (Handed(v)' <=> Handed(v))
      BY <1>1, <1>2, <3>1 DEF Own, Handed
    <3>3. \A c \in Conn : status'[c] = status[c] \/ (status[c] = "none" /\ status'[c] = "waiting")
      BY <1>4, <2>2, <2>4 DEF Next, Submit, Administrator, Expire, MailReader, Rest, pool, vars
    <3>4. Stored \subseteq Conn
      BY StoredTyped
    <3>5. QED
      BY <2>1, <3>1, <3>2, <3>3, <3>4 DEF Known
  <2>5. ASSUME NEW w \in Worker, BoxStep(w) \/ LmtpStep(w) \/ Hang(w)
        PROVE  /\ \A v \in Worker : Own(v)'
               /\ \A c \in Stored' : Known(c)'
               /\ \A c \in Conn : status'[c] = "250" => c \in Stored'
    <3>1. status' = status /\ job' = job
      BY <2>5, HangMoves DEF BoxStep, LmtpStep, pool
    <3>2. /\ Handed(w) => Handed(w)'
          /\ Stored' = Stored \/ (Stored' = Stored \cup {job[w]} /\ Handed(w)')
          /\ Own(w)'
      <4>1. CASE BoxStep(w) \/ LmtpStep(w)
        BY <1>1, <1>4, <3>1, <4>1, DeliveryHonest DEF Own
      <4>2. CASE Hang(w)
        <5>1. /\ pc[w] \in Server!LmtpLabel /\ pc'[w] = "hung" /\ result' = result
              /\ UNCHANGED <<boxVars, lmtpVars>>
          BY <4>2, HangMoves
        <5>2. Stored' = Stored
          BY <5>1 DEF Stored, Box!Messages, Box!Content, boxVars, lmtpVars
        <5>3. QED
          BY <1>2, <5>1, <5>2 DEF Own, Handed, Early, Late
      <4>3. QED
        BY <2>5, <4>1, <4>2
    <3>3. \A v \in Worker \ {w} : pc'[v] = pc[v] /\ result'[v] = result[v]
      BY <2>5, OtherThread DEF WorkerStep, BoxStep, LmtpStep
    <3>4. \A v \in Worker : Handed(v) => Handed(v)'
      BY <3>2, <3>3 DEF Handed
    <3>5. Stored \subseteq Stored'
      BY <3>2
    <3>6. \A v \in Worker : Own(v)'
      BY <1>1, <1>2, <3>1, <3>2, <3>3, <3>5 DEF Own
    <3>7. QED
      BY <2>1, <3>1, <3>2, <3>4, <3>5, <3>6 DEF Known
  <2>6. ASSUME NEW w \in Worker, Take(w) \/ Process(w) \/ ListStep(w)
        PROVE  /\ \A v \in Worker : Own(v)'
               /\ \A c \in Stored' : Known(c)'
               /\ \A c \in Conn : status'[c] = "250" => c \in Stored'
    <3>1. Stored' = Stored
      BY <2>6 DEF Take, Process, StartDelivery, NotDelivered, Delivered, Raised, Answer,
         ListStep, boxVars, lmtpVars, Stored, Box!Messages, Box!Content
    <3>2. \A v \in Worker \ {w} : /\ pc'[v] = pc[v] /\ result'[v] = result[v]
                                  /\ job'[v] = job[v]
      BY <2>6, OtherThread DEF WorkerStep, ListStep
    <3>3. \A v \in Worker \ {w} : Own(v)' /\ (Handed(v)' <=> Handed(v))
      BY <1>1, <1>2, <3>1, <3>2 DEF Own, Handed
    <3>4. CASE Take(w) \/ ListStep(w) \/ StartDelivery(w)
      <4>1. status' = status /\ ~Handed(w)
            /\ \/ pc'[w] \in {"judged"} \cup Users!ListLabel
               \/ pc'[w] \in {"open", "connect"} /\ result'[w] = "True"
        <5>1. CASE Take(w)
          BY <2>2, <5>1 DEF Take, At, Goto, Handed, Users!ListLabel
        <5>2. CASE ListStep(w)
          BY <5>2, ListMoves DEF ListStep, Moves, Users!ListLabel, Handed, pool
        <5>3. CASE StartDelivery(w)
          BY <1>4, <2>2, <5>3 DEF StartDelivery, At, Goto, Handed, pool, Typed, PoolOK
        <5>4. QED
          BY <3>4, <5>1, <5>2, <5>3
      <4>2. Own(w)'
        BY <4>1 DEF Own, Early, Late, Users!ListLabel, Server!LmtpLabel
      <4>3. \A c \in Stored : Known(c)'
        BY <2>1, <3>2, <3>3, <4>1 DEF Known
      <4>4. QED
        BY <2>1, <3>1, <3>3, <4>1, <4>2, <4>3
    <3>5. CASE NotDelivered(w) \/ Delivered(w) \/ Raised(w)
      <4>1. PICK r \in {"250", "550", "554"} :
                /\ Answer(w, r)
                /\ r = "250" => At(w, "delivered") /\ result[w] = "True"
                /\ r = "550" => ~Handed(w)
        BY <3>5 DEF NotDelivered, Delivered, Raised, Handed, At
      <4>2. /\ job[w] \in Conn /\ status' = [status EXCEPT ![job[w]] = r] /\ pc'[w] = "idle"
            /\ status[job[w]] = "waiting"
        BY <1>4, <2>2, <3>5, <4>1 DEF Typed, PoolOK, NotDelivered, Delivered, Raised,
            Answer, At, Goto, Single
      <4>3. \A v \in Worker : job[v] = job[w] => v = w
        BY <1>4, <4>2, Constants DEF Single
      <4>4. Own(w)'
        BY <4>2 DEF Own, Early, Late, Server!LmtpLabel
      <4>5. r = "250" => job[w] \in Stored
        BY <1>2, <1>4, <4>1 DEF Own, Late, At
      <4>6. \A c \in Conn : status'[c] = "250" => c \in Stored
        BY <2>1, <2>2, <4>2, <4>5
      <4>7. ASSUME NEW c \in Stored
            PROVE  Known(c)'
        <5>1. Known(c)
          BY <2>1
        <5>2. CASE c = job[w]
          <6>1. Handed(w)
            BY <4>2, <4>3, <5>1, <5>2 DEF Known
          <6>2. QED
            BY <2>2, <4>1, <4>2, <5>2, <6>1 DEF Known
        <5>3. CASE c # job[w]
          <6>1. CASE status[c] \in {"250", "554"}
            BY <4>2, <5>3, <6>1 DEF Known
          <6>2. CASE \E v \in Worker : job[v] = c /\ Handed(v)
            BY <3>2, <3>3, <5>3, <6>2 DEF Known
          <6>3. QED
            BY <5>1, <6>1, <6>2 DEF Known
        <5>4. QED
          BY <5>2, <5>3
      <4>8. QED
        BY <3>1, <3>3, <4>4, <4>6, <4>7
    <3>6. QED
      BY <2>6, <3>4, <3>5 DEF Process
  <2>7. QED
    BY <2>4, <2>5, <2>6 DEF WorkerStep, ListStep, BoxStep, LmtpStep
<1>5. QED
  BY <1>3, <1>4

(* Nothing is stored and nothing answered at the start.                    *)
LEMMA InitHonest == ASSUME Init PROVE Single /\ Honest
<1>1. Single
  BY DEF Init, Single
<1>2. Stored = {}
  BY DEF Init, Box!BoxInit, Server!LmtpInit, Stored, Box!Messages, Box!Content
<1>3. Honest
  BY <1>2 DEF Init, Honest, Server!LmtpLabel
<1>4. QED
  BY <1>1, <1>3

(* What process_message has heard of a message, without a choice: a        *)
(* message that deliver has come back with is with one thread.             *)
Says(r) ==
    IF r = "True" THEN "stored"
    ELSE IF r = "False" THEN "not stored"
    ELSE IF r = "raised" THEN "exception" ELSE "nothing"

Waiting(c) == status[c] \in {"none", "waiting"}
Back(w) == pc[w] = "delivered"

ToldOK ==
    /\ Told = [c \in Conn |-> Told[c]]
    /\ \A c \in Conn :
          /\ status[c] = "250" => Told[c] = "stored"
          /\ status[c] = "550" => Told[c] = "not stored"
          /\ status[c] = "554" => Told[c] = "exception"
          /\ Waiting(c) /\ (\A w \in Worker : Back(w) => job[w] # c) => Told[c] = "nothing"
    /\ \A w \in Worker : Back(w) =>
          job[w] \in Conn /\ Waiting(job[w]) /\ Told[job[w]] = Says(result[w])

(* What process_message was told of each message, read off the state.      *)
LEMMA ToldIs == Typed /\ Single /\ method # "Dummy" => ToldOK
<1> SUFFICES ASSUME Typed, Single, method # "Dummy" PROVE ToldOK
  OBVIOUS
<1> DEFINE Word(c) == IF \E w \in Worker : job[w] = c /\ At(w, "delivered")
                      THEN result[CHOOSE w \in Worker : job[w] = c /\ At(w, "delivered")]
                      ELSE "none"
           Heard(c) == IF method = "Dummy" THEN "nothing"
                       ELSE CASE status[c] = "250" \/ Word(c) = "True" -> "stored"
                              [] status[c] = "550" \/ Word(c) = "False" -> "not stored"
                              [] status[c] = "554" \/ Word(c) = "raised" -> "exception"
                              [] OTHER -> "nothing"
<1>1. Told = [c \in Conn |-> Heard(c)]
  BY DEF Told
<1>2. /\ status \in [Conn -> {"none", "waiting", "250", "550", "554"}]
      /\ job \in [Worker -> Conn \cup {None}]
      /\ result \in [Worker -> {None, "True", "False", "raised"}]
      /\ \A w \in Worker : Back(w) => job[w] # None
      /\ \A w \in Worker : job[w] # None =>
            status[job[w]] = "waiting" /\ \A v \in Worker : job[v] = job[w] => v = w
  BY DEF Typed, PoolOK, Single, Back
<1>3. ASSUME NEW c \in Conn, \A w \in Worker : Back(w) => job[w] # c
      PROVE  Heard(c) = IF status[c] = "250" THEN "stored"
                        ELSE IF status[c] = "550" THEN "not stored"
                        ELSE IF status[c] = "554" THEN "exception" ELSE "nothing"
  <2>1. Word(c) = "none"
    BY <1>3 DEF At, Back
  <2> HIDE DEF Word
  <2>2. QED
    BY <2>1
<1>4. ASSUME NEW w \in Worker, Back(w)
      PROVE  job[w] \in Conn /\ Waiting(job[w]) /\ Heard(job[w]) = Says(result[w])
  <2>1. job[w] \in Conn /\ status[job[w]] = "waiting"
    BY <1>2, <1>4
  <2>2. w = CHOOSE v \in Worker : job[v] = job[w] /\ At(v, "delivered")
    BY <1>2, <1>4, <2>1 DEF At, Back
  <2>3. Word(job[w]) = result[w]
    BY <1>4, <2>2 DEF At, Back
  <2> HIDE DEF Word
  <2>4. QED
    BY <2>1, <2>3 DEF Waiting, Says
<1>5. ASSUME NEW c \in Conn, NEW w \in Worker, Back(w), job[w] = c
      PROVE  Waiting(c) /\ status[c] \notin {"250", "550", "554"}
  BY <1>2, <1>5 DEF Waiting
<1> HIDE DEF Heard
<1>6. QED
  BY <1>1, <1>3, <1>4, <1>5 DEF ToldOK, Waiting

(* The same of the next state.                                             *)
LEMMA ToldNext == (Typed /\ Single /\ method # "Dummy")' => ToldOK'
BY ToldIs, PTL

(* A message keeps its word while neither its answer nor the thread that   *)
(* has come back with it changes.                                          *)
LEMMA SameWord ==
    ASSUME ToldOK, ToldOK', status \in [Conn -> {"none", "waiting", "250", "550", "554"}],
           NEW c \in Conn,
           status'[c] = status[c] \/ (Waiting(c) /\ Waiting(c)'),
           \A v \in Worker : (Back(v) /\ job[v] = c) <=> (Back(v)' /\ job'[v] = c),
           \A v \in Worker : Back(v) /\ job[v] = c => result'[v] = result[v]
    PROVE  Told'[c] = Told[c]
<1>1. CASE \E v \in Worker : Back(v) /\ job[v] = c
  <2>1. PICK v \in Worker : Back(v) /\ job[v] = c
    BY <1>1
  <2>2. Told[c] = Says(result[v])
    BY <2>1 DEF ToldOK
  <2>3. Told'[c] = Says(result'[v])
    <3>1. Back(v)' /\ job'[v] = c
      BY <2>1
    <3>2. Back(v)' => Told'[job'[v]] = Says(result[v])'
      BY DEF ToldOK
    <3>3. Says(result[v])' = Says(result'[v])
      BY DEF Says
    <3>4. QED
      BY <3>1, <3>2, <3>3
  <2>4. QED
    BY <2>1, <2>2, <2>3
<1>2. CASE ~ \E v \in Worker : Back(v) /\ job[v] = c
  <2>1. (\A w \in Worker : Back(w) => job[w] # c) /\ (\A w \in Worker : Back(w)' => job'[w] # c)
    BY <1>2
  <2>2. CASE Waiting(c) /\ Waiting(c)'
    <3>1. Told[c] = "nothing"
      BY <2>1, <2>2 DEF ToldOK
    <3>2. Told'[c] = "nothing"
      BY <2>1, <2>2 DEF ToldOK
    <3>3. QED
      BY <3>1, <3>2
  <2>3. ASSUME NEW s \in {"250", "550", "554"}, status[c] = s, status'[c] = s
        PROVE  Told'[c] = Told[c]
    BY <2>3 DEF ToldOK
  <2>4. status'[c] = status[c] /\ Waiting(c) => Waiting(c)'
    BY DEF Waiting
  <2>5. Waiting(c) \/ status[c] \in {"250", "550", "554"}
    BY DEF Waiting
  <2>6. QED
    BY <2>2, <2>3, <2>4, <2>5
<1>3. QED
  BY <1>1, <1>2

(* Nobody hears of a message twice, whatever went wrong.                   *)
LEMMA ToldOnce ==
    ASSUME Typed, Single, method # "Dummy", [Next]_vars, NEW c \in Conn
    PROVE  Told'[c] = Told[c] \/ Told[c] = "nothing"
<1>1. /\ ToldOK /\ ToldOK'
      /\ pc \in [Worker -> Label] /\ job \in [Worker -> Conn \cup {None}]
      /\ status \in [Conn -> {"none", "waiting", "250", "550", "554"}]
  <2>1. (Typed /\ Single /\ method # "Dummy")'
    BY MethodStays, StepTyped, SingleKept
  <2>2. QED
    BY <2>1, ToldIs, ToldNext DEF Typed, PoolOK
<1>2. CASE ~ \E w \in Worker : WorkerStep(w) \/ Hang(w)
  <2>1. UNCHANGED <<pc, result, job>>
    BY <1>2, NoThread
  <2>2. status'[c] = status[c] \/ (Waiting(c) /\ Waiting(c)')
    BY <1>1, <1>2 DEF Next, Submit, Administrator, Expire, MailReader, Rest, pool, vars, Waiting
  <2>3. \A v \in Worker : Back(v)' <=> Back(v)
    BY <2>1 DEF Back
  <2>4. QED
    BY <1>1, <2>1, <2>2, <2>3, SameWord
<1>3. ASSUME NEW w \in Worker, WorkerStep(w) \/ Hang(w)
      PROVE  Told'[c] = Told[c] \/ Told[c] = "nothing"
  <2>1. \A v \in Worker \ {w} : pc'[v] = pc[v] /\ result'[v] = result[v] /\ job'[v] = job[v]
    BY <1>3, OtherThread
  <2>2. CASE \A v \in Worker : Back(v) => job[v] # c
    <3>1. Waiting(c) => Told[c] = "nothing"
      BY <1>1, <2>2 DEF ToldOK
    <3>2. CASE ~Waiting(c)
      <4>1. status'[c] = status[c]
        <5>1. CASE \E r : Answer(w, r)
          <6>1. PICK r : Answer(w, r)
            BY <5>1
          <6>2. status' = [status EXCEPT ![job[w]] = r]
            BY <6>1 DEF Answer
          <6>3. job[w] # c
            BY <3>2, Constants DEF Single, Waiting
          <6>4. QED
            BY <1>1, <6>2, <6>3
        <5>2. CASE ~ \E r : Answer(w, r)
          BY <1>3, <5>2, HangMoves DEF WorkerStep, Take, Process, StartDelivery, NotDelivered,
             Delivered, Raised, pool
        <5>3. QED
          BY <5>1, <5>2
      <4>2. (\A v \in Worker : Back(v)' => job'[v] # c)
        <5>1. ~Waiting(c)'
          BY <3>2, <4>1 DEF Waiting
        <5>2. \A v \in Worker : Back(v)' => Waiting(job[v])'
          BY <1>1 DEF ToldOK
        <5>3. QED
          BY <5>1, <5>2 DEF Waiting
      <4>3. QED
        BY <1>1, <2>2, <4>1, <4>2, SameWord
    <3>3. QED
      BY <3>1, <3>2
  <2>3. CASE \E v \in Worker : Back(v) /\ job[v] = c
    <3>1. PICK v \in Worker : Back(v) /\ job[v] = c
      BY <2>3
    <3>2. \A u \in Worker : job[u] = c => u = v
      BY <3>1, Constants DEF Single
    <3>3. CASE v # w
      <4>1. Back(v)' /\ job'[v] = c
        BY <2>1, <3>1, <3>3 DEF Back
      <4>2. Told[c] = Says(result[v])
        BY <1>1, <3>1 DEF ToldOK
      <4>3. Told'[c] = Says(result'[v])
        <5>1. Back(v)' => Told'[job'[v]] = Says(result[v])'
          BY <1>1 DEF ToldOK
        <5>2. Says(result[v])' = Says(result'[v])
          BY DEF Says
        <5>3. QED
          BY <4>1, <5>1, <5>2
      <4>4. QED
        BY <2>1, <3>3, <4>2, <4>3
    <3>4. CASE v = w
      <4>1. pc[w] = "delivered" /\ job[w] = c
        BY <3>1, <3>4 DEF Back
      <4>2. ~Take(w) /\ ~Hang(w) /\ ~ListStep(w) /\ ~BoxStep(w) /\ ~LmtpStep(w) /\ ~StartDelivery(w)
        BY <4>1, HangMoves, ListMoves, BoxMoves, LmtpMoves DEF Take, At, StartDelivery, Moves,
           Users!ListLabel, Box!BoxLabel, Server!LmtpLabel
      <4>3. NotDelivered(w) \/ Delivered(w) \/ Raised(w)
        BY <1>3, <4>2 DEF WorkerStep, Process, ListStep, BoxStep, LmtpStep
      <4>4. PICK r \in {"250", "550", "554"} :
                /\ Answer(w, r)
                /\ r = "250" => result[w] = "True"
                /\ r = "550" => result[w] = "False"
                /\ r = "554" => result[w] = "raised"
        BY <4>3 DEF NotDelivered, Delivered, Raised, At
      <4>5. status'[c] = r
        BY <1>1, <4>1, <4>4 DEF Answer
      <4>6. Told'[c] = IF r = "250" THEN "stored"
                       ELSE IF r = "550" THEN "not stored" ELSE "exception"
        BY <1>1, <4>5 DEF ToldOK
      <4>7. Told[c] = Says(result[w])
        BY <1>1, <3>1, <3>4 DEF ToldOK
      <4>8. QED
        BY <4>4, <4>6, <4>7 DEF Says
    <3>5. QED
      BY <3>3, <3>4
  <2>4. QED
    BY <2>2, <2>3
<1>4. QED
  BY <1>2, <1>3

(* What process_message has heard is a word or nothing.                    *)
LEMMA ToldTyped == Told \in [Conn -> Promise!Word \cup {"nothing"}]
BY DEF Told, Promise!Word

(* The same of the next state.                                             *)
LEMMA ToldTypedNext == Told' \in [Conn -> Promise!Word \cup {"nothing"}]
BY DEF Told, Promise!Word

(* A message that becomes stored is a step of the promise.                 *)
LEMMA Implementing ==
    ASSUME NEW m \in Conn, Stored' = Stored \cup {m}, Told[m] = "nothing", Told' = Told,
           Reliable, Reliable' = Reliable
    PROVE  Promise!Next
BY DEF Promise!Next, Promise!Store

(* So is an answer that says what is true.                                 *)
LEMMA Telling ==
    ASSUME NEW m \in Conn, Stored' = Stored, Told[m] = "nothing",
           NEW word \in {"stored", "not stored", "exception"},
           word = "stored" => m \in Stored, word = "not stored" => m \notin Stored,
           Told' = [Told EXCEPT ![m] = word],
           Reliable, Reliable' = Reliable
    PROVE  Promise!Next
BY DEF Promise!Next, Promise!Tell, Promise!Word

(* And anything is, from the first fault on, that keeps to what was told.  *)
LEMMA Faulty ==
    ASSUME Typed, Single, [Next]_vars, ~Reliable'
    PROVE  Promise!Next
<1>1. method # "Dummy"
  BY MethodStays DEF Reliable
<1>2. (Stored \subseteq Conn)'
  <2>1. Typed'
    BY StepTyped
  <2>2. QED
    BY <2>1, StoredTyped, PTL
<1>3. \A c \in Conn : Told[c] # "nothing" => Told'[c] = Told[c]
  BY <1>1, ToldOnce
<1>4. Reliable' = FALSE
  OBVIOUS
<1>5. Promise!Fault
  BY <1>2, <1>3, <1>4, ToldTypedNext DEF Promise!Fault
<1>6. QED
  BY <1>5 DEF Promise!Next

(* Without a fault every step of the pool is a step of the promise, or     *)
(* none.                                                                   *)
LEMMA StepImplements ==
    ASSUME Typed, Whole, Single, Honest, Reliable, Reliable', [Next]_vars
    PROVE  [Promise!Next]_(Promise!promise)
<1>1. /\ method' = method /\ Typed' /\ Single' /\ Honest'
      /\ Reliable' = Reliable
  BY MethodStays, StepTyped, SingleKept, HonestKept
<1>2. CASE method = "Dummy"
  <2>1. \A w \in Worker : ~BoxStep(w) /\ ~LmtpStep(w)
    BY <1>2, BoxMoves, LmtpMoves DEF Typed, Placed, Moves
  <2>2. Stored' = Stored
    BY <2>1, StoredElsewhere
  <2>3. Told = [c \in Conn |-> "nothing"]
    BY <1>2 DEF Told
  <2>4. Told' = [c \in Conn |-> "nothing"]
    BY <1>1, <1>2 DEF Told
  <2>5. QED
    BY <2>2, <2>3, <2>4 DEF Promise!promise
<1>3. CASE method # "Dummy"
  <2>1. ToldOK /\ ToldOK'
    <3>1. (method # "Dummy")'
      BY <1>1, <1>3
    <3>2. QED
      BY <1>1, <1>3, <3>1, ToldIs, ToldNext
  <2>2. /\ pc \in [Worker -> Label] /\ job \in [Worker -> Conn \cup {None}]
        /\ status \in [Conn -> {"none", "waiting", "250", "550", "554"}]
        /\ result \in [Worker -> {None, "True", "False", "raised"}]
    BY DEF Typed, PoolOK
  <2>3. Told = [c \in Conn |-> Told[c]] /\ Told' = [c \in Conn |-> Told'[c]]
    BY <2>1 DEF ToldOK
  <2>4. CASE ~ \E w \in Worker : WorkerStep(w) \/ Hang(w)
    <3>1. UNCHANGED <<pc, result, job>> /\ Stored' = Stored
      BY <2>4, NoThread, StoredElsewhere DEF WorkerStep, BoxStep, LmtpStep
    <3>2. \A c \in Conn : status'[c] = status[c] \/ (Waiting(c) /\ Waiting(c)')
      BY <1>3, <2>2, <2>4 DEF Next, Submit, Administrator, Expire, MailReader, Rest, pool, vars,
         Waiting
    <3>3. \A v \in Worker : Back(v)' <=> Back(v)
      BY <3>1 DEF Back
    <3>4. \A c \in Conn : Told'[c] = Told[c]
      BY <2>1, <2>2, <3>1, <3>2, <3>3, SameWord
    <3>5. QED
      BY <2>3, <3>1, <3>4 DEF Promise!promise
  <2>5. ASSUME NEW w \in Worker, WorkerStep(w) \/ Hang(w)
        PROVE  [Promise!Next]_(Promise!promise)
    <3>1. \A v \in Worker \ {w} : /\ pc'[v] = pc[v] /\ result'[v] = result[v]
                                  /\ job'[v] = job[v]
      BY <2>5, OtherThread
    <3>2. ASSUME NEW c \in Conn,
                 status'[c] = status[c] \/ (Waiting(c) /\ Waiting(c)'),
                 Back(w) => job[w] # c, Back(w)' => job'[w] # c
          PROVE  Told'[c] = Told[c]
      <4>1. \A v \in Worker : (Back(v) /\ job[v] = c) <=> (Back(v)' /\ job'[v] = c)
        BY <3>1, <3>2 DEF Back
      <4>2. \A v \in Worker : Back(v) /\ job[v] = c => result'[v] = result[v]
        BY <3>1, <3>2
      <4>3. QED
        BY <2>1, <2>2, <3>2, <4>1, <4>2, SameWord
    <3>3. CASE Take(w) \/ ListStep(w) \/ StartDelivery(w) \/ Hang(w)
      <4>1. status' = status /\ Stored' = Stored /\ ~Back(w) /\ ~Back(w)'
        <5>1. CASE Take(w)
          BY <2>2, <5>1 DEF Take, At, Goto, Back, Stored, Box!Messages, Box!Content,
              boxVars, lmtpVars
        <5>2. CASE ListStep(w)
          BY <5>2, ListMoves DEF ListStep, Moves, Users!ListLabel, pool, Back, Stored,
             Box!Messages, Box!Content, boxVars, lmtpVars
        <5>3. CASE StartDelivery(w)
          BY <1>3, <2>2, <5>3 DEF StartDelivery, At, Goto, Back, pool, Typed, PoolOK, Stored,
             Box!Messages, Box!Content, boxVars, lmtpVars
        <5>4. CASE Hang(w)
          BY <5>4, HangMoves DEF Server!LmtpLabel, Back, pool, Stored,
             Box!Messages, Box!Content, boxVars, lmtpVars
        <5>5. QED
          BY <3>3, <5>1, <5>2, <5>3, <5>4
      <4>2. \A c \in Conn : Told'[c] = Told[c]
        BY <3>2, <4>1
      <4>3. QED
        BY <2>3, <4>1, <4>2 DEF Promise!promise
    <3>4. CASE BoxStep(w) \/ LmtpStep(w)
      <4>1. /\ job[w] \in Conn /\ status' = status /\ job' = job /\ ~Back(w)
            /\ status[job[w]] = "waiting" /\ \A v \in Worker : job[v] = job[w] => v = w
        <5>1. job' = job /\ status' = status /\ pc[w] \in Box!BoxLabel \cup Server!LmtpLabel
          BY <3>4, BoxMoves, LmtpMoves DEF BoxStep, LmtpStep, Moves, pool
        <5>2. job[w] \in Conn /\ job[w] # None
          BY <2>2, <5>1 DEF Typed, PoolOK, Box!BoxLabel, Server!LmtpLabel
        <5>3. QED
          BY <1>3, <5>1, <5>2 DEF Single, Back, Box!BoxLabel, Server!LmtpLabel
      <4>2. \A c \in Conn \ {job[w]} : Told'[c] = Told[c]
        BY <3>2, <4>1
      <4>3. Told[job[w]] = "nothing"
        <5>1. Waiting(job[w]) /\ \A v \in Worker : Back(v) => job[v] # job[w]
          BY <4>1 DEF Waiting
        <5>2. QED
          BY <2>1, <4>1, <5>1 DEF ToldOK
      <4>4. Stored' = Stored \/ (Stored' = Stored \cup {job[w]} /\ Handed(w)')
        BY <1>3, <3>4, DeliveryHonest
      <4>5. CASE ~Back(w)'
        <5>1. Told'[job[w]] = Told[job[w]]
          BY <3>2, <4>1, <4>5
        <5>2. Told' = Told
          BY <2>3, <4>2, <5>1
        <5>3. QED
          BY <4>1, <4>3, <4>4, <5>2, Implementing DEF Promise!promise
      <4>6. CASE Back(w)'
        <5>1. Told'[job[w]] = Says(result'[w])
          <6>1. Back(w)' => Told'[job'[w]] = Says(result[w])'
            BY <2>1 DEF ToldOK
          <6>2. Says(result[w])' = Says(result'[w])
            BY DEF Says
          <6>3. QED
            BY <4>1, <4>6, <6>1, <6>2
        <5>2. Told' = [Told EXCEPT ![job[w]] = Says(result'[w])]
          BY <2>3, <4>1, <4>2, <5>1
        <5>3. Stored' = Stored
          BY <3>4, <4>6, StoredInBox, StoredInServer, <2>2 DEF Box!Write, Box!Unlocks, Box!Goto,
             Server!SendText, Server!Goto, Back
        <5>4. result'[w] = "True" => job[w] \in Stored
          BY <1>3, <3>4, <4>6, <5>3, DeliveryHonest DEF Back, Late
        <5>5. result'[w] = "False" => job[w] \notin Stored
          <6>1. job[w] \in Stored => Known(job[w])
            BY <1>3, HonestIs
          <6>2. Known(job[w]) => Handed(w)
            BY <4>1 DEF Known
          <6>3. Handed(w) => result'[w] # "False"
            BY <1>3, <3>4, DeliveryHonest DEF Handed
          <6>4. QED
            BY <6>1, <6>2, <6>3
        <5>6. CASE Says(result'[w]) = "nothing"
          BY <2>3, <4>3, <5>2, <5>3, <5>6 DEF Promise!promise
        <5>7. CASE Says(result'[w]) # "nothing"
          <6>1. Says(result'[w]) \in {"stored", "not stored", "exception"}
            BY <5>7 DEF Says
          <6>2. /\ Says(result'[w]) = "stored" => job[w] \in Stored
                /\ Says(result'[w]) = "not stored" => job[w] \notin Stored
            BY <5>4, <5>5 DEF Says
          <6>3. Promise!Next
            BY <4>1, <4>3, <5>2, <5>3, <6>1, <6>2, Telling
          <6>4. QED
            BY <6>3
        <5>8. QED
          BY <5>6, <5>7
      <4>7. QED
        BY <4>5, <4>6
    <3>5. CASE NotDelivered(w) \/ Delivered(w) \/ Raised(w)
      <4>1. PICK r \in {"250", "550", "554"} :
                /\ Answer(w, r) /\ pc[w] \in {"judged", "delivered"}
                /\ r = "250" => pc[w] = "delivered" /\ result[w] = "True"
                /\ r = "550" => result[w] = "False"
                /\ r = "554" => result[w] = "raised"
        BY <3>5 DEF NotDelivered, Delivered, Raised, At
      <4>2. /\ job[w] \in Conn /\ status' = [status EXCEPT ![job[w]] = r] /\ ~Back(w)'
            /\ Stored' = Stored
        BY <2>2, <4>1 DEF Typed, PoolOK, Answer, Goto, Back, Stored, Box!Messages, Box!Content,
           boxVars, lmtpVars
      <4>3. status[job[w]] = "waiting" /\ \A v \in Worker : job[v] = job[w] => v = w
        BY <1>3, <4>2, Constants DEF Single
      <4>4. \A c \in Conn \ {job[w]} : Told'[c] = Told[c]
        BY <2>2, <3>2, <4>2
      <4>5. status'[job[w]] = r
        BY <2>2, <4>2
      <4>6. Told'[job[w]] = IF r = "250" THEN "stored"
                            ELSE IF r = "550" THEN "not stored" ELSE "exception"
        BY <2>1, <4>2, <4>5 DEF ToldOK
      <4>7. CASE pc[w] = "delivered"
        <5>1. Told[job[w]] = Says(result[w])
          BY <2>1, <4>7 DEF ToldOK, Back
        <5>2. Told'[job[w]] = Told[job[w]]
          BY <4>1, <4>6, <5>1 DEF Says
        <5>3. QED
          BY <2>3, <4>2, <4>4, <5>2 DEF Promise!promise
      <4>8. CASE pc[w] = "judged"
        <5>1. Told[job[w]] = "nothing"
          <6>1. Waiting(job[w]) /\ \A v \in Worker : Back(v) => job[v] # job[w]
            BY <4>3, <4>8 DEF Waiting, Back
          <6>2. QED
            BY <2>1, <4>2, <6>1 DEF ToldOK
        <5>2. PICK word \in {"not stored", "exception"} : Told'[job[w]] = word
          BY <4>1, <4>6, <4>8
        <5>3. Told' = [Told EXCEPT ![job[w]] = word]
          BY <2>3, <4>2, <4>4, <5>2
        <5>4. job[w] \notin Stored
          BY <1>3, <4>3, <4>8, HonestIs DEF Known, Handed
        <5>5. Promise!Next
          BY <4>2, <5>1, <5>3, <5>4, Telling
        <5>6. QED
          BY <5>5
      <4>9. QED
        BY <4>1, <4>7, <4>8
    <3>6. QED
      BY <2>5, <3>3, <3>4, <3>5 DEF WorkerStep, Process, ListStep, BoxStep, LmtpStep
  <2>6. QED
    BY <2>4, <2>5
<1>4. QED
  BY <1>2, <1>3

(* The pool begins where the promise does.                                 *)
LEMMA InitImplements == ASSUME Init PROVE Promise!Init
<1>1. Stored = {}
  BY DEF Init, Box!BoxInit, Server!LmtpInit, Stored, Box!Messages, Box!Content
<1>2. Told = [c \in Conn |-> "nothing"]
  BY DEF Init, Told, At
<1>3. Reliable \in BOOLEAN
  BY DEF Reliable
<1>4. QED
  BY <1>1, <1>2, <1>3 DEF Promise!Init

(* The steps of the pool are steps of the promise.                         *)
LEMMA NextImplements ==
    ASSUME Safe, Single, Reliable => Honest, [Next]_vars
    PROVE  [Promise!Next]_(Promise!promise)
<1>1. CASE ~Reliable'
  BY <1>1, Faulty DEF Safe
<1>2. CASE Reliable'
  BY <1>2, ReliableFalls, StepImplements DEF Safe
<1>3. QED
  BY <1>1, <1>2

(* Both delivery methods keep the promise of module Delivery: LMTP always, *)
(* filesystem where dotlocks are made by link, until a flush fails or two  *)
(* workers both make the box, whatever else fails and whoever else         *)
(* delivers.  True means stored, and stored for good, and False not stored *)
(* and never to be (filesystem.py and lmtp.py, deliver).                   *)
THEOREM DeliveryImplemented == Spec => ImplementsDelivery
<1>1. Spec => [](Single /\ (Reliable => Honest))
  <2>1. Init => Single /\ (Reliable => Honest)
    BY InitHonest
  <2>2. Safe /\ Single /\ (Reliable => Honest) /\ [Next]_vars => (Single /\ (Reliable => Honest))'
    BY SingleKept, HonestKept, ReliableFalls DEF Safe
  <2>3. QED
    BY <2>1, <2>2, SafeAlways, PTL DEF Spec
<1>2. Safe /\ Single /\ (Reliable => Honest) /\ [Next]_vars => [Promise!Next]_(Promise!promise)
  BY NextImplements
<1>3. Init => Promise!Init
  BY InitImplements
<1>4. QED
  BY <1>1, <1>2, <1>3, SafeAlways, PTL DEF Spec, ImplementsDelivery, Promise!Spec

=============================================================================
