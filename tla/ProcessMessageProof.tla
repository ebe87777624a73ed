------------------------ MODULE ProcessMessageProof ------------------------
(***************************************************************************)
(* What process_message promises with its status, for any users, domains,  *)
(* messages, user databases and numbers of exchangers.                     *)
(***************************************************************************)
EXTENDS ProcessMessage, SequenceTheorems, TLAPS

(* How many of the recipients are resolved.                                *)
Done == Len(recipients) - Len(todo)

(* Where the delivery loops will find a user whom the i-th recipient       *)
(* stands for: a key keeps the domain of the last recipient that gave it.  *)
Keyed(user, i) ==
    /\ user \in DOMAIN internal_users
    /\ \E j \in i .. Len(recipients) :
          /\ user \in Range(directory[recipients[j].user])
          /\ internal_users[user] = Mailbox(user, recipients[j].host)

Placed(user, i) ==
    IF External(user) THEN user \in Range(external_users) ELSE Keyed(user, i)

Resolved(i) ==
    /\ directory[recipients[i].user] # None
    /\ \A u \in Range(directory[recipients[i].user]) : Placed(u, i)

(* The mailbox of a key of internal_users has the message.                 *)
Held(user) == <<user, internal_users[user]>> \in Range(mailboxes)

(* todo is the rest of recipients, whatever was resolved of them.          *)
Suffix ==
    /\ Len(todo) <= Len(recipients)
    /\ \A k \in 1 .. Len(todo) : todo[k] = recipients[Done + k]

(* Before delivery nothing has left, and the recipients before todo are    *)
(* resolved; the one in hand is resolved but for its remaining results.    *)
Undelivered ==
    /\ pc \in {"check", "resolve", "results"} =>
          /\ mailboxes = <<>> /\ sent = <<>>
          /\ failure_count = 0
          /\ Suffix
          /\ \A i \in 1 .. Done : Resolved(i)
    /\ pc = "results" =>
          /\ todo # <<>>
          /\ Refused(Head(todo)) = None
          /\ directory[Head(todo).user] # None
          /\ Range(results) \subseteq Range(directory[Head(todo).user])
          /\ \A u \in Range(directory[Head(todo).user]) :
                u \in Range(results) \/ Placed(u, Done + 1)

(* During delivery, as long as nothing failed, everybody is served or      *)
(* still to come.                                                          *)
Delivering ==
    pc \in {"internal", "external", "exchange"} =>
        /\ \A i \in DOMAIN recipients : Resolved(i)
        /\ pc # "internal" => unvisited = {}
        /\ pc = "exchange" => outbox # <<>>
        /\ failure_count = 0 =>
              /\ \A u \in DOMAIN internal_users : u \in unvisited \/ Held(u)
              /\ \A u \in Range(external_users) : u \in Range(outbox) \/ Passed(u)

(* What the status has promised. *)
Settled ==
    /\ status = "250" =>
          /\ \A i \in DOMAIN recipients : Resolved(i)
          /\ \A u \in DOMAIN internal_users : Held(u)
          /\ \A u \in Range(external_users) : Passed(u)
    /\ status \in {"501", "551"} => mailboxes = <<>> /\ sent = <<>>
    /\ pc # "done" => status = None

Inv == TypeOK /\ Undelivered /\ Delivering /\ Settled

----------------------------------------------------------------------------
(* Sequences. *)

(* The first element and the rest are all of a sequence (the loops over    *)
(* recipients, results and external_users).                                *)
LEMMA HeadTail ==
    ASSUME NEW S, NEW s \in Seq(S), s # <<>>
    PROVE  /\ Head(s) \in S
           /\ Tail(s) \in Seq(S)
           /\ \A x \in Range(s) : x = Head(s) \/ x \in Range(Tail(s))
<1>1. /\ Head(s) \in S
      /\ Tail(s) \in Seq(S)
      /\ Len(s) \in Nat /\ DOMAIN s = 1 .. Len(s)
      /\ Head(s) = s[1]
      /\ Len(Tail(s)) = Len(s) - 1
      /\ \A i \in 1 .. Len(Tail(s)) : Tail(s)[i] = s[i + 1]
  BY HeadTailProperties, LenProperties
<1>2. DOMAIN Tail(s) = 1 .. Len(Tail(s))
  BY <1>1, LenProperties
<1>3. ASSUME NEW x \in Range(s), x # Head(s)
      PROVE  x \in Range(Tail(s))
  <2>1. PICK i \in 1 .. Len(s) : x = s[i]
    BY <1>1 DEF Range
  <2>2. i - 1 \in DOMAIN Tail(s) /\ Tail(s)[i - 1] = s[i]
    BY <1>1, <1>2, <1>3, <2>1
  <2>3. QED
    BY <2>1, <2>2 DEF Range
<1>4. QED
  BY <1>1, <1>3

(* The other way round: head and tail have nothing new (todo, results).    *)
LEMMA HeadMember ==
    ASSUME NEW S, NEW s \in Seq(S), s # <<>>
    PROVE  Head(s) \in Range(s)
BY HeadTailProperties, LenProperties, EmptySeq DEF Range

(* The rest of a sequence has no new members.                              *)
LEMMA TailMember ==
    ASSUME NEW S, NEW s \in Seq(S), s # <<>>
    PROVE  Range(Tail(s)) \subseteq Range(s)
<1>1. /\ Tail(s) \in Seq(S)
      /\ Len(s) \in Nat /\ DOMAIN s = 1 .. Len(s)
      /\ Len(Tail(s)) = Len(s) - 1
      /\ \A i \in 1 .. Len(Tail(s)) : Tail(s)[i] = s[i + 1]
  BY HeadTailProperties, LenProperties
<1>2. \A i \in DOMAIN Tail(s) : i + 1 \in DOMAIN s
  BY <1>1, LenProperties
<1>3. QED
  BY <1>1, <1>2, LenProperties DEF Range

(* An appended element is there, and nothing else has moved (mailboxes,    *)
(* sent, external_users).                                                  *)
LEMMA AppendKeeps ==
    ASSUME NEW S, NEW s \in Seq(S), NEW e \in S
    PROVE  /\ Append(s, e) \in Seq(S)
           /\ \A k \in DOMAIN s : k \in DOMAIN Append(s, e) /\ Append(s, e)[k] = s[k]
           /\ \E k \in DOMAIN Append(s, e) : Append(s, e)[k] = e
           /\ Range(s) \subseteq Range(Append(s, e))
           /\ e \in Range(Append(s, e))
<1>1. /\ Append(s, e) \in Seq(S)
      /\ Len(s) \in Nat /\ DOMAIN s = 1 .. Len(s)
      /\ Len(Append(s, e)) = Len(s) + 1
      /\ \A i \in 1 .. Len(s) : Append(s, e)[i] = s[i]
      /\ Append(s, e)[Len(s) + 1] = e
  BY AppendProperties, LenProperties
<1>2. DOMAIN Append(s, e) = 1 .. Len(s) + 1
  BY <1>1, LenProperties
<1>3. QED
  BY <1>1, <1>2 DEF Range

(* A member of a range is a member of the set the sequence is over. *)
LEMMA RangeType ==
    ASSUME NEW S, NEW s \in Seq(S)
    PROVE  Range(s) \subseteq S
BY ElementOfSeq, LenProperties DEF Range

(* A recipient that is not refused is an address. *)
LEMMA Addressed ==
    ASSUME NEW r \in Recipient, Refused(r) = None
    PROVE  r \in [user : Name, host : Host]
<1>1. "501" # None
  BY NoneAssumption DEF Status
<1>2. QED
  BY <1>1 DEF Refused, Recipient

----------------------------------------------------------------------------
(* What the steps have in common. *)

(* A step that leaves the resolution alone leaves everybody where they     *)
(* are.                                                                    *)
LEMMA ResolvedKept ==
    ASSUME UNCHANGED <<input, users>>, NEW i
    PROVE  Resolved(i)' <=> Resolved(i)
<1> USE DEF input, users
<1>1. \A u : Keyed(u, i)' <=> Keyed(u, i)
  BY DEF Keyed
<1>2. \A u : Placed(u, i)' <=> Placed(u, i)
  BY <1>1 DEF Placed
<1>3. QED
  BY <1>2 DEF Resolved

(* While todo is the rest of recipients, its first is the next of them,    *)
(* and the rest of the rest begins one further on (NextRecipient).         *)
LEMMA InHand ==
    ASSUME TypeOK, Suffix, todo # <<>>
    PROVE  /\ Done + 1 \in DOMAIN recipients
           /\ Head(todo) = recipients[Done + 1]
           /\ Done \in Nat
<1>1. /\ Len(todo) \in Nat /\ DOMAIN todo = 1 .. Len(todo) /\ Head(todo) = todo[1]
      /\ Len(todo) # 0
      /\ Len(recipients) \in Nat /\ DOMAIN recipients = 1 .. Len(recipients)
  BY HeadTailProperties, LenProperties, EmptySeq DEF TypeOK
<1>2. QED
  BY <1>1 DEF Suffix, Done

(* As long as there is no status nothing is promised.                      *)
LEMMA Unanswered ==
    ASSUME Inv, pc # "done", UNCHANGED status
    PROVE  Settled'
<1>1. status' = None
  BY DEF Inv, Settled
<1>2. status' \notin Status
  BY <1>1, NoneAssumption
<1>3. QED
  BY <1>1, <1>2 DEF Settled, Status

(* Raising an exception keeps the invariant wherever it happens.           *)
LEMMA RaiseKeeps ==
    ASSUME Inv, Raise
    PROVE  Inv'
<1> USE DEF Raise, Return, input, users, loops, counts, effects
<1>1. TypeOK'
  BY DEF Inv, TypeOK, Status
<1>2. Undelivered' /\ Delivering'
  BY DEF Undelivered, Delivering
<1>3. Settled'
  BY DEF Settled
<1>4. QED
  BY <1>1, <1>2, <1>3 DEF Inv

(* Nobody is placed and nobody served before the message is looked at.     *)
LEMMA InitInv == Init => Inv
<1> SUFFICES ASSUME Init PROVE Inv
  OBVIOUS
<1>1. TypeOK
  BY MessagesAssumption, DirectoriesAssumption, EmptySeq DEF Init, TypeOK
<1>2. Undelivered /\ Delivering
  <2>1. Len(recipients) \in Nat
    BY <1>1, LenProperties DEF TypeOK
  <2>2. Done = 0 /\ Suffix
    BY <2>1 DEF Init, Done, Suffix
  <2>3. QED
    BY <2>2 DEF Init, Undelivered, Delivering
<1>3. Settled
  BY NoneAssumption DEF Init, Settled, Status
<1>4. QED
  BY <1>1, <1>2, <1>3 DEF Inv

----------------------------------------------------------------------------
(* Steps up to the deliveries. *)

(* A client on no block list may go on.                                    *)
LEMMA UnblockedKeeps == ASSUME Inv, Unblocked PROVE Inv'
<1> USE DEF Unblocked, input, users, loops, counts, effects
<1>1. TypeOK'
  BY DEF Inv, TypeOK
<1>2. Undelivered' /\ Delivering'
  BY ResolvedKept DEF Inv, Undelivered, Delivering, Suffix, Done
<1>3. Settled'
  BY Unanswered
<1>4. QED
  BY <1>1, <1>2, <1>3 DEF Inv

(* A recipient that is refused ends it before anybody was served.          *)
LEMMA RefuseKeeps == ASSUME Inv, Refuse PROVE Inv'
<1> USE DEF Refuse, Return, input, users, loops, counts, effects
<1>1. TypeOK'
  BY DEF Inv, TypeOK, Refused, Status
<1>2. Undelivered' /\ Delivering'
  BY DEF Undelivered, Delivering
<1>3. Settled'
  BY DEF Inv, Undelivered, Settled, Refused
<1>4. QED
  BY <1>1, <1>2, <1>3 DEF Inv

(* A recipient is resolved to those it stands for.                         *)
LEMMA ResolveKeeps == ASSUME Inv, Resolve PROVE Inv'
<1> USE DEF Resolve, input, users, loops, counts, effects
<1>1. Head(todo).user \in Name
  BY HeadTail, Addressed DEF Inv, TypeOK
<1>2. TypeOK'
  BY <1>1 DEF Inv, TypeOK, Directory
<1>3. Undelivered' /\ Delivering'
  BY ResolvedKept DEF Inv, Undelivered, Delivering, Refused, Suffix, Done
<1>4. Settled'
  BY Unanswered
<1>5. QED
  BY <1>2, <1>3, <1>4 DEF Inv

(* Putting a result into one of the collections takes nobody out, and a    *)
(* domain that is replaced is replaced by that of the recipient in hand.   *)
LEMMA PlacedGrows ==
    ASSUME Inv, Internal \/ Outgoing
    PROVE  \A i \in 1 .. Done + 1 :
              \A u : Placed(u, i) \/ u = Head(results) => Placed(u, i)'
<1>1. /\ Done + 1 \in DOMAIN recipients
      /\ Head(todo) = recipients[Done + 1]
      /\ Done \in Nat
      /\ DOMAIN recipients = 1 .. Len(recipients) /\ Len(recipients) \in Nat
      /\ Head(results) \in Range(directory[Head(todo).user])
  BY InHand, HeadMember, LenProperties DEF Inv, TypeOK, Undelivered, Internal, Outgoing
<1>2. CASE Internal
  <2> SUFFICES ASSUME NEW i \in 1 .. Done + 1, NEW u, Placed(u, i) \/ u = Head(results)
               PROVE  Placed(u, i)'
    OBVIOUS
  <2>1. UNCHANGED <<recipients, directory, external_users>> /\ ~External(Head(results))
    BY <1>2 DEF Internal, input
  <2>2. CASE u = Head(results)
    <3>1. /\ u \in DOMAIN internal_users'
          /\ internal_users'[u] = Mailbox(u, recipients[Done + 1].host)
      BY <1>1, <1>2, <2>2 DEF Internal
    <3>2. /\ Done + 1 \in i .. Len(recipients)
          /\ u \in Range(directory[recipients[Done + 1].user])
      BY <1>1, <2>2
    <3>3. Keyed(u, i)'
      BY <2>1, <3>1, <3>2 DEF Keyed
    <3>4. QED
      BY <2>1, <2>2, <3>3 DEF Placed, External
  <2>3. CASE u # Head(results) /\ External(u)
    BY <2>1, <2>3 DEF Placed, External
  <2>4. CASE u # Head(results) /\ ~External(u)
    <3>1. Keyed(u, i)
      BY <2>4 DEF Placed
    <3>2. u \in DOMAIN internal_users' /\ internal_users'[u] = internal_users[u]
      BY <1>2, <2>4, <3>1 DEF Internal, Keyed
    <3>3. Keyed(u, i)'
      BY <2>1, <3>1, <3>2 DEF Keyed
    <3>4. QED
      BY <2>4, <3>3 DEF Placed, External
  <2>5. QED
    BY <2>2, <2>3, <2>4
<1>3. CASE Outgoing
  <2>1. /\ Range(external_users) \subseteq Range(external_users')
        /\ Head(results) \in Range(external_users')
    BY <1>3, HeadTail, AppendKeeps DEF Inv, TypeOK, Outgoing
  <2>2. \A u, i : Keyed(u, i)' <=> Keyed(u, i)
    BY <1>3 DEF Outgoing, Keyed, input
  <2>3. QED
    BY <1>3, <2>1, <2>2 DEF Outgoing, Placed, External
<1>4. QED
  BY <1>2, <1>3

(* Each of them is placed among the internal or the outgoing ones.         *)
LEMMA PlaceKeeps == ASSUME Inv, Internal \/ Outgoing PROVE Inv'
<1> USE DEF input, loops, counts, effects
<1>1. /\ Head(results) \in User
      /\ Tail(results) \in Seq(User)
      /\ \A u \in Range(results) : u = Head(results) \/ u \in Range(Tail(results))
  BY HeadTail DEF Inv, TypeOK, Internal, Outgoing
<1>2. pc = "results" /\ Head(todo) \in [user : Name, host : Host]
  BY HeadTail, Addressed DEF Inv, TypeOK, Undelivered, Internal, Outgoing
<1>3. TypeOK'
  <2>1. CASE Internal
    <3>1. Mailbox(Head(results), Head(todo).host) \in Host
      BY <1>1, <1>2, <2>1 DEF Mailbox, User
    <3>2. /\ DOMAIN internal_users' \subseteq User
          /\ \A u \in DOMAIN internal_users' : internal_users'[u] \in Host
          /\ DOMAIN internal_users \subseteq DOMAIN internal_users'
      BY <1>1, <2>1, <3>1 DEF Inv, TypeOK, Internal
    <3>3. QED
      BY <1>1, <2>1, <3>2 DEF Inv, TypeOK, Internal
  <2>2. CASE Outgoing
    <3>1. external_users' \in Seq(User)
      BY <1>1, <2>2, AppendKeeps DEF Inv, TypeOK, Outgoing
    <3>2. QED
      BY <1>1, <2>2, <3>1 DEF Inv, TypeOK, Outgoing
  <2>3. QED
    BY <2>1, <2>2
<1>4. Done \in Nat
  BY InHand DEF Inv, Undelivered, Internal, Outgoing
<1>5. Undelivered'
  <2>1. /\ UNCHANGED <<pc, recipients, directory, todo, mailboxes, sent, failure_count>>
        /\ results' = Tail(results)
    BY DEF Internal, Outgoing
  <2>2. Done' = Done /\ Suffix'
    BY <1>2, <2>1 DEF Inv, Undelivered, Suffix, Done
  <2>3. ASSUME NEW i \in 1 .. Done
        PROVE  Resolved(i)'
    <3>1. Resolved(i) /\ i \in 1 .. Done + 1
      BY <1>2, <1>4 DEF Inv, Undelivered
    <3>2. \A u : Placed(u, i) => Placed(u, i)'
      BY <3>1, PlacedGrows
    <3>3. QED
      BY <2>1, <3>1, <3>2 DEF Resolved
  <2>4. ASSUME NEW u \in Range(directory[Head(todo).user]), u \notin Range(Tail(results))
        PROVE  Placed(u, Done + 1)'
    <3>1. u = Head(results) \/ Placed(u, Done + 1)
      BY <1>1, <1>2, <2>4 DEF Inv, Undelivered
    <3>2. \A i : i = Done + 1 => Placed(u, i)'
      BY <1>4, <3>1, PlacedGrows
    <3>3. QED
      BY <2>2, <3>2
  <2>5. Range(Tail(results)) \subseteq Range(directory[Head(todo).user])
    BY <1>2, TailMember DEF Inv, TypeOK, Undelivered, Internal, Outgoing
  <2>6. Refused(Head(todo))' = Refused(Head(todo))
    BY <2>1 DEF Refused
  <2>7. QED
    BY <1>2, <2>1, <2>2, <2>3, <2>4, <2>5, <2>6 DEF Inv, Undelivered
<1>6. Delivering' /\ Settled'
  BY <1>2, NoneAssumption DEF Inv, Delivering, Settled, Internal, Outgoing, Status
<1>7. QED
  BY <1>3, <1>5, <1>6 DEF Inv

(* All of them are placed, and the next recipient follows.                 *)
LEMMA NextRecipientKeeps == ASSUME Inv, NextRecipient PROVE Inv'
<1> USE DEF NextRecipient, input, users, loops, counts, effects
<1>1. /\ todo # <<>> /\ todo \in Seq(Recipient)
      /\ Len(todo) \in Nat /\ Len(recipients) \in Nat
      /\ Tail(todo) \in Seq(Recipient)
      /\ Len(Tail(todo)) = Len(todo) - 1
      /\ \A k \in 1 .. Len(Tail(todo)) : Tail(todo)[k] = todo[k + 1]
  BY HeadTailProperties, LenProperties DEF Inv, TypeOK, Undelivered
<1>2. TypeOK'
  BY <1>1 DEF Inv, TypeOK
<1>3. Done \in Nat /\ Head(todo) = recipients[Done + 1]
  BY InHand DEF Inv, Undelivered
<1>4. Resolved(Done + 1)
  BY <1>3 DEF Inv, Undelivered, Resolved, Range
<1>5. Done' = Done + 1 /\ Suffix'
  <2>1. Done' = Done + 1
    BY <1>1 DEF Done
  <2>2. Len(Tail(todo)) <= Len(recipients)
    BY <1>1 DEF Inv, Undelivered, Suffix
  <2>3. \A k \in 1 .. Len(Tail(todo)) : Tail(todo)[k] = recipients[Done + (k + 1)]
    BY <1>1 DEF Inv, Undelivered, Suffix
  <2>4. \A k \in 1 .. Len(Tail(todo)) : Done + (k + 1) = (Done + 1) + k
    BY <1>3
  <2>5. QED
    BY <2>1, <2>2, <2>3, <2>4 DEF Suffix
<1>6. \A i \in 1 .. Done' : Resolved(i)'
  <2>1. \A i \in 1 .. Done + 1 : Resolved(i)
    BY <1>3, <1>4 DEF Inv, Undelivered
  <2>2. QED
    BY <1>5, <2>1, ResolvedKept
<1>7. Undelivered' /\ Delivering'
  BY <1>5, <1>6 DEF Inv, Undelivered, Delivering
<1>8. Settled'
  BY Unanswered
<1>9. QED
  BY <1>2, <1>7, <1>8 DEF Inv

(* Without anybody to serve, nobody is served.                             *)
LEMMA NoUsersKeeps == ASSUME Inv, NoUsers PROVE Inv'
<1> USE DEF NoUsers, Return, input, users, loops, counts, effects
<1>1. TypeOK'
  BY DEF Inv, TypeOK, Status
<1>2. Undelivered' /\ Delivering' /\ Settled'
  BY DEF Undelivered, Delivering, Settled
<1>3. QED
  BY <1>1, <1>2 DEF Inv

(* All recipients are placed, and deliveries begin.                        *)
LEMMA StartDeliveryKeeps == ASSUME Inv, StartDelivery PROVE Inv'
<1> USE DEF StartDelivery, input, users, counts, effects
<1>1. TypeOK'
  BY DEF Inv, TypeOK
<1>2. Done = Len(recipients) /\ DOMAIN recipients = 1 .. Len(recipients)
  BY LenProperties DEF Inv, TypeOK, Done
<1>3. Undelivered' /\ Delivering'
  BY <1>2, ResolvedKept DEF Inv, Undelivered, Delivering
<1>4. Settled'
  BY Unanswered
<1>5. QED
  BY <1>1, <1>3, <1>4 DEF Inv

----------------------------------------------------------------------------
(* The deliveries. *)

(* One mailbox is served, or not.                                          *)
LEMMA DeliverKeeps == ASSUME Inv, Deliver PROVE Inv'
<1> USE DEF Deliver, input, users
<1>1. PICK u \in unvisited :
        /\ unvisited' = unvisited \ {u}
        /\ \/ /\ mailboxes' = Append(mailboxes, <<u, internal_users[u]>>)
              /\ success_count' = success_count + 1
              /\ UNCHANGED failure_count
           \/ /\ failure_count' = failure_count + 1
              /\ UNCHANGED <<mailboxes, success_count>>
  OBVIOUS
<1> DEFINE e == <<u, internal_users[u]>>
           more == Append(mailboxes, e)
<1>2. u \in DOMAIN internal_users /\ mailboxes \in Seq(User \X Host)
  BY <1>1 DEF Inv, TypeOK
<1>3. /\ more \in Seq(User \X Host)
      /\ \A k \in DOMAIN mailboxes : k \in DOMAIN more /\ more[k] = mailboxes[k]
      /\ \E k \in DOMAIN more : more[k] = e
  <2>1. u \in User /\ internal_users[u] \in Host
    BY <1>2 DEF Inv, TypeOK
  <2>2. e \in User \X Host
    BY <2>1
  <2> DEFINE S == User \X Host
  <2>3. mailboxes \in Seq(S) /\ e \in S
    BY <1>2, <2>2
  <2> HIDE DEF e, S
  <2>4. QED
    BY <2>3, AppendKeeps DEF S
<1>4. TypeOK'
  <2>1. mailboxes' \in Seq(User \X Host)
    BY <1>1, <1>2, <1>3
  <2>2. QED
    BY <1>1, <2>1 DEF Inv, TypeOK
<1>5. Undelivered'
  BY DEF Undelivered
<1>6. Delivering'
  <2>1. ASSUME failure_count' = 0
        PROVE  \A v \in DOMAIN internal_users : v \in unvisited' \/ Held(v)'
    <3>0. failure_count \in Nat
      BY DEF Inv, TypeOK
    <3>1. mailboxes' = more /\ failure_count = 0
      <4>1. failure_count + 1 # 0
        BY <3>0
      <4>2. QED
        BY <1>1, <2>1, <4>1
    <3>2. Range(mailboxes) \subseteq Range(more) /\ e \in Range(more)
      <4> HIDE DEF more, e
      <4>1. QED
        BY <1>3 DEF Range
    <3>3. \A v : Held(v) \/ v = u => Held(v)'
      BY <3>1, <3>2 DEF Held
    <3>4. QED
      BY <1>1, <3>1, <3>3 DEF Inv, Delivering
  <2>2. failure_count' = 0 => failure_count = 0
    BY <1>1 DEF Inv, TypeOK
  <2>3. QED
    BY <2>1, <2>2, ResolvedKept DEF Inv, Delivering, Passed
<1>7. Settled'
  BY Unanswered
<1>8. QED
  BY <1>4, <1>5, <1>6, <1>7 DEF Inv

(* All mailboxes are served, and the outgoing ones follow.                 *)
LEMMA DeliverDoneKeeps == ASSUME Inv, DeliverDone PROVE Inv'
<1> USE DEF DeliverDone, input, users, loops, counts, effects
<1>1. TypeOK'
  BY DEF Inv, TypeOK
<1>2. Undelivered' /\ Delivering'
  BY ResolvedKept DEF Inv, Undelivered, Delivering, Held, Passed
<1>3. Settled'
  BY Unanswered
<1>4. QED
  BY <1>1, <1>2, <1>3 DEF Inv

(* The exchangers of an external address are looked up.                    *)
LEMMA LookUpKeeps == ASSUME Inv, LookUp PROVE Inv'
<1> USE DEF LookUp, input, users, counts, effects
<1>1. TypeOK'
  <2>1. exchanges' \in Nat
    BY FlagAssumption
  <2>2. QED
    BY <2>1 DEF Inv, TypeOK
<1>2. Undelivered' /\ Delivering'
  BY ResolvedKept DEF Inv, Undelivered, Delivering, Held, Passed
<1>3. Settled'
  BY Unanswered
<1>4. QED
  BY <1>1, <1>2, <1>3 DEF Inv

(* Giving up an external address counts as a failure.                      *)
LEMMA GiveUpKeeps == ASSUME Inv, NoExchange \/ ExchangesFail PROVE Inv'
<1> USE DEF NoExchange, ExchangesFail, input, users, effects
<1>1. outbox # <<>> /\ failure_count' = failure_count + 1 /\ outbox' = Tail(outbox)
  BY DEF Inv, Delivering
<1>2. Tail(outbox) \in Seq(User)
  BY <1>1, HeadTail DEF Inv, TypeOK
<1>3. TypeOK'
  BY <1>1, <1>2 DEF Inv, TypeOK
<1>4. failure_count' # 0
  BY <1>1 DEF Inv, TypeOK
<1>5. Undelivered' /\ Delivering'
  BY <1>4, ResolvedKept DEF Inv, Undelivered, Delivering
<1>6. Settled'
  BY Unanswered
<1>7. QED
  BY <1>3, <1>5, <1>6 DEF Inv

(* An exchanger takes the message for one external address.                *)
LEMMA AcceptsKeeps == ASSUME Inv, ExchangeAccepts PROVE Inv'
<1> USE DEF ExchangeAccepts, input, users, counts
<1>1. /\ Head(outbox) \in User
      /\ Tail(outbox) \in Seq(User)
      /\ \A u \in Range(outbox) : u = Head(outbox) \/ u \in Range(Tail(outbox))
  BY HeadTail DEF Inv, TypeOK, Delivering
<1>2. sent \in Seq(User) /\ sent' = Append(sent, Head(outbox))
  BY DEF Inv, TypeOK
<1>3. /\ sent' \in Seq(User)
      /\ \A u : Passed(u) \/ u = Head(outbox) => Passed(u)'
  <2>1. /\ Append(sent, Head(outbox)) \in Seq(User)
        /\ Range(sent) \subseteq Range(Append(sent, Head(outbox)))
        /\ Head(outbox) \in Range(Append(sent, Head(outbox)))
    BY <1>1, <1>2, AppendKeeps
  <2>2. QED
    BY <1>2, <2>1 DEF Passed
<1>4. TypeOK'
  BY <1>1, <1>3 DEF Inv, TypeOK
<1>5. Undelivered' /\ Delivering'
  BY <1>1, <1>3, ResolvedKept DEF Inv, Undelivered, Delivering, Held
<1>6. Settled'
  BY Unanswered
<1>7. QED
  BY <1>4, <1>5, <1>6 DEF Inv

(* A broken connection forgets nobody: perhaps somebody more has it.       *)
LEMMA BreaksKeeps == ASSUME Inv, ExchangeBreaks PROVE Inv'
<1> USE DEF ExchangeBreaks, input, users, counts
<1>1. Head(outbox) \in User /\ sent \in Seq(User)
  BY HeadTail DEF Inv, TypeOK, Delivering
<1>2. sent' \in Seq(User) /\ \A u : Passed(u) => Passed(u)'
  <2>1. CASE sent' = sent
    BY <1>1, <2>1 DEF Passed
  <2>2. CASE sent' = Append(sent, Head(outbox))
    <3>1. /\ Append(sent, Head(outbox)) \in Seq(User)
          /\ Range(sent) \subseteq Range(Append(sent, Head(outbox)))
      BY <1>1, AppendKeeps
    <3>2. QED
      BY <2>2, <3>1 DEF Passed
  <2>3. QED
    BY <2>1, <2>2
<1>3. TypeOK'
  BY <1>2 DEF Inv, TypeOK
<1>4. Undelivered' /\ Delivering'
  BY <1>2, ResolvedKept DEF Inv, Undelivered, Delivering, Held
<1>5. Settled'
  BY Unanswered
<1>6. QED
  BY <1>3, <1>4, <1>5 DEF Inv

(* The status follows from what was collected.                             *)
LEMMA AnswerKeeps == ASSUME Inv, Answer PROVE Inv'
<1> USE DEF Answer, Return, input, users, loops, counts, effects
<1>1. TypeOK'
  BY DEF Inv, TypeOK, Status
<1>2. Undelivered' /\ Delivering'
  BY DEF Undelivered, Delivering
<1>3. Settled'
  <2>1. Range(outbox) = {}
    BY DEF Range
  <2>2. QED
    BY <2>1, ResolvedKept DEF Inv, Delivering, Settled, Held, Passed
<1>4. QED
  BY <1>1, <1>2, <1>3 DEF Inv

(* Nothing changes, nothing is delivered.                                  *)
LEMMA StutterKeeps == ASSUME Inv, UNCHANGED vars PROVE Inv'
<1> USE DEF vars, input, users, loops, counts, effects
<1>1. TypeOK'
  BY DEF Inv, TypeOK
<1>2. Undelivered'
  <2>1. Done' = Done /\ (Suffix' <=> Suffix)
    BY DEF Suffix, Done
  <2>2. \A u, i : Placed(u, i)' <=> Placed(u, i)
    BY DEF Placed, Keyed
  <2>3. \A u : Placed(u, Done + 1)' <=> Placed(u, Done + 1)
    BY <2>1, <2>2
  <2>4. QED
    BY <2>1, <2>3, ResolvedKept DEF Inv, Undelivered
<1>3. Delivering' /\ Settled'
  BY ResolvedKept DEF Inv, Delivering, Settled, Held, Passed
<1>4. QED
  BY <1>1, <1>2, <1>3 DEF Inv

----------------------------------------------------------------------------

(* Every step of process_message keeps the invariant.                      *)
LEMMA NextInv == Inv /\ [Next]_vars => Inv'
<1> SUFFICES ASSUME Inv, [Next]_vars PROVE Inv'
  OBVIOUS
<1>1. CASE Blocked \/ ResolveFails \/ NotBytes \/ DeliverRaises \/ LookUpRaises \/ ExchangeRaises
  BY <1>1, RaiseKeeps DEF Blocked, ResolveFails, NotBytes, DeliverRaises, LookUpRaises, ExchangeRaises
<1>2. CASE Unblocked \/ Refuse \/ Resolve \/ Internal \/ Outgoing \/ NextRecipient
  BY <1>2, UnblockedKeeps, RefuseKeeps, ResolveKeeps, PlaceKeeps, NextRecipientKeeps
<1>3. CASE NoUsers \/ StartDelivery \/ Deliver \/ DeliverDone \/ LookUp
  BY <1>3, NoUsersKeeps, StartDeliveryKeeps, DeliverKeeps, DeliverDoneKeeps, LookUpKeeps
<1>4. CASE NoExchange \/ ExchangesFail \/ ExchangeAccepts \/ ExchangeBreaks \/ Answer
  BY <1>4, GiveUpKeeps, AcceptsKeeps, BreaksKeeps, AnswerKeeps
<1>5. CASE UNCHANGED vars
  BY <1>5, StutterKeeps
<1>6. QED
  BY <1>1, <1>2, <1>3, <1>4, <1>5 DEF Next, Step, Rest

(* The invariant of process_message. *)
THEOREM InvHolds == Spec => []Inv
BY InitInv, NextInv, PTL DEF Spec

(* Types: every collection of process_message holds what it should.        *)
THEOREM TypeCorrect == Spec => []TypeOK
<1>1. Inv => TypeOK
  BY DEF Inv
<1>2. QED
  BY <1>1, InvHolds, PTL

(* 250 is only sent when everybody a recipient stands for has the message, *)
(* in the domain of the last recipient that stands for him                 *)
(* (process_message).                                                      *)
THEOREM AcceptedDeliveredHolds == Spec => []AcceptedDelivered
<1>1. Inv => AcceptedDelivered
  <2> SUFFICES ASSUME Inv, status = "250", NEW i \in DOMAIN recipients
      PROVE  /\ directory[recipients[i].user] # None
             /\ \A u \in Range(directory[recipients[i].user]) :
                   IF External(u) THEN Passed(u) ELSE Served(u, i)
    BY DEF AcceptedDelivered
  <2>1. Resolved(i)
    BY DEF Inv, Settled
  <2>2. ASSUME NEW u, Keyed(u, i)
        PROVE  Served(u, i)
    BY <2>2 DEF Inv, Settled, Keyed, Held, Served
  <2>3. QED
    BY <2>1, <2>2 DEF Inv, Settled, Resolved, Placed, Passed
<1>2. QED
  BY <1>1, InvHolds, PTL

(* A message refused for one recipient has reached nobody                  *)
(* (process_message).                                                      *)
THEOREM RefusedUndeliveredHolds == Spec => []RefusedUndelivered
<1>1. Inv => RefusedUndelivered
  BY DEF Inv, Settled, RefusedUndelivered
<1>2. QED
  BY <1>1, InvHolds, PTL

----------------------------------------------------------------------------
(* No mailbox twice. *)

(* A recipient of the message for whom u is served in host.                *)
StandsFor(r, u, host) ==
    /\ directory[r.user] # None
    /\ u \in Range(directory[r.user])
    /\ host = Mailbox(u, r.host)

(* The keys of internal_users come from recipients, what is still to be    *)
(* resolved comes from them too, and a mailbox that was served is behind   *)
(* the loop.                                                               *)
Sourced ==
    /\ Range(todo) \subseteq Range(recipients)
    /\ pc = "results" => Range(results) \subseteq Range(directory[Head(todo).user])
    /\ \A u \in DOMAIN internal_users :
          \E r \in Range(recipients) : StandsFor(r, u, internal_users[u])

Distinct ==
    /\ \A k \in DOMAIN mailboxes :
          /\ mailboxes[k][1] \in DOMAIN internal_users \ unvisited
          /\ mailboxes[k][2] = internal_users[mailboxes[k][1]]
    /\ \A j, k \in DOMAIN mailboxes : mailboxes[j][1] = mailboxes[k][1] => j = k

Once == Sourced /\ Distinct

(* Before the deliveries there is nothing to be distinct.                  *)
LEMMA NothingDistinct ==
    ASSUME mailboxes = <<>>
    PROVE  Distinct
BY DEF Distinct

(* Where the users and the mailboxes are left alone, so is their relation. *)
LEMMA DistinctKept ==
    ASSUME Distinct, UNCHANGED <<internal_users, mailboxes>>, unvisited' \subseteq unvisited
    PROVE  Distinct'
BY DEF Distinct

(* Where recipients and results come from does not depend on the rest.     *)
LEMMA SourcedKept ==
    ASSUME Sourced, UNCHANGED <<input, internal_users, todo>>, pc' # "results"
    PROVE  Sourced'
BY DEF Sourced, input, StandsFor

(* An internal user gets a key of his own.                                 *)
LEMMA InternalOnce == ASSUME Inv, Once, Internal PROVE Once'
<1> USE DEF Internal, input, loops, counts, effects
<1>1. /\ todo # <<>> /\ todo \in Seq(Recipient)
      /\ results # <<>> /\ results \in Seq(User)
      /\ directory[Head(todo).user] # None
      /\ mailboxes = <<>>
  BY DEF Inv, TypeOK, Undelivered
<1>2. Head(todo) \in Range(todo) /\ Head(results) \in Range(results)
  BY <1>1, HeadMember
<1>3. Range(Tail(results)) \subseteq Range(results)
  BY <1>1, TailMember
<1>4. StandsFor(Head(todo), Head(results), Mailbox(Head(results), Head(todo).host))
  BY <1>1, <1>2 DEF Once, Sourced, StandsFor
<1>5. Sourced'
  <2>1. ASSUME NEW u \in DOMAIN internal_users'
        PROVE  \E r \in Range(recipients) : StandsFor(r, u, internal_users'[u])
    <3>1. CASE u = Head(results)
      <4>1. internal_users'[u] = Mailbox(u, Head(todo).host)
        BY <2>1, <3>1
      <4>2. Head(todo) \in Range(recipients)
        BY <1>2 DEF Once, Sourced
      <4>3. QED
        BY <1>4, <3>1, <4>1, <4>2
    <3>2. CASE u # Head(results)
      <4>1. u \in DOMAIN internal_users /\ internal_users'[u] = internal_users[u]
        BY <2>1, <3>2
      <4>2. QED
        BY <4>1 DEF Once, Sourced
    <3>3. QED
      BY <3>1, <3>2
  <2>2. \A r, u, h : StandsFor(r, u, h)' <=> StandsFor(r, u, h)
    BY DEF StandsFor
  <2>3. QED
    BY <1>3, <2>1, <2>2 DEF Once, Sourced, StandsFor
<1>6. Distinct'
  BY <1>1 DEF Distinct
<1>7. QED
  BY <1>5, <1>6 DEF Once

(* A mailbox that was served is not among those still to be visited.       *)
LEMMA DeliverOnce == ASSUME Inv, Once, Deliver PROVE Once'
<1> USE DEF Deliver, input, users
<1>1. Sourced'
  <2>1. pc' # "results"
    OBVIOUS
  <2>2. QED
    BY <2>1, SourcedKept DEF Once
<1>2. PICK u \in unvisited :
        /\ unvisited' = unvisited \ {u}
        /\ \/ mailboxes' = Append(mailboxes, <<u, internal_users[u]>>)
           \/ UNCHANGED mailboxes
  OBVIOUS
<1>3. CASE UNCHANGED mailboxes
  BY <1>1, <1>2, <1>3, DistinctKept DEF Once
<1>4. CASE mailboxes' = Append(mailboxes, <<u, internal_users[u]>>)
  <2>1. /\ Len(mailboxes) \in Nat /\ DOMAIN mailboxes = 1 .. Len(mailboxes)
        /\ u \in DOMAIN internal_users
    BY LenProperties DEF Inv, TypeOK
  <2>2. /\ DOMAIN mailboxes' = 1 .. Len(mailboxes) + 1
        /\ \A k \in 1 .. Len(mailboxes) : mailboxes'[k] = mailboxes[k]
        /\ mailboxes'[Len(mailboxes) + 1] = <<u, internal_users[u]>>
    <3> DEFINE S == User \X Host
               e == <<u, internal_users[u]>>
    <3>1. mailboxes \in Seq(S) /\ e \in S /\ mailboxes' = Append(mailboxes, e)
      BY <1>4, <2>1 DEF Inv, TypeOK
    <3> HIDE DEF S, e
    <3>2. /\ Append(mailboxes, e) \in Seq(S)
          /\ Len(Append(mailboxes, e)) = Len(mailboxes) + 1
          /\ \A i \in 1 .. Len(mailboxes) : Append(mailboxes, e)[i] = mailboxes[i]
          /\ Append(mailboxes, e)[Len(mailboxes) + 1] = e
      BY <3>1, AppendProperties
    <3>3. DOMAIN Append(mailboxes, e) = 1 .. Len(mailboxes) + 1
      BY <3>2, LenProperties
    <3>4. QED
      BY <3>1, <3>2, <3>3 DEF e
  <2>3. \A k \in 1 .. Len(mailboxes) : mailboxes[k][1] \in DOMAIN internal_users \ unvisited
    BY <2>1 DEF Once, Distinct
  <2>4. ASSUME NEW k \in DOMAIN mailboxes'
        PROVE  /\ mailboxes'[k][1] \in DOMAIN internal_users \ unvisited'
               /\ mailboxes'[k][2] = internal_users[mailboxes'[k][1]]
    <3>1. CASE k = Len(mailboxes) + 1
      BY <1>2, <2>1, <2>2, <3>1
    <3>2. CASE k \in 1 .. Len(mailboxes)
      BY <1>2, <2>1, <2>2, <3>2 DEF Once, Distinct
    <3>3. QED
      BY <2>1, <2>2, <3>1, <3>2
  <2>5. ASSUME NEW j \in DOMAIN mailboxes', NEW k \in DOMAIN mailboxes',
               mailboxes'[j][1] = mailboxes'[k][1]
        PROVE  j = k
    <3>1. CASE j \in 1 .. Len(mailboxes) /\ k \in 1 .. Len(mailboxes)
      BY <2>1, <2>2, <2>5, <3>1 DEF Once, Distinct
    <3>2. CASE j = Len(mailboxes) + 1 /\ k \in 1 .. Len(mailboxes)
      BY <2>2, <2>3, <2>5, <3>2
    <3>3. CASE k = Len(mailboxes) + 1 /\ j \in 1 .. Len(mailboxes)
      BY <2>2, <2>3, <2>5, <3>3
    <3>4. QED
      BY <2>1, <2>2, <3>1, <3>2, <3>3
  <2>6. Distinct'
    BY <2>4, <2>5 DEF Distinct
  <2>7. QED
    BY <1>1, <2>6 DEF Once
<1>5. QED
  BY <1>2, <1>3, <1>4

(* Nobody is served while recipients are resolved.                         *)
LEMMA ResolvingOnce ==
    ASSUME Inv, Once, Resolve \/ Outgoing \/ NextRecipient \/ StartDelivery
    PROVE  Once'
<1>1. mailboxes' = <<>>
  BY DEF Inv, Undelivered, Resolve, Outgoing, NextRecipient, StartDelivery, effects
<1>2. Distinct'
  BY <1>1 DEF Distinct
<1>3. CASE Resolve
  BY <1>2, <1>3 DEF Once, Sourced, StandsFor, Resolve, input, users
<1>4. CASE Outgoing
  <2>1. Range(Tail(results)) \subseteq Range(results)
    BY <1>4, TailMember DEF Inv, TypeOK, Outgoing
  <2>2. QED
    BY <1>2, <1>4, <2>1 DEF Once, Sourced, StandsFor, Outgoing, input
<1>5. CASE NextRecipient
  <2>1. Range(Tail(todo)) \subseteq Range(todo)
    BY <1>5, TailMember DEF Inv, TypeOK, Undelivered, NextRecipient
  <2>2. QED
    BY <1>2, <1>5, <2>1 DEF Once, Sourced, StandsFor, NextRecipient, input, users
<1>6. CASE StartDelivery
  <2>1. Sourced'
    BY <1>6, SourcedKept DEF Once, StartDelivery, users
  <2>2. QED
    BY <1>2, <2>1 DEF Once
<1>7. QED
  BY <1>3, <1>4, <1>5, <1>6

(* The other steps touch neither users nor mailboxes.                      *)
LEMMA ElsewhereOnce ==
    ASSUME Once, UNCHANGED <<input, todo, results, internal_users, mailboxes, unvisited>>,
           pc' = pc \/ pc' # "results"
    PROVE  Once'
<1>1. Distinct'
  BY DistinctKept DEF Once
<1>2. Sourced'
  BY DEF Once, Sourced, StandsFor, input
<1>3. QED
  BY <1>1, <1>2 DEF Once

(* Every step of process_message keeps it.                                 *)
LEMMA NextOnce == Inv /\ Once /\ [Next]_vars => Once'
<1> SUFFICES ASSUME Inv, Once, [Next]_vars PROVE Once'
  OBVIOUS
<1> USE DEF input, users, loops, counts, effects
<1>1. CASE Internal
  BY <1>1, InternalOnce
<1>2. CASE Deliver
  BY <1>2, DeliverOnce
<1>3. CASE Resolve \/ Outgoing \/ NextRecipient \/ StartDelivery
  BY <1>3, ResolvingOnce
<1>4. CASE Blocked \/ ResolveFails \/ NotBytes \/ DeliverRaises \/ LookUpRaises \/ ExchangeRaises
  BY <1>4, ElsewhereOnce
     DEF Blocked, ResolveFails, NotBytes, DeliverRaises, LookUpRaises, ExchangeRaises, Raise, Return
<1>5. CASE Unblocked \/ Refuse \/ NoUsers \/ DeliverDone \/ Answer
  BY <1>5, ElsewhereOnce DEF Unblocked, Refuse, NoUsers, DeliverDone, Answer, Return
<1>6. CASE LookUp \/ NoExchange \/ ExchangeAccepts \/ ExchangeBreaks \/ ExchangesFail
  BY <1>6, ElsewhereOnce DEF LookUp, NoExchange, ExchangeAccepts, ExchangeBreaks, ExchangesFail
<1>7. CASE UNCHANGED vars
  BY <1>7, ElsewhereOnce DEF vars
<1>8. QED
  BY <1>1, <1>2, <1>3, <1>4, <1>5, <1>6, <1>7 DEF Next, Step, Rest

(* No mailbox gets a message twice, and none that no recipient stands for  *)
(* (internal_users).                                                       *)
THEOREM OnceEachHolds == Spec => []OnceEach
<1>1. Init => Once
  <2> SUFFICES ASSUME Init PROVE Once
    OBVIOUS
  <2>1. Sourced /\ Distinct
    BY DEF Init, Sourced, Distinct
  <2>2. QED
    BY <2>1 DEF Once
<1>2. Once => OnceEach
  <2> SUFFICES ASSUME Once PROVE OnceEach
    OBVIOUS
  <2>1. \A j, k \in DOMAIN mailboxes : mailboxes[j] = mailboxes[k] => j = k
    BY DEF Once, Distinct
  <2>2. ASSUME NEW k \in DOMAIN mailboxes
        PROVE  \E i \in DOMAIN recipients :
                  StandsFor(recipients[i], mailboxes[k][1], mailboxes[k][2])
    BY DEF Once, Distinct, Sourced, Range
  <2>3. QED
    BY <2>1, <2>2 DEF OnceEach, StandsFor
<1>3. QED
  BY <1>1, <1>2, NextOnce, InvHolds, PTL DEF Spec

=============================================================================
