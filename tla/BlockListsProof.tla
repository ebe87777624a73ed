-------------------------- MODULE BlockListsProof --------------------------
(***************************************************************************)
(* Who is refused is on a list, who passes was on none that answered, and  *)
(* the check keeps to its time: for any number of lists, nameservers,      *)
(* search suffixes, and any limits.                                        *)
(***************************************************************************)
EXTENDS BlockLists, SequenceTheorems, WellFoundedInduction, TLAPS

(* An attempt has a server to ask, and what TCP is tried with stays next.  *)
InRound == query = "tcp" => turn # <<>>

(* A list that is being asked is one of the list of lists.                 *)
Asking == status = "checking" => list <= Lists

(* Queries that have ended: one of each list passed, and one more of a     *)
(* list that has a record; then one more if it was the last.               *)
Queries == (list - 1) + (IF rdtype = "TXT" THEN 1 ELSE 0)

Prompt ==
    /\ elapsed <= Lifetime
    /\ status = "checking" => spent <= Queries * Lifetime
    /\ status # "checking" => spent <= (Lists + 1) * Lifetime

(* What is known of the list that is asked: it has nothing under the names *)
(* tried before, nothing at all after NXDOMAIN, and its record after an    *)
(* answer.                                                                 *)
Known ==
    /\ rdtype = "A" /\ query \in Running =>
          \A i \in 1 .. Names : i < name => zone[list][i] = "nothing"
    /\ rdtype = "A" /\ query = "NXDOMAIN" =>
          \A i \in 1 .. Names : zone[list][i] = "nothing"
    /\ rdtype = "A" /\ query = "Answer" => zone[list][name] = "record"
    /\ rdtype = "TXT" => \E i \in 1 .. Names : zone[list][i] = "record"

(* What is known of the lists before it.                                   *)
Passed ==
    \A l \in 1 .. Lists :
        l < list /\ l \notin timedout => \A i \in 1 .. Names : zone[l][i] = "nothing"

BInv ==
    /\ InRound /\ Asking /\ Prompt
    /\ status = "checking" => Known
    /\ status = "refused" => \E i \in 1 .. Names : zone[list][i] = "record"
    /\ \A l \in timedout : l < list
    /\ Passed

Inductive == TypeOK /\ BInv

----------------------------------------------------------------------------
(* Operators. *)

(* The lesser of two limits.                                               *)
LEMMA MinOfTwo ==
    ASSUME NEW a \in Nat, NEW b \in Nat
    PROVE  Min({a, b}) \in Nat /\ Min({a, b}) <= a /\ Min({a, b}) <= b
<1>1. \E x \in {a, b} : \A y \in {a, b} : x <= y
  <2>1. CASE a <= b
    BY <2>1
  <2>2. CASE ~(a <= b)
    BY <2>2
  <2>3. QED
    BY <2>1, <2>2
<1>2. Min({a, b}) \in {a, b} /\ \A y \in {a, b} : Min({a, b}) <= y
  BY <1>1 DEF Min
<1>3. QED
  BY <1>2

(* What is left of a round after its first server.                         *)
LEMMA RestOfRound ==
    ASSUME NEW s \in Seq(Server), s # <<>>
    PROVE  Tail(s) \in Seq(Server) /\ Head(s) \in Server
OBVIOUS

(* Natural numbers have a least one.                                       *)
LEMMA LeastOf ==
    ASSUME NEW S \in SUBSET Nat, S # {}
    PROVE  \E x \in S : \A y \in S : x <= y
<1> DEFINE Less == OpToRel(<, Nat)
<1>1. IsWellFoundedOn(Less, Nat)
  BY NatLessThanWellFounded
<1>2. \A x, y \in Nat : x < y => <<x, y>> \in Less
  BY DEF OpToRel
<1> HIDE DEF Less
<1>3. \E x \in S : \A y \in S : ~ (<<y, x>> \in Less)
  BY <1>1, WFMin
<1>4. PICK x \in S : \A y \in S : ~ (<<y, x>> \in Less)
  BY <1>3
<1>5. \A y \in S : ~ (y < x)
  BY <1>2, <1>4
<1>6. \A m, n \in Nat : ~ (n < m) => m <= n
  OBVIOUS
<1>7. QED
  BY <1>5, <1>6

(* Servers without a broken one.                                           *)
LEMMA ServersLeft ==
    ASSUME NEW s \in Seq(Server), NEW e
    PROVE  RemoveFirst(s, e) \in Seq(Server)
<1>1. CASE ~\E i \in 1 .. Len(s) : s[i] = e
  BY <1>1 DEF RemoveFirst
<1>2. CASE \E i \in 1 .. Len(s) : s[i] = e
  <2> DEFINE I == {i \in 1 .. Len(s) : s[i] = e}
             k == Min(I)
  <2>1. I # {} /\ I \subseteq Nat
    BY <1>2
  <2>2. RemoveFirst(s, e) = SubSeq(s, 1, k - 1) \o SubSeq(s, k + 1, Len(s))
    BY <1>2, <2>1 DEF RemoveFirst, RemoveAt, SelectInSeq
  <2>3. \E x \in I : \A y \in I : x <= y
    BY <2>1, LeastOf
  <2>4. k \in 1 .. Len(s)
    BY <2>3 DEF Min
  <2> HIDE DEF k
  <2>5. /\ SubSeq(s, 1, k - 1) \in Seq(Server)
        /\ SubSeq(s, k + 1, Len(s)) \in Seq(Server)
    <3>1. \A i \in 1 .. Len(s) : s[i] \in Server
      OBVIOUS
    <3>2. QED
      BY <2>4, <3>1, SubSeqProperties
  <2>6. QED
    BY <2>2, <2>5
<1>3. QED
  BY <1>1, <1>2

(* No attempt, and no sleep, outlasts the lifetime of the query.           *)
LEMMA WithinLifetime ==
    ASSUME TypeOK, elapsed < Lifetime
    PROVE  /\ Timeout \in Nat /\ elapsed + Timeout <= Lifetime
           /\ Attempt => elapsed' \in Nat /\ elapsed' <= Lifetime
           /\ Sleep => elapsed' \in Nat /\ elapsed' <= Lifetime
<1>1. /\ elapsed \in Nat /\ backoff \in Nat
      /\ Lifetime - elapsed \in Nat /\ AttemptTime \in Nat /\ Lifetime \in Nat
  BY ResolverAssumption DEF TypeOK, QueryTypeOK
<1>2. Timeout \in Nat /\ Timeout <= Lifetime - elapsed
  BY <1>1, MinOfTwo DEF Timeout
<1>3. Min({Timeout, backoff}) \in Nat /\ Min({Timeout, backoff}) <= Timeout
  BY <1>1, <1>2, MinOfTwo
<1>4. Attempt => \E d \in Nat : d <= Timeout /\ elapsed' = elapsed + d
  BY <1>2 DEF Attempt
<1>5. Sleep => elapsed' = elapsed + Min({Timeout, backoff})
  BY DEF Sleep
<1>6. QED
  BY <1>1, <1>2, <1>3, <1>4, <1>5

(* The time of one more query.                                             *)
LEMMA OneMore ==
    ASSUME NEW n \in Nat, NEW s \in Nat, s <= n * Lifetime,
           NEW e \in Nat, e <= Lifetime
    PROVE  s + e \in Nat /\ s + e <= (n + 1) * Lifetime
<1>1. (n + 1) * Lifetime = n * Lifetime + Lifetime /\ Lifetime \in Nat /\ n * Lifetime \in Nat
  BY ResolverAssumption
<1>2. QED
  BY <1>1

(* More queries, more time.                                                *)
LEMMA Longer ==
    ASSUME NEW m \in Nat, NEW n \in Nat, m <= n, NEW s \in Nat, s <= m * Lifetime
    PROVE  s <= n * Lifetime
<1>1. PICK k \in Nat : n = m + k
  <2>1. n - m \in Nat /\ n = m + (n - m)
    OBVIOUS
  <2>2. QED
    BY <2>1
<1>2. n * Lifetime = m * Lifetime + k * Lifetime
  BY <1>1, ResolverAssumption
<1>3. m * Lifetime \in Nat /\ k * Lifetime \in Nat
  BY ResolverAssumption
<1>4. QED
  BY <1>2, <1>3

----------------------------------------------------------------------------
(* Types. *)

(* Every step of a query keeps the types of what it works on.              *)
LEMMA QueryType ==
    ASSUME TypeOK, InRound, Ask
    PROVE  TypeOK'
<1>1. UNCHANGED checkVars
  BY DEF Ask
<1>2. SUFFICES QueryTypeOK'
  BY <1>1 DEF TypeOK, checkVars
<1>3. /\ query \in Running \cup Outcome /\ name \in 1 .. Names
      /\ servers \in Seq(Server) /\ turn \in Seq(Server)
      /\ elapsed \in Nat /\ backoff \in Nat \ {0}
      /\ NameServers \in Seq(Server) /\ Names \in Nat
  BY ResolverAssumption DEF TypeOK, QueryTypeOK
<1>4. turn # <<>> => Tail(turn) \in Seq(Server)
  BY <1>3, RestOfRound
<1>5. Attempt => turn # <<>> /\ elapsed' \in Nat
  BY WithinLifetime DEF Attempt
<1>6. Sleep => elapsed' \in Nat
  BY WithinLifetime DEF Sleep
<1>7. CASE Answers
  <2>1. Attempt /\ backoff' \in Nat \ {0} /\ servers' \in Seq(Server)
        /\ turn' \in Seq(Server) /\ name' \in 1 .. Names /\ query' \in Running \cup Outcome
    <3>1. CASE Found \/ NoneOfType
      BY <1>3, <3>1 DEF Found, NoneOfType, End, Outcome
    <3>2. CASE Absent /\ name < Names
      <4>1. name + 1 \in 1 .. Names
        BY <1>3, <3>2
      <4>2. QED
        BY <1>3, <3>2, <4>1 DEF Absent, Running
    <3>3. CASE Absent /\ ~(name < Names)
      BY <1>3, <3>3 DEF Absent, End, Outcome
    <3>4. QED
      BY <1>7, <3>1, <3>2, <3>3 DEF Answers
  <2>2. QED
    BY <1>5, <2>1 DEF QueryTypeOK
<1>8. CASE Truncated
  BY <1>3, <1>5, <1>8 DEF Truncated, QueryTypeOK, Running
<1>9. CASE Silent
  BY <1>3, <1>4, <1>5, <1>9 DEF Silent, QueryTypeOK, Running
<1>10. CASE Broken
  <2>1. servers' \in Seq(Server)
    BY <1>3, <1>10, ServersLeft DEF Broken
  <2>2. QED
    BY <1>3, <1>4, <1>5, <1>10, <2>1 DEF Broken, QueryTypeOK, Running
<1>11. CASE TooLong
  BY <1>3, <1>5, <1>11 DEF TooLong, End, QueryTypeOK, Outcome
<1>12. CASE TimesOut
  BY <1>3, <1>12 DEF TimesOut, End, QueryTypeOK, Outcome
<1>13. CASE TcpTimesOut
  <2>1. turn # <<>>
    BY <1>13 DEF TcpTimesOut, InRound
  <2>2. QED
    BY <1>3, <1>4, <1>13, <2>1 DEF TcpTimesOut, QueryTypeOK, Running
<1>14. CASE NoServers
  BY <1>3, <1>14 DEF NoServers, End, QueryTypeOK, Outcome
<1>15. CASE Sleep
  <2>1. backoff' \in Nat \ {0}
    BY <1>3, <1>15 DEF Sleep
  <2>2. QED
    BY <1>3, <1>6, <1>15, <2>1 DEF Sleep, QueryTypeOK
<1>16. QED
  BY <1>7, <1>8, <1>9, <1>10, <1>11, <1>12, <1>13, <1>14, <1>15 DEF Ask

(* So does every step of the loop over the lists.                          *)
LEMMA CheckType ==
    ASSUME TypeOK, Asking,
           Skip \/ NotListed \/ Raises \/ Listed \/ Refuse
    PROVE  TypeOK'
<1>1. /\ Names \in Nat \ {0} /\ NameServers \in Seq(Server) /\ Lists \in Nat
      /\ spent \in Nat /\ elapsed \in Nat /\ list \in 1 .. Lists + 1
  BY ResolverAssumption, ListsAssumption DEF TypeOK, QueryTypeOK
<1>2. Fresh => QueryTypeOK'
  BY <1>1 DEF Fresh, QueryTypeOK, Running
<1>3. UNCHANGED queryVars => QueryTypeOK'
  BY DEF queryVars, QueryTypeOK, TypeOK
<1>4. status = "checking" /\ list \in 1 .. Lists
  BY <1>1 DEF Skip, NotListed, Raises, Listed, Refuse, Ended, Asking
<1>5. list + 1 \in 1 .. Lists + 1 /\ spent + elapsed \in Nat
  BY <1>1, <1>4
<1>6. CASE Skip
  BY <1>2, <1>4, <1>5, <1>6 DEF Skip, NextList, TypeOK
<1>7. CASE NotListed
  BY <1>2, <1>5, <1>7 DEF NotListed, NextList, TypeOK
<1>8. CASE Raises
  BY <1>3, <1>5, <1>8 DEF Raises, TypeOK
<1>9. CASE Listed
  BY <1>2, <1>5, <1>9 DEF Listed, TypeOK
<1>10. CASE Refuse
  BY <1>3, <1>5, <1>10 DEF Refuse, TypeOK
<1>11. QED
  BY <1>6, <1>7, <1>8, <1>9, <1>10

----------------------------------------------------------------------------
(* Time. *)

(* A query stays within its lifetime, and the check pays for it later.     *)
LEMMA QueryTime ==
    ASSUME TypeOK, Prompt, Ask
    PROVE  Prompt'
<1>1. /\ Lifetime \in Nat /\ elapsed \in Nat
      /\ UNCHANGED <<status, list, rdtype, spent>>
  BY ResolverAssumption DEF TypeOK, QueryTypeOK, Ask, checkVars
<1>2. elapsed' <= Lifetime
  <2>1. Attempt => elapsed' <= Lifetime
    BY WithinLifetime DEF Attempt
  <2>2. Sleep => elapsed' <= Lifetime
    BY WithinLifetime DEF Sleep
  <2>3. Answers \/ Truncated \/ Silent \/ Broken \/ TooLong => Attempt
    BY DEF Answers, Found, NoneOfType, Absent, Truncated, Silent, Broken, TooLong
  <2>4. TimesOut \/ TcpTimesOut \/ NoServers => elapsed' = elapsed
    BY DEF TimesOut, TcpTimesOut, NoServers
  <2>5. QED
    BY <2>1, <2>2, <2>3, <2>4 DEF Ask, Prompt
<1>3. QED
  BY <1>1, <1>2 DEF Prompt, Queries

(* A query that has ended is paid for; there is at most one more of each   *)
(* list, and of the last list two.                                         *)
LEMMA CheckTime ==
    ASSUME TypeOK, Asking, Prompt,
           Skip \/ NotListed \/ Raises \/ Listed \/ Refuse
    PROVE  Prompt'
<1>1. /\ Lists \in Nat /\ Lifetime \in Nat /\ spent \in Nat /\ elapsed \in Nat
      /\ list \in Nat /\ list >= 1 /\ list <= Lists /\ status = "checking"
      /\ rdtype \in {"A", "TXT"}
  BY ResolverAssumption, ListsAssumption
  DEF TypeOK, QueryTypeOK, Asking, Skip, NotListed, Raises, Listed, Refuse, Ended
<1>2. /\ spent <= Queries * Lifetime /\ elapsed <= Lifetime
      /\ Queries \in Nat
  BY <1>1 DEF Prompt, Queries
<1>3. spent + elapsed \in Nat /\ spent + elapsed <= (Queries + 1) * Lifetime
  BY <1>1, <1>2, OneMore
<1>4. /\ rdtype = "A" => Queries + 1 = list
      /\ Queries + 1 \in Nat /\ Queries + 1 <= Lists + 1
  BY <1>1 DEF Queries
<1>5. spent + elapsed <= (Lists + 1) * Lifetime
  BY <1>1, <1>3, <1>4, Longer
<1>6. Fresh => elapsed' = 0 /\ 0 <= Lifetime
  BY <1>1 DEF Fresh
<1>7. CASE Skip \/ NotListed
  <2>1. /\ rdtype = "A" /\ rdtype' = "A" /\ Fresh
        /\ list' = list + 1 /\ spent' = spent + elapsed
    BY <1>7 DEF Skip, NotListed, Ended, NextList
  <2>2. Queries' = list
    BY <1>1, <2>1 DEF Queries
  <2>3. spent' <= Queries' * Lifetime
    BY <1>3, <1>4, <2>1, <2>2
  <2>4. QED
    BY <1>5, <1>6, <2>1, <2>3 DEF Prompt
<1>8. CASE Listed
  <2>1. /\ rdtype = "A" /\ rdtype' = "TXT" /\ Fresh
        /\ list' = list /\ spent' = spent + elapsed
    BY <1>8 DEF Listed, Ended
  <2>2. Queries' = list
    BY <1>1, <2>1 DEF Queries
  <2>3. spent' <= Queries' * Lifetime
    BY <1>3, <1>4, <2>1, <2>2
  <2>4. QED
    BY <1>5, <1>6, <2>1, <2>3 DEF Prompt
<1>9. CASE Raises \/ Refuse
  <2>1. /\ spent' = spent + elapsed /\ elapsed' = elapsed
        /\ status' # "checking"
    BY <1>9 DEF Raises, Refuse, queryVars
  <2>2. QED
    BY <1>2, <1>5, <2>1 DEF Prompt
<1>10. QED
  BY <1>7, <1>8, <1>9

----------------------------------------------------------------------------
(* Judgement. *)

(* What a query finds out about the list that is asked.                    *)
LEMMA QueryKnown ==
    ASSUME TypeOK, BInv, Ask
    PROVE  Known'
<1>1. /\ Known /\ rdtype \in {"A", "TXT"} /\ name \in 1 .. Names /\ Names \in Nat
      /\ status = "checking"
      /\ UNCHANGED <<zone, list, rdtype>>
  BY ResolverAssumption DEF BInv, TypeOK, QueryTypeOK, Ask, checkVars
<1>2. CASE rdtype = "TXT"
  BY <1>1, <1>2 DEF Known
<1>3. CASE rdtype = "A"
  <2>1. SUFFICES
          /\ query' \in Running =>
                \A i \in 1 .. Names : i < name' => zone[list][i] = "nothing"
          /\ query' = "NXDOMAIN" => \A i \in 1 .. Names : zone[list][i] = "nothing"
          /\ query' = "Answer" => zone[list][name'] = "record"
    BY <1>1, <1>3 DEF Known
  <2>2. query \in Running => \A i \in 1 .. Names : i < name => zone[list][i] = "nothing"
    BY <1>1, <1>3 DEF Known
  <2>3. CASE Found /\ Here = "record"
    BY <2>3 DEF Found, End, Here, Running
  <2>4. CASE Absent /\ Here = "nothing"
    <3>1. \A i \in 1 .. Names : i <= name => zone[list][i] = "nothing"
      <4>1. \A i \in 1 .. Names : i <= name => i < name \/ i = name
        BY <1>1
      <4>2. query \in Running /\ zone[list][name] = "nothing"
        BY <2>4 DEF Absent, Attempt, Here
      <4>3. QED
        BY <2>2, <4>1, <4>2
    <3>2. CASE name < Names
      <4>1. name' = name + 1 /\ query' = "ask"
        BY <2>4, <3>2 DEF Absent
      <4>2. \A i \in 1 .. Names : i < name + 1 => i <= name
        BY <1>1
      <4>3. QED
        BY <3>1, <4>1, <4>2
    <3>3. CASE ~(name < Names)
      <4>1. query' = "NXDOMAIN"
        BY <2>4, <3>3 DEF Absent, End
      <4>2. \A i \in 1 .. Names : i <= name
        BY <1>1, <3>3
      <4>3. QED
        BY <3>1, <4>1, <4>2 DEF Running
    <3>4. QED
      BY <3>2, <3>3
  <2>5. CASE Truncated \/ Silent \/ Broken \/ TcpTimesOut \/ Sleep
    <3>1. query \in Running /\ query' \in Running /\ name' = name
      BY <2>5 DEF Truncated, Silent, Broken, TcpTimesOut, Sleep, Attempt, Running
    <3>2. QED
      BY <2>2, <3>1 DEF Running
  <2>6. CASE NoneOfType \/ TooLong \/ TimesOut \/ NoServers
    BY <2>6 DEF NoneOfType, TooLong, TimesOut, NoServers, End, Running
  <2>7. QED
    BY <1>3, <2>3, <2>4, <2>5, <2>6 DEF Ask, Answers
<1>4. QED
  BY <1>1, <1>2, <1>3

(* A query leaves the rest as it is.                                       *)
LEMMA QueryStep ==
    ASSUME TypeOK, BInv, Ask
    PROVE  BInv'
<1>1. Known' /\ Prompt'
  BY QueryKnown, QueryTime DEF BInv
<1>2. UNCHANGED checkVars /\ status = "checking"
  BY DEF Ask
<1>3. InRound'
  <2>1. query' = "tcp" => turn # <<>> /\ turn' = turn
    BY DEF Ask, Answers, Found, NoneOfType, Absent, End, Truncated, Silent, Broken,
           TooLong, TimesOut, TcpTimesOut, NoServers, Sleep, Attempt
  <2>2. QED
    BY <2>1 DEF InRound
<1>4. Asking' /\ Passed' /\ \A l \in timedout' : l < list'
  BY <1>2 DEF BInv, Asking, Passed, checkVars
<1>5. status' = "checking"
  BY <1>2 DEF checkVars
<1>6. QED
  BY <1>1, <1>3, <1>4, <1>5 DEF BInv

(* What the loop over the lists makes of it.                               *)
LEMMA CheckStep ==
    ASSUME TypeOK, BInv,
           Skip \/ NotListed \/ Raises \/ Listed \/ Refuse
    PROVE  BInv'
<1>1. Prompt'
  BY CheckTime DEF BInv
<1>2. /\ Lists \in Nat /\ list \in Nat /\ list >= 1 /\ list <= Lists
      /\ status = "checking" /\ Known /\ Names \in Nat
      /\ timedout \subseteq 1 .. Lists
  BY ResolverAssumption, ListsAssumption
  DEF BInv, TypeOK, Asking, Skip, NotListed, Raises, Listed, Refuse, Ended
<1>3. Fresh => query' = "ask" /\ name' = 1
  BY DEF Fresh
<1>4. CASE Skip \/ NotListed
  <2>1. /\ list' = list + 1 /\ UNCHANGED <<zone, rdtype>> /\ Fresh /\ rdtype = "A"
        /\ status' = IF list = Lists THEN "passed" ELSE status
    BY <1>4 DEF Skip, NotListed, NextList, Ended
  <2>2. InRound' /\ Asking'
    BY <1>2, <1>3, <2>1 DEF InRound, Asking
  <2>3. Known'
    BY <1>2, <1>3, <2>1 DEF Known, Running
  <2>4. \A l \in timedout' : l < list'
    <3>1. timedout' \subseteq timedout \cup {list} /\ \A l \in timedout : l < list
      BY <1>4 DEF Skip, NotListed, BInv
    <3>2. QED
      BY <1>2, <2>1, <3>1
  <2>5. list \notin timedout' => \A i \in 1 .. Names : zone[list][i] = "nothing"
    BY <1>2, <1>4, <2>1 DEF Skip, NotListed, Ended, Known
  <2>6. Passed'
    <3>1. \A l \in 1 .. Lists : l < list' => l < list \/ l = list
      BY <1>2, <2>1
    <3>2. timedout \subseteq timedout'
      BY <1>4 DEF Skip, NotListed
    <3>3. QED
      BY <2>1, <2>5, <3>1, <3>2 DEF Passed, BInv
  <2>7. status' # "refused"
    BY <1>2, <2>1
  <2>8. QED
    BY <1>1, <2>2, <2>3, <2>4, <2>6, <2>7 DEF BInv
<1>5. CASE Listed
  <2>1. /\ UNCHANGED <<zone, list, timedout, status>> /\ Fresh
        /\ rdtype' = "TXT" /\ zone[list][name] = "record" /\ name \in 1 .. Names
    BY <1>2, <1>5 DEF Listed, Ended, Known, TypeOK, QueryTypeOK
  <2>2. InRound' /\ Asking' /\ Known'
    BY <1>2, <1>3, <2>1 DEF InRound, Asking, Known
  <2>3. QED
    BY <1>1, <1>2, <2>1, <2>2 DEF BInv, Passed
<1>6. CASE Raises
  <2>1. UNCHANGED <<query, turn, zone, list, timedout>> /\ status' = "554"
    BY <1>6 DEF Raises, queryVars
  <2>2. QED
    BY <1>1, <2>1 DEF BInv, InRound, Asking, Passed
<1>7. CASE Refuse
  <2>1. /\ UNCHANGED <<query, turn, zone, list, timedout>> /\ status' = "refused"
        /\ \E i \in 1 .. Names : zone[list][i] = "record"
    BY <1>2, <1>7 DEF Refuse, queryVars, Ended, Known
  <2>2. QED
    BY <1>1, <2>1 DEF BInv, InRound, Asking, Passed
<1>8. QED
  BY <1>4, <1>5, <1>6, <1>7

----------------------------------------------------------------------------

(* The check begins with nothing known and nothing spent.                  *)
LEMMA CheckInit == Init => Inductive
<1> SUFFICES ASSUME Init PROVE Inductive
  OBVIOUS
<1>1. /\ Names \in Nat \ {0} /\ NameServers \in Seq(Server) /\ Lists \in Nat
      /\ Lifetime \in Nat
  BY ResolverAssumption, ListsAssumption
<1>2. TypeOK
  BY <1>1 DEF Init, TypeOK, QueryTypeOK, Running
<1>3. Prompt
  <2>1. Queries = 0 /\ spent = 0 /\ elapsed = 0
    BY DEF Init, Queries
  <2>2. 0 <= 0 * Lifetime /\ 0 <= (Lists + 1) * Lifetime
    BY <1>1
  <2>3. QED
    BY <1>1, <2>1, <2>2 DEF Prompt
<1>4. InRound /\ Asking /\ Known
  BY <1>1 DEF Init, InRound, Asking, Known, Running
<1>5. Passed /\ timedout = {} /\ status # "refused"
  BY <1>1 DEF Init, Passed
<1>6. QED
  BY <1>2, <1>3, <1>4, <1>5 DEF Inductive, BInv

(* Every step of the check keeps the invariant.                            *)
LEMMA CheckNext == Inductive /\ [Next]_vars => Inductive'
<1> SUFFICES ASSUME Inductive, [Next]_vars PROVE Inductive'
  OBVIOUS
<1>1. TypeOK /\ BInv
  BY DEF Inductive
<1>2. CASE Ask
  BY <1>1, <1>2, QueryType, QueryStep DEF Inductive, BInv
<1>3. CASE Skip \/ NotListed \/ Raises \/ Listed \/ Refuse
  BY <1>1, <1>3, CheckType, CheckStep DEF Inductive, BInv
<1>4. CASE UNCHANGED vars
  BY <1>1, <1>4
  DEF Inductive, TypeOK, QueryTypeOK, BInv, InRound, Asking, Prompt, Queries, Known,
      Passed, vars, queryVars, checkVars
<1>5. QED
  BY <1>2, <1>3, <1>4 DEF Next, Done

(* The types, what is known of the lists, and the time that is spent.      *)
THEOREM CheckCorrect == Spec => []Inductive
  BY CheckInit, CheckNext, PTL DEF Spec

(* Nobody is refused for a list that has no record of him, and nobody      *)
(* passes a list that has one, unless it timed out (validate, query).      *)
THEOREM JudgedHolds == Spec => []Judged
<1>1. Inductive => Judged
  BY DEF Inductive, BInv, Judged, Passed
<1>2. QED
  BY <1>1, CheckCorrect, PTL

(* Name servers that are silent, broken or slow cost a check no more than  *)
(* the lifetime of its queries, of which there are as many as lists and    *)
(* one more (_compute_timeout, validate).                                  *)
THEOREM InTimeHolds == Spec => []InTime
<1>1. Inductive => InTime
  <2> SUFFICES ASSUME Inductive PROVE InTime
    OBVIOUS
  <2>1. Prompt /\ Asking /\ TypeOK
    BY DEF Inductive, BInv
  <2>2. elapsed <= Lifetime
    BY <2>1 DEF Prompt
  <2>3. CASE status # "checking"
    BY <2>1, <2>2, <2>3 DEF Prompt, InTime
  <2>4. CASE status = "checking"
    <3>1. /\ Queries \in Nat /\ Lists + 1 \in Nat /\ Queries <= Lists + 1
          /\ spent \in Nat /\ spent <= Queries * Lifetime
      BY <2>1, <2>4, ListsAssumption DEF Prompt, Asking, TypeOK, Queries
    <3>2. QED
      BY <2>2, <3>1, Longer DEF InTime
  <2>5. QED
    BY <2>3, <2>4
<1>2. QED
  BY <1>1, CheckCorrect, PTL

----------------------------------------------------------------------------
(* nameservers.remove. *)

(* The servers still to be asked are the last ones of those that are left, *)
(* whatever was taken out before them.                                     *)
Round ==
    /\ Len(turn) <= Len(servers)
    /\ \A i \in 1 .. Len(turn) : servers[Len(servers) - Len(turn) + i] = turn[i]

(* Behind the first server of that name the others move up.                *)
LEMMA FirstTakenOut ==
    ASSUME NEW s \in Seq(Server), NEW e, NEW p \in 1 .. Len(s), s[p] = e
    PROVE  /\ Len(RemoveFirst(s, e)) = Len(s) - 1
           /\ \A j \in p .. Len(s) - 1 : RemoveFirst(s, e)[j] = s[j + 1]
<1> DEFINE I == {i \in 1 .. Len(s) : s[i] = e}
           k == Min(I)
           before == SubSeq(s, 1, k - 1)
           behind == SubSeq(s, k + 1, Len(s))
<1>1. I # {} /\ I \subseteq Nat /\ p \in I /\ \E i \in 1 .. Len(s) : s[i] = e
  OBVIOUS
<1>2. RemoveFirst(s, e) = before \o behind
  BY <1>1 DEF RemoveFirst, RemoveAt, SelectInSeq
<1>3. \E x \in I : \A y \in I : x <= y
  BY <1>1, LeastOf
<1>4. k \in 1 .. Len(s) /\ k <= p
  BY <1>1, <1>3 DEF Min
<1> HIDE DEF k
<1>5. \A i \in 1 .. Len(s) : s[i] \in Server
  OBVIOUS
<1>6. /\ before \in Seq(Server) /\ Len(before) = k - 1
      /\ behind \in Seq(Server) /\ Len(behind) = Len(s) - k
      /\ \A i \in 1 .. Len(s) - k : behind[i] = s[k + i]
  <2>1. /\ before \in Seq(Server)
        /\ Len(before) = IF 1 <= k - 1 THEN k - 1 - 1 + 1 ELSE 0
    BY <1>4, <1>5, SubSeqProperties
  <2>2. /\ behind \in Seq(Server)
        /\ Len(behind) = IF k + 1 <= Len(s) THEN Len(s) - (k + 1) + 1 ELSE 0
        /\ \A i \in 1 .. Len(s) - (k + 1) + 1 : behind[i] = s[k + 1 + i - 1]
    BY <1>4, <1>5, SubSeqProperties
  <2> HIDE DEF before, behind
  <2>3. Len(before) = k - 1 /\ Len(behind) = Len(s) - k
    BY <1>4, <2>1, <2>2
  <2>4. \A i \in 1 .. Len(s) - k : k + 1 + i - 1 = k + i /\ i \in 1 .. Len(s) - (k + 1) + 1
    BY <1>4
  <2>5. QED
    BY <2>1, <2>2, <2>3, <2>4
<1> HIDE DEF before, behind
<1>7. Len(before \o behind) = Len(s) - 1
  <2>1. Len(before \o behind) = Len(before) + Len(behind)
    BY <1>6, ConcatProperties
  <2>2. Len(s) \in Nat /\ k \in Nat
    BY <1>4
  <2>3. Len(before) + Len(behind) = Len(s) - 1
    BY <1>6, <2>2
  <2>4. QED
    BY <2>1, <2>3
<1>8. ASSUME NEW j \in p .. Len(s) - 1
      PROVE  (before \o behind)[j] = s[j + 1]
  <2>1. j - (k - 1) \in 1 .. Len(s) - k /\ j > k - 1 /\ j \in 1 .. Len(s) - 1
        /\ k + (j - (k - 1)) = j + 1
    BY <1>4
  <2>2. (before \o behind)[j] = behind[j - (k - 1)]
    BY <1>4, <1>6, <2>1
  <2>3. QED
    BY <1>6, <2>1, <2>2
<1>9. QED
  BY <1>2, <1>7, <1>8

(* An attempt is made at a server that is left.                            *)
LEMMA HeadIsThere ==
    ASSUME TypeOK, Round, turn # <<>>
    PROVE  /\ Len(servers) - Len(turn) + 1 \in 1 .. Len(servers)
           /\ servers[Len(servers) - Len(turn) + 1] = Head(turn)
           /\ Tail(turn) \in Seq(Server) /\ Len(Tail(turn)) = Len(turn) - 1
           /\ \A i \in 1 .. Len(turn) - 1 : Tail(turn)[i] = turn[i + 1]
<1>1. turn \in Seq(Server) /\ servers \in Seq(Server) /\ Len(turn) \in Nat \ {0}
      /\ Len(servers) \in Nat
  <2>1. turn \in Seq(Server) /\ servers \in Seq(Server)
    BY DEF TypeOK, QueryTypeOK
  <2>2. QED
    BY <2>1, EmptySeq
<1>2. /\ Head(turn) = turn[1] /\ Tail(turn) \in Seq(Server)
      /\ Len(Tail(turn)) = Len(turn) - 1
      /\ \A i \in 1 .. Len(Tail(turn)) : Tail(turn)[i] = turn[i + 1]
  BY <1>1, HeadTailProperties
<1>3. 1 \in 1 .. Len(turn)
  BY <1>1
<1>4. QED
  BY <1>1, <1>2, <1>3 DEF Round

(* A server that was asked leaves the round, and the list if it is broken. *)
LEMMA RoundStep ==
    ASSUME TypeOK, InRound, Round, [Next]_vars
    PROVE  Round'
<1>1. turn \in Seq(Server) /\ servers \in Seq(Server) /\ NameServers \in Seq(Server)
      /\ Len(turn) \in Nat /\ Len(servers) \in Nat /\ Len(NameServers) \in Nat
  BY ResolverAssumption DEF TypeOK, QueryTypeOK
<1>2. CASE UNCHANGED <<servers, turn>>
  BY <1>2 DEF Round
<1>3. CASE servers' = turn' /\ servers' \in Seq(Server)
  BY <1>3 DEF Round
<1>4. CASE Silent \/ TcpTimesOut
  <2>1. turn # <<>> /\ turn' = Tail(turn) /\ servers' = servers
    BY <1>4 DEF Silent, TcpTimesOut, Attempt, InRound
  <2>2. \A i \in 1 .. Len(turn) - 1 :
            /\ i + 1 \in 1 .. Len(turn)
            /\ Len(servers) - (Len(turn) - 1) + i = Len(servers) - Len(turn) + (i + 1)
    BY <1>1
  <2>3. Len(turn) - 1 <= Len(servers)
    BY <1>1 DEF Round
  <2>4. Len(turn') = Len(turn) - 1 /\ \A i \in 1 .. Len(turn) - 1 : turn'[i] = turn[i + 1]
    BY <2>1, HeadIsThere
  <2>5. ASSUME NEW i \in 1 .. Len(turn')
        PROVE  servers'[Len(servers') - Len(turn') + i] = turn'[i]
    <3>1. i \in 1 .. Len(turn) - 1
      BY <2>4
    <3>2. servers[Len(servers) - Len(turn) + (i + 1)] = turn[i + 1]
      BY <2>2, <3>1 DEF Round
    <3>3. Len(servers') - Len(turn') + i = Len(servers) - Len(turn) + (i + 1)
      BY <2>1, <2>2, <2>4, <3>1
    <3>4. QED
      BY <2>1, <2>4, <3>1, <3>2, <3>3
  <2>6. QED
    BY <2>1, <2>3, <2>4, <2>5 DEF Round
<1>5. CASE Broken
  <2>1. turn # <<>> /\ turn' = Tail(turn) /\ servers' = RemoveFirst(servers, Head(turn))
    BY <1>5 DEF Broken, Attempt
  <2> DEFINE p == Len(servers) - Len(turn) + 1
  <2>2. p \in 1 .. Len(servers) /\ servers[p] = Head(turn)
    BY <2>1, HeadIsThere
  <2>3. /\ Len(servers') = Len(servers) - 1
        /\ \A j \in p .. Len(servers) - 1 : servers'[j] = servers[j + 1]
    BY <1>1, <2>1, <2>2, FirstTakenOut
  <2>4. Len(turn') = Len(turn) - 1 /\ \A i \in 1 .. Len(turn) - 1 : turn'[i] = turn[i + 1]
    BY <2>1, HeadIsThere
  <2>5. Len(turn') <= Len(servers')
    BY <1>1, <2>3, <2>4 DEF Round
  <2>6. ASSUME NEW i \in 1 .. Len(turn')
        PROVE  servers'[Len(servers') - Len(turn') + i] = turn'[i]
    <3>1. /\ i + 1 \in 1 .. Len(turn) /\ i \in 1 .. Len(turn) - 1
          /\ Len(servers') - Len(turn') + i = Len(servers) - Len(turn) + i
          /\ Len(servers) - Len(turn) + i \in p .. Len(servers) - 1
          /\ Len(servers) - Len(turn) + i + 1 = Len(servers) - Len(turn) + (i + 1)
      BY <1>1, <2>3, <2>4 DEF Round
    <3>2. servers[Len(servers) - Len(turn) + (i + 1)] = turn[i + 1]
      BY <3>1 DEF Round
    <3>3. QED
      BY <2>3, <2>4, <3>1, <3>2
  <2>7. QED
    BY <2>5, <2>6 DEF Round
<1>6. CASE Absent
  BY <1>1, <1>2, <1>3, <1>6 DEF Absent, End
<1>7. CASE Sleep
  BY <1>1, <1>3, <1>7 DEF Sleep
<1>8. ASSUME Fresh
      PROVE  Round'
  BY <1>1, <1>3, <1>8 DEF Fresh
<1>9. QED
  BY <1>2, <1>4, <1>5, <1>6, <1>7, <1>8
  DEF Next, Ask, Answers, Found, NoneOfType, End, Truncated, TooLong, TimesOut,
      NoServers, Skip, NotListed, NextList, Raises, Listed, Refuse, Done, vars, queryVars

(* A server that turns out to be broken is among those that are left, even *)
(* if resolv.conf names one twice, so that nameservers.remove, which       *)
(* nothing in query would catch, never raises (query).                     *)
THEOREM RemoveFinds ==
    Spec => [](turn # <<>> => \E i \in 1 .. Len(servers) : servers[i] = Head(turn))
<1>1. Init => Round
  <2> SUFFICES ASSUME Init PROVE Round
    OBVIOUS
  <2>1. servers = turn /\ turn \in Seq(Server)
    BY ResolverAssumption DEF Init
  <2>2. QED
    BY <2>1 DEF Round
<1>2. Inductive /\ Round /\ [Next]_vars => Round'
  BY RoundStep DEF Inductive, BInv
<1>3. Inductive /\ Round =>
          (turn # <<>> => \E i \in 1 .. Len(servers) : servers[i] = Head(turn))
  BY HeadIsThere DEF Inductive
<1>4. QED
  BY <1>1, <1>2, <1>3, CheckCorrect, PTL DEF Spec

=============================================================================
