--------------------------- MODULE LdapDriverProof ---------------------------
(***************************************************************************)
(* The expansion of a mailing list, for any directory: it is exactly the   *)
(* list's, and nothing is searched twice.                                  *)
(***************************************************************************)
EXTENDS LdapDriver, SequenceTheorems, TLAPS

Resolved == Range(resolved)

(* What the calls under way, or the one that returned, have found.         *)
Collected ==
    IF outcome = "returned" THEN Range(value)
    ELSE UNION {Range(stack[i].mails) : i \in DOMAIN stack}

(* A call works for an entry the group leads to, and what it has found so  *)
(* far belongs to the list.                                                *)
Sound(i) ==
    /\ stack[i].dn \in Reachable
    /\ Range(stack[i].members) \subseteq Range(directory.members[stack[i].dn])
    /\ Range(stack[i].todo) \subseteq Range(directory.mails[stack[i].dn])
    /\ Range(stack[i].mails) \subseteq Expansion
    /\ stack[i].phase = "search" => stack[i].mails = <<>>

(* A call that has searched has noted its entry, later than its callers,   *)
(* who all wait for a member.                                              *)
Noted(i) ==
    /\ i > 1 => stack[i].phase = "members"
    /\ stack[i].phase # "search" =>
          \E p \in DOMAIN resolved :
              resolved[p] = stack[i].dn /\ p >= Len(stack) - i + 1

(* No member and no mail of its entry is left out, but those to come.      *)
Thorough(i) ==
    /\ stack[i].phase = "members" =>
          \A m \in Range(directory.members[stack[i].dn]) :
              \/ m \in Resolved \cup Range(stack[i].members)
              \/ i > 1 /\ m = stack[i - 1].dn
    /\ stack[i].phase = "mails" =>
          /\ Range(directory.members[stack[i].dn]) \subseteq Resolved
          /\ \A m \in Range(directory.mails[stack[i].dn]) :
                NameOf(m) \in Range(stack[i].mails) \/ m \in Range(stack[i].todo)

Calls == \A i \in DOMAIN stack : Sound(i) /\ Noted(i) /\ Thorough(i)

Done(dn) ==
    /\ Range(directory.members[dn]) \subseteq Resolved
    /\ \A m \in Range(directory.mails[dn]) : NameOf(m) \in Collected

(* Every entry that is noted has been worked off or has its call.          *)
Complete ==
    outcome # "raised" =>
        \A dn \in Resolved :
            \/ Done(dn)
            \/ \E i \in DOMAIN stack : stack[i].dn = dn /\ stack[i].phase # "search"

Begun ==
    /\ outcome \in {"lookup", "search"} => resolved = <<>>
    /\ outcome \in {"search", "expand"} => directory.user[asked] = None
    /\ outcome = "expand" =>
          /\ stack # <<>>
          /\ \/ resolved = <<>> /\ Len(stack) = 1 /\ stack[1].dn = group
             \/ group \in Resolved /\ (Len(stack) = 1 => stack[1].phase # "search")
    /\ outcome # "expand" => stack = <<>>
    /\ outcome = "returned" /\ directory.user[asked] = None =>
          group \in Resolved /\ Range(value) \subseteq Expansion

Inv ==
    /\ TypeOK
    /\ Once
    /\ Resolved \subseteq directory.present
    /\ Calls /\ Complete /\ Begun

----------------------------------------------------------------------------
(* Sequences. *)

(* The members of a sequence are its first and those of the rest.          *)
LEMMA RangeOfTail ==
    ASSUME NEW S, NEW s \in Seq(S), s # <<>>
    PROVE  Range(s) = {Head(s)} \cup Range(Tail(s))
<1>1. Len(s) \in Nat \ {0} /\ DOMAIN s = 1 .. Len(s) /\ Head(s) = s[1]
  BY EmptySeq, LenProperties
<1>2. Tail(s) \in Seq(S) /\ Len(Tail(s)) = Len(s) - 1
      /\ \A i \in 1 .. Len(Tail(s)) : Tail(s)[i] = s[i + 1]
  BY HeadTailProperties
<1>3. DOMAIN Tail(s) = 1 .. Len(s) - 1
  BY <1>2, LenProperties
<1>4. Range(s) \subseteq {Head(s)} \cup Range(Tail(s))
  <2>1. SUFFICES ASSUME NEW i \in 1 .. Len(s), i # 1
                 PROVE  s[i] \in Range(Tail(s))
    BY <1>1 DEF Range
  <2>2. i - 1 \in DOMAIN Tail(s) /\ s[i] = Tail(s)[i - 1]
    BY <1>1, <1>2, <1>3, <2>1
  <2>3. QED
    BY <2>2 DEF Range
<1>5. Range(Tail(s)) \subseteq Range(s)
  <2>1. SUFFICES ASSUME NEW i \in 1 .. Len(s) - 1
                 PROVE  Tail(s)[i] \in Range(s)
    BY <1>3 DEF Range
  <2>2. i + 1 \in DOMAIN s /\ Tail(s)[i] = s[i + 1]
    BY <1>1, <1>2, <2>1
  <2>3. QED
    BY <2>2 DEF Range
<1>6. Head(s) \in Range(s)
  BY <1>1 DEF Range
<1>7. QED
  BY <1>4, <1>5, <1>6

(* An appended element is one more member.                                 *)
LEMMA RangeOfAppend ==
    ASSUME NEW S, NEW s \in Seq(S), NEW e \in S
    PROVE  Range(Append(s, e)) = Range(s) \cup {e}
<1>1. Append(s, e) \in Seq(S) /\ Len(Append(s, e)) = Len(s) + 1
      /\ (\A i \in 1 .. Len(s) : Append(s, e)[i] = s[i])
      /\ Append(s, e)[Len(s) + 1] = e
  BY AppendProperties
<1>2. DOMAIN s = 1 .. Len(s) /\ DOMAIN Append(s, e) = 1 .. Len(s) + 1 /\ Len(s) \in Nat
  BY <1>1, LenProperties
<1>3. QED
  BY <1>1, <1>2 DEF Range

(* The empty sequence has no members.                                      *)
LEMMA RangeOfEmpty == Range(<<>>) = {}
BY DEF Range

(* Contains asks for membership.                                           *)
LEMMA ContainsIsIn ==
    ASSUME NEW S, NEW s \in Seq(S), NEW e
    PROVE  Contains(s, e) <=> e \in Range(s)
BY LenProperties DEF Contains, Range

(* The stack after a step of the innermost call, a call and a return.      *)
LEMMA TopChanged ==
    ASSUME NEW S, NEW s \in Seq(S), s # <<>>, NEW f \in S
    PROVE  LET t == <<f>> \o Tail(s)
           IN  /\ t \in Seq(S) /\ Len(t) = Len(s) /\ t[1] = f /\ t # <<>>
               /\ \A i \in 2 .. Len(s) : t[i] = s[i]
BY EmptySeq, HeadTailProperties, LenProperties

(* A call: the frame of the caller, changed, and a new one on top of it.   *)
LEMMA Pushed ==
    ASSUME NEW S, NEW s \in Seq(S), s # <<>>, NEW f \in S, NEW g \in S
    PROVE  LET t == <<g, f>> \o Tail(s)
           IN  /\ t \in Seq(S) /\ Len(t) = Len(s) + 1 /\ t[1] = g /\ t[2] = f /\ t # <<>>
               /\ \A i \in 3 .. Len(s) + 1 : t[i] = s[i - 1]
BY EmptySeq, HeadTailProperties, LenProperties

(* A return: the top frame is gone and the one below is changed.           *)
LEMMA Popped ==
    ASSUME NEW S, NEW s \in Seq(S), Len(s) > 1, NEW f \in S
    PROVE  LET t == <<f>> \o Tail(Tail(s))
           IN  /\ t \in Seq(S) /\ Len(t) = Len(s) - 1 /\ t[1] = f /\ t # <<>>
               /\ \A i \in 2 .. Len(s) - 1 : t[i] = s[i + 1]
<1>1. /\ Tail(s) \in Seq(S) /\ Len(Tail(s)) = Len(s) - 1 /\ Tail(s) # <<>>
      /\ \A i \in 1 .. Len(s) - 1 : Tail(s)[i] = s[i + 1]
  <2>1. Len(s) \in Nat /\ s # <<>>
    <3>1. Len(s) \in Nat /\ Len(s) # 0 /\ Len(<<>>) = 0
      BY EmptySeq, LenProperties
    <3>2. QED
      BY <3>1
  <2>2. /\ Tail(s) \in Seq(S) /\ Len(Tail(s)) = Len(s) - 1
        /\ \A i \in 1 .. Len(Tail(s)) : Tail(s)[i] = s[i + 1]
    BY <2>1, HeadTailProperties
  <2>3. Tail(s) # <<>>
    <3>1. Len(Tail(s)) # 0
      BY <2>1, <2>2
    <3>2. Len(<<>>) = 0
      BY EmptySeq
    <3>3. QED
      BY <3>1, <3>2
  <2>4. QED
    BY <2>2, <2>3
<1>2. /\ <<f>> \o Tail(Tail(s)) \in Seq(S)
      /\ Len(<<f>> \o Tail(Tail(s))) = Len(Tail(s))
      /\ (<<f>> \o Tail(Tail(s)))[1] = f /\ <<f>> \o Tail(Tail(s)) # <<>>
      /\ \A i \in 2 .. Len(Tail(s)) : (<<f>> \o Tail(Tail(s)))[i] = Tail(s)[i]
  BY <1>1, TopChanged
<1>3. QED
  BY <1>1, <1>2, LenProperties

----------------------------------------------------------------------------
(* What the directory says does not change, and belongs to the list. *)

(* The types of the directory and of what is made of an address.           *)
LEMMA DirectoryFacts ==
    ASSUME TypeOK
    PROVE  /\ directory.present \subseteq Dn
           /\ \A dn \in Dn : directory.members[dn] \in Seq(Dn)
           /\ \A dn \in Dn : directory.mails[dn] \in Seq(Address)
           /\ \A a \in Address : NameOf(a) \in Address /\ NameOf(NameOf(a)) = NameOf(a)
<1>1. directory \in Directories
  BY DEF TypeOK
<1>2. /\ directory.present \subseteq Dn
      /\ directory.members \in [Dn -> Seq(Dn)]
      /\ directory.mails \in [Dn -> Seq(Address)]
      /\ directory.user \in [Address -> Address \cup {None}]
      /\ \A a \in Address :
            directory.user[a] # None => directory.user[directory.user[a]] = directory.user[a]
  BY <1>1, DirectoryAssumption
<1>3. QED
  BY <1>2, DirectoryAssumption DEF NameOf

(* What a list leads to and stands for does not change during a query.     *)
LEMMA Fixed ==
    ASSUME UNCHANGED query
    PROVE  /\ Reachable' = Reachable /\ Expansion' = Expansion
           /\ \A m : NameOf(m)' = NameOf(m)
BY DEF query, Reachable, Expansion, NameOf, Closed

(* What a list leads to leads nowhere else.                                *)
LEMMA ReachableClosed ==
    ASSUME TypeOK
    PROVE  /\ Reachable \subseteq Dn
           /\ group \in Dn => group \in Reachable
           /\ \A dn \in Reachable : Range(directory.members[dn]) \subseteq Reachable
<1>1. \A dn \in Dn : Range(directory.members[dn]) \subseteq Dn
  BY DirectoryFacts, RangeOfSeq
<1>2. QED
  BY <1>1 DEF Reachable, Closed

(* The addresses of an entry the list leads to are part of what it stands  *)
(* for.                                                                    *)
LEMMA MailsExpand ==
    ASSUME TypeOK, NEW dn \in Reachable, NEW m \in Range(directory.mails[dn])
    PROVE  m \in Address /\ NameOf(m) \in Expansion
<1>1. m \in Address
  BY DirectoryFacts, ReachableClosed, RangeOfSeq
<1>2. QED
  BY <1>1 DEF Expansion

(* A name that was found is the name of itself.                            *)
LEMMA OwnName ==
    ASSUME TypeOK, NEW n \in Expansion
    PROVE  NameOf(n) = n
<1>1. PICK dn \in Reachable : n \in {NameOf(m) : m \in Range(directory.mails[dn])}
  BY DEF Expansion
<1>2. PICK m \in Range(directory.mails[dn]) : n = NameOf(m)
  BY <1>1
<1>3. QED
  BY <1>2, MailsExpand, DirectoryFacts

(* The innermost call.                                                     *)
LEMMA Innermost ==
    ASSUME Inv, NEW phase, Expanding(phase)
    PROVE  /\ stack \in Seq(Frame) /\ stack # <<>> /\ Len(stack) \in Nat \ {0}
           /\ DOMAIN stack = 1 .. Len(stack)
           /\ \A i \in 1 .. Len(stack) : stack[i] \in Frame
           /\ Top = stack[1] /\ Top \in Frame /\ Top.phase = phase
           /\ outcome = "expand"
           /\ resolved \in Seq(Dn) /\ Len(resolved) \in Nat
           /\ DOMAIN resolved = 1 .. Len(resolved)
<1>1. stack \in Seq(Frame) /\ stack # <<>> /\ outcome = "expand" /\ resolved \in Seq(Dn)
      /\ Top.phase = phase
  BY DEF Inv, TypeOK, Expanding
<1>2. Len(stack) \in Nat \ {0} /\ DOMAIN stack = 1 .. Len(stack)
      /\ \A i \in 1 .. Len(stack) : stack[i] \in Frame
  BY <1>1, EmptySeq, LenProperties, ElementOfSeq
<1>3. Top = stack[1]
  BY <1>1, <1>2 DEF Top
<1>4. QED
  BY <1>1, <1>2, <1>3, LenProperties

----------------------------------------------------------------------------
(* The steps of a call keep the invariant. *)

(* An entry that is there is searched, and noted.                          *)
LEMMA SearchKeeps ==
    ASSUME Inv, Search
    PROVE  Inv'
<1> DEFINE f == [Top EXCEPT !.phase = "members", !.members = directory.members[Top.dn]]
<1>1. /\ stack \in Seq(Frame) /\ stack # <<>> /\ Len(stack) \in Nat \ {0}
      /\ DOMAIN stack = 1 .. Len(stack)
      /\ \A i \in 1 .. Len(stack) : stack[i] \in Frame
      /\ Top = stack[1] /\ Top \in Frame /\ Top.phase = "search"
      /\ outcome = "expand"
      /\ resolved \in Seq(Dn) /\ Len(resolved) \in Nat /\ DOMAIN resolved = 1 .. Len(resolved)
  BY Innermost DEF Search
<1>2. TypeOK /\ UNCHANGED query
  BY DEF Inv, Search
<1>3. /\ Top.dn \in Dn /\ Top.dn \in directory.present
      /\ directory.members[Top.dn] \in Seq(Dn)
  BY <1>1, <1>2, DirectoryFacts DEF Search, Frame
<1>4. /\ f \in Frame /\ f.dn = Top.dn /\ f.phase = "members"
      /\ f.members = directory.members[Top.dn] /\ f.todo = Top.todo /\ f.mails = Top.mails
  BY <1>1, <1>3 DEF Frame
<1> HIDE DEF f
<1>5. /\ stack' \in Seq(Frame) /\ Len(stack') = Len(stack) /\ stack'[1] = f /\ stack' # <<>>
      /\ \A i \in 2 .. Len(stack) : stack'[i] = stack[i]
      /\ DOMAIN stack' = 1 .. Len(stack)
  <2>1. stack' = <<f>> \o Tail(stack)
    BY DEF Search, SetTop, f
  <2>2. QED
    BY <1>1, <1>4, <2>1, TopChanged, LenProperties
<1>6. /\ resolved' \in Seq(Dn) /\ Len(resolved') = Len(resolved) + 1
      /\ DOMAIN resolved' = 1 .. Len(resolved) + 1
      /\ \A p \in 1 .. Len(resolved) : resolved'[p] = resolved[p]
      /\ resolved'[Len(resolved) + 1] = Top.dn
      /\ Resolved' = Resolved \cup {Top.dn}
  BY <1>1, <1>3, AppendProperties, RangeOfAppend, LenProperties DEF Search, Resolved
<1>7. Top.dn \notin Resolved
  BY <1>1, ContainsIsIn DEF Search, Resolved
<1>8. /\ Reachable' = Reachable /\ Expansion' = Expansion
      /\ directory' = directory /\ group' = group /\ asked' = asked
      /\ outcome' = outcome /\ value' = value
      /\ \A m : NameOf(m)' = NameOf(m)
  BY <1>2, Fixed DEF query, Search
<1>9. Sound(1) /\ Once /\ Len(stack) <= Len(resolved) + 1
  BY <1>1 DEF Inv, Calls, Once
<1>10. TypeOK'
  BY <1>2, <1>5, <1>6, <1>8 DEF TypeOK
<1>11. Once'
  <2>1. IsInjective(resolved')
    BY <1>1, <1>6, <1>7, <1>9 DEF Once, IsInjective, Resolved, Range
  <2>2. Range(resolved') \subseteq Reachable'
    BY <1>1, <1>6, <1>8, <1>9 DEF Once, Sound, Resolved
  <2>3. QED
    BY <1>1, <1>5, <1>6, <1>9, <2>1, <2>2 DEF Once
<1>12. (Resolved \subseteq directory.present)'
  BY <1>3, <1>6, <1>8 DEF Inv
<1>13. Calls'
  <2>1. SUFFICES ASSUME NEW i \in 1 .. Len(stack)
                 PROVE  Sound(i)' /\ Noted(i)' /\ Thorough(i)'
    BY <1>5 DEF Calls
  <2>2. Sound(i) /\ Noted(i) /\ Thorough(i)
    BY <1>1 DEF Inv, Calls
  <2>3. CASE i = 1
    <3>1. Sound(i)'
      BY <1>1, <1>4, <1>5, <1>8, <2>2, <2>3 DEF Sound
    <3>2. Noted(i)'
      BY <1>1, <1>4, <1>5, <1>6, <1>9, <2>3 DEF Noted
    <3>3. Thorough(i)'
      BY <1>4, <1>5, <1>8, <2>3 DEF Thorough
    <3>4. QED
      BY <3>1, <3>2, <3>3
  <2>4. CASE i > 1
    <3>1. stack'[i] = stack[i] /\ stack'[i - 1].dn = stack[i - 1].dn
      BY <1>1, <1>4, <1>5, <2>4
    <3>2. Sound(i)'
      BY <1>8, <2>2, <3>1 DEF Sound
    <3>3. Noted(i)'
      BY <1>1, <1>5, <1>6, <2>2, <3>1 DEF Noted
    <3>4. Thorough(i)'
      BY <1>6, <1>8, <2>2, <2>4, <3>1 DEF Noted, Thorough
    <3>5. QED
      BY <3>2, <3>3, <3>4
  <2>5. QED
    BY <2>3, <2>4
<1>14. Complete'
  <2>1. Collected' = Collected
    <3>1. \A i \in 1 .. Len(stack) : stack'[i].mails = stack[i].mails
      BY <1>1, <1>4, <1>5
    <3>2. QED
      BY <1>1, <1>5, <1>8, <3>1 DEF Collected
  <2>2. SUFFICES ASSUME NEW dn \in Resolved'
                 PROVE  \/ Done(dn)'
                        \/ \E i \in 1 .. Len(stack) :
                              stack'[i].dn = dn /\ stack'[i].phase # "search"
    BY <1>5 DEF Complete
  <2>3. CASE dn = Top.dn
    BY <1>1, <1>4, <1>5, <2>3
  <2>4. CASE dn \in Resolved /\ Done(dn)
    BY <1>6, <1>8, <2>1, <2>4 DEF Done
  <2>5. CASE dn \in Resolved /\ ~Done(dn)
    <3>1. PICK i \in 1 .. Len(stack) : stack[i].dn = dn /\ stack[i].phase # "search"
      BY <1>1, <2>5 DEF Inv, Complete
    <3>2. i > 1
      BY <1>1, <3>1
    <3>3. QED
      BY <1>5, <3>1, <3>2
  <2>6. QED
    BY <1>6, <2>3, <2>4, <2>5
<1>15. Begun'
  BY <1>1, <1>4, <1>5, <1>6, <1>8 DEF Inv, Begun
<1>16. QED
  BY <1>10, <1>11, <1>12, <1>13, <1>14, <1>15 DEF Inv

(* A step of the innermost call, which has searched and finds no less.     *)
LEMMA TopKeeps ==
    ASSUME Inv, NEW phase, Expanding(phase), phase # "search",
           NEW f \in Frame, stack' = <<f>> \o Tail(stack),
           UNCHANGED <<query, resolved, value, outcome>>,
           f.dn = Top.dn, f.phase # "search",
           Range(f.members) \subseteq Range(directory.members[f.dn]),
           Range(f.todo) \subseteq Range(directory.mails[f.dn]),
           Range(f.mails) \subseteq Expansion,
           Range(Top.mails) \subseteq Range(f.mails),
           f.phase = "members" =>
               \A m \in Range(directory.members[f.dn]) : m \in Resolved \cup Range(f.members),
           f.phase = "mails" =>
               /\ Range(directory.members[f.dn]) \subseteq Resolved
               /\ \A m \in Range(directory.mails[f.dn]) :
                     NameOf(m) \in Range(f.mails) \/ m \in Range(f.todo)
    PROVE  Inv'
<1>1. /\ stack \in Seq(Frame) /\ stack # <<>> /\ Len(stack) \in Nat \ {0}
      /\ DOMAIN stack = 1 .. Len(stack)
      /\ Top = stack[1] /\ Top.phase = phase
      /\ outcome = "expand"
  BY Innermost
<1>2. /\ stack' \in Seq(Frame) /\ Len(stack') = Len(stack) /\ stack'[1] = f /\ stack' # <<>>
      /\ \A i \in 2 .. Len(stack) : stack'[i] = stack[i]
      /\ DOMAIN stack' = 1 .. Len(stack)
  BY <1>1, TopChanged, LenProperties
<1>3. /\ Reachable' = Reachable /\ Expansion' = Expansion
      /\ directory' = directory /\ group' = group /\ asked' = asked
      /\ outcome' = outcome /\ value' = value /\ resolved' = resolved
      /\ Resolved' = Resolved
      /\ \A m : NameOf(m)' = NameOf(m)
  BY Fixed DEF query, Resolved
<1>4. \A i \in 1 .. Len(stack) :
        stack'[i].dn = stack[i].dn /\ (stack[i].phase # "search" => stack'[i].phase # "search")
        /\ Range(stack[i].mails) \subseteq Range(stack'[i].mails)
  BY <1>1, <1>2
<1>5. TypeOK' /\ Once' /\ (Resolved \subseteq directory.present)'
  <2>1. TypeOK /\ Once /\ Resolved \subseteq directory.present
    BY DEF Inv
  <2>2. TypeOK'
    BY <1>2, <1>3, <2>1 DEF TypeOK
  <2>3. Once'
    BY <1>2, <1>3, <2>1 DEF Once
  <2>4. QED
    BY <1>3, <2>1, <2>2, <2>3
<1>6. Calls'
  <2>1. SUFFICES ASSUME NEW i \in 1 .. Len(stack)
                 PROVE  Sound(i)' /\ Noted(i)' /\ Thorough(i)'
    BY <1>2 DEF Calls
  <2>2. Sound(i) /\ Noted(i) /\ Thorough(i)
    BY <1>1 DEF Inv, Calls
  <2>3. CASE i = 1
    <3>1. Sound(i)'
      BY <1>1, <1>2, <1>3, <2>2, <2>3 DEF Sound
    <3>2. Noted(i)'
      BY <1>1, <1>2, <1>3, <2>2, <2>3 DEF Noted
    <3>3. Thorough(i)'
      BY <1>1, <1>2, <1>3, <2>3 DEF Thorough
    <3>4. QED
      BY <3>1, <3>2, <3>3
  <2>4. CASE i > 1
    <3>1. stack'[i] = stack[i] /\ stack'[i - 1].dn = stack[i - 1].dn
      BY <1>1, <1>2, <1>4, <2>4
    <3>2. Sound(i)'
      BY <1>3, <2>2, <3>1 DEF Sound
    <3>3. Noted(i)'
      BY <1>1, <1>2, <1>3, <2>2, <3>1 DEF Noted
    <3>4. Thorough(i)'
      BY <1>3, <2>2, <2>4, <3>1 DEF Thorough
    <3>5. QED
      BY <3>2, <3>3, <3>4
  <2>5. QED
    BY <2>3, <2>4
<1>7. Complete'
  <2>1. Collected \subseteq Collected'
    <3>1. Collected = UNION {Range(stack[i].mails) : i \in 1 .. Len(stack)}
      BY <1>1 DEF Collected
    <3>2. Collected' = UNION {Range(stack'[i].mails) : i \in 1 .. Len(stack)}
      BY <1>1, <1>2, <1>3 DEF Collected
    <3>3. QED
      BY <1>4, <3>1, <3>2
  <2>2. ASSUME NEW dn, Done(dn)
        PROVE  Done(dn)'
    BY <1>3, <2>1, <2>2 DEF Done
  <2>3. SUFFICES ASSUME NEW dn \in Resolved
                 PROVE  \/ Done(dn)'
                        \/ \E i \in 1 .. Len(stack) :
                              stack'[i].dn = dn /\ stack'[i].phase # "search"
    BY <1>2, <1>3 DEF Complete
  <2>4. CASE Done(dn)
    BY <2>2, <2>4
  <2>5. CASE ~Done(dn)
    <3>1. PICK i \in 1 .. Len(stack) : stack[i].dn = dn /\ stack[i].phase # "search"
      BY <1>1, <2>5 DEF Inv, Complete
    <3>2. QED
      BY <1>4, <3>1
  <2>6. QED
    BY <2>4, <2>5
<1>8. Begun'
  BY <1>1, <1>2, <1>3 DEF Inv, Begun
<1>9. QED
  BY <1>5, <1>6, <1>7, <1>8 DEF Inv

(* The members of an entry are done: the addresses follow, or the caller   *)
(* goes on.                                                                *)
LEMMA MembersDoneKeeps ==
    ASSUME Inv, MembersDone
    PROVE  Inv'
<1> DEFINE f == [Top EXCEPT !.phase = "mails", !.todo = directory.mails[Top.dn]]
<1>1. /\ Top = stack[1] /\ Top \in Frame /\ Top.phase = "members" /\ Top.members = <<>>
      /\ 1 \in DOMAIN stack
  BY Innermost DEF MembersDone
<1>2. TypeOK
  BY DEF Inv
<1>3. directory.mails[Top.dn] \in Seq(Address)
  BY <1>1, <1>2, DirectoryFacts DEF Frame
<1>4. /\ f \in Frame /\ f.dn = Top.dn /\ f.phase = "mails" /\ f.members = <<>>
      /\ f.todo = directory.mails[Top.dn] /\ f.mails = Top.mails
  BY <1>1, <1>3 DEF Frame
<1> HIDE DEF f
<1>5. stack' = <<f>> \o Tail(stack)
  BY DEF MembersDone, SetTop, f
<1>6. Sound(1) /\ Thorough(1)
  BY <1>1 DEF Inv, Calls
<1>7. Range(directory.members[f.dn]) \subseteq Resolved
  BY <1>1, <1>4, <1>6, RangeOfEmpty DEF Thorough
<1>8. Range(f.members) = {}
  BY <1>4, RangeOfEmpty
<1>9. Range(f.mails) \subseteq Expansion
  BY <1>1, <1>4, <1>6 DEF Sound
<1>10. UNCHANGED <<query, resolved, value, outcome>> /\ Expanding("members")
  BY DEF MembersDone
<1>11. QED
  BY <1>4, <1>5, <1>7, <1>8, <1>9, <1>10, TopKeeps

(* An address of an entry stands for its user or for itself.               *)
LEMMA MailKeeps ==
    ASSUME Inv, Mail
    PROVE  Inv'
<1> DEFINE mail == Head(Top.todo)
           list == IF Contains(Top.mails, mail) THEN Top.mails
                   ELSE Append(Top.mails, NameOf(mail))
           f == [Top EXCEPT !.todo = Tail(@), !.mails = list]
<1>1. /\ Top = stack[1] /\ Top \in Frame /\ Top.phase = "mails" /\ Top.todo # <<>>
      /\ 1 \in DOMAIN stack
  BY Innermost DEF Mail
<1>2. TypeOK
  BY DEF Inv
<1>3. Sound(1) /\ Thorough(1)
  BY <1>1 DEF Inv, Calls
<1>4. /\ Top.todo \in Seq(Address) /\ Tail(Top.todo) \in Seq(Address)
      /\ Range(Top.todo) = {mail} \cup Range(Tail(Top.todo))
      /\ Top.mails \in Seq(Address)
  BY <1>1, RangeOfTail, HeadTailProperties DEF Frame
<1>5. mail \in Range(directory.mails[Top.dn]) /\ Top.dn \in Reachable
  BY <1>1, <1>3, <1>4 DEF Sound
<1>6. mail \in Address /\ NameOf(mail) \in Address /\ NameOf(mail) \in Expansion
  BY <1>2, <1>5, MailsExpand, DirectoryFacts
<1> HIDE DEF mail
<1>7. list \in Seq(Address) /\ Range(list) = Range(Top.mails) \cup {NameOf(mail)}
  <2>1. CASE Contains(Top.mails, mail)
    <3>1. mail \in Range(Top.mails)
      BY <1>4, <2>1, ContainsIsIn
    <3>2. mail \in Expansion
      BY <1>1, <1>3, <3>1 DEF Sound
    <3>3. NameOf(mail) = mail
      BY <1>2, <3>2, OwnName
    <3>4. QED
      BY <1>4, <2>1, <3>1, <3>3
  <2>2. CASE ~Contains(Top.mails, mail)
    BY <1>4, <1>6, <2>2, RangeOfAppend, AppendProperties
  <2>3. QED
    BY <2>1, <2>2
<1>8. stack' = <<f>> \o Tail(stack)
  BY DEF Mail, SetTop, NameOf, mail
<1> HIDE DEF list
<1>9. /\ f \in Frame /\ f.dn = Top.dn /\ f.phase = "mails" /\ f.members = Top.members
      /\ f.todo = Tail(Top.todo) /\ f.mails = list
  BY <1>1, <1>4, <1>7 DEF Frame
<1> HIDE DEF f
<1>10. /\ Range(f.members) \subseteq Range(directory.members[f.dn])
       /\ Range(f.todo) \subseteq Range(directory.mails[f.dn])
       /\ Range(f.mails) \subseteq Expansion
       /\ Range(Top.mails) \subseteq Range(f.mails)
  BY <1>1, <1>3, <1>4, <1>6, <1>7, <1>9 DEF Sound
<1>11. /\ Range(directory.members[f.dn]) \subseteq Resolved
       /\ \A m \in Range(directory.mails[f.dn]) :
             NameOf(m) \in Range(f.mails) \/ m \in Range(f.todo)
  BY <1>1, <1>3, <1>4, <1>7, <1>9 DEF Thorough
<1>12. UNCHANGED <<query, resolved, value, outcome>> /\ Expanding("mails")
  BY DEF Mail
<1>13. QED
  BY <1>8, <1>9, <1>10, <1>11, <1>12, TopKeeps

(* A member that was not searched yet is called for.                       *)
LEMMA MemberKeeps ==
    ASSUME Inv, Member
    PROVE  Inv'
<1> DEFINE f == [Top EXCEPT !.members = Tail(@)]
           g == Call(Head(Top.members))
<1>1. /\ stack \in Seq(Frame) /\ stack # <<>> /\ Len(stack) \in Nat \ {0}
      /\ DOMAIN stack = 1 .. Len(stack)
      /\ Top = stack[1] /\ Top \in Frame /\ Top.phase = "members"
      /\ outcome = "expand"
      /\ resolved \in Seq(Dn) /\ Len(resolved) \in Nat /\ DOMAIN resolved = 1 .. Len(resolved)
  BY Innermost DEF Member
<1>2. TypeOK /\ UNCHANGED query /\ Top.members # <<>>
  BY DEF Inv, Member
<1>3. /\ Top.members \in Seq(Dn) /\ Tail(Top.members) \in Seq(Dn)
      /\ Range(Top.members) = {Head(Top.members)} \cup Range(Tail(Top.members))
  BY <1>1, <1>2, RangeOfTail, HeadTailProperties DEF Frame
<1>4. Sound(1) /\ Noted(1) /\ Thorough(1)
  BY <1>1 DEF Inv, Calls
<1>5. Head(Top.members) \in Reachable /\ Head(Top.members) \in Dn
  BY <1>1, <1>2, <1>3, <1>4, ReachableClosed DEF Sound
<1>6. /\ f \in Frame /\ f.dn = Top.dn /\ f.phase = "members" /\ f.members = Tail(Top.members)
      /\ f.todo = Top.todo /\ f.mails = Top.mails
  BY <1>1, <1>3 DEF Frame
<1>7. /\ g \in Frame /\ g.dn = Head(Top.members) /\ g.phase = "search"
      /\ g.members = <<>> /\ g.todo = <<>> /\ g.mails = <<>>
  BY <1>5 DEF Frame, Call
<1>8. stack' = <<g, f>> \o Tail(stack)
  BY DEF Member
<1> HIDE DEF f, g
<1>9. /\ stack' \in Seq(Frame) /\ Len(stack') = Len(stack) + 1
      /\ stack'[1] = g /\ stack'[2] = f /\ stack' # <<>>
      /\ \A i \in 3 .. Len(stack) + 1 : stack'[i] = stack[i - 1]
      /\ DOMAIN stack' = 1 .. Len(stack) + 1
  BY <1>1, <1>6, <1>7, <1>8, Pushed, LenProperties
<1>10. /\ Reachable' = Reachable /\ Expansion' = Expansion
       /\ directory' = directory /\ group' = group /\ asked' = asked
       /\ outcome' = outcome /\ value' = value /\ resolved' = resolved
       /\ Resolved' = Resolved
       /\ \A m : NameOf(m)' = NameOf(m)
  BY <1>2, Fixed DEF query, Resolved, Member
<1>11. PICK p \in 1 .. Len(resolved) : resolved[p] = Top.dn /\ p >= Len(stack)
  BY <1>1, <1>4 DEF Noted
<1>12. \A i \in 2 .. Len(stack) + 1 :
          /\ stack'[i].dn = stack[i - 1].dn /\ stack'[i].phase = stack[i - 1].phase
          /\ stack'[i].mails = stack[i - 1].mails
  BY <1>1, <1>6, <1>9
<1>13. TypeOK' /\ Once' /\ (Resolved \subseteq directory.present)'
  <2>1. Once /\ Resolved \subseteq directory.present
    BY DEF Inv
  <2>2. TypeOK'
    BY <1>2, <1>9, <1>10 DEF TypeOK
  <2>3. Len(stack') <= Len(resolved') + 1
    BY <1>1, <1>9, <1>10, <1>11
  <2>4. Once'
    BY <1>10, <2>1, <2>3 DEF Once
  <2>5. QED
    BY <1>10, <2>1, <2>2, <2>4
<1>14. Calls'
  <2>1. SUFFICES ASSUME NEW i \in 1 .. Len(stack) + 1
                 PROVE  Sound(i)' /\ Noted(i)' /\ Thorough(i)'
    BY <1>9 DEF Calls
  <2>2. CASE i = 1
    BY <1>5, <1>7, <1>9, <1>10, <2>2, RangeOfEmpty DEF Sound, Noted, Thorough
  <2>3. CASE i = 2
    <3>1. Sound(2)'
      BY <1>1, <1>3, <1>4, <1>6, <1>9, <1>10 DEF Sound
    <3>2. Noted(2)'
      BY <1>1, <1>6, <1>9, <1>10, <1>11 DEF Noted
    <3>3. Thorough(2)'
      BY <1>1, <1>3, <1>4, <1>6, <1>7, <1>9, <1>10 DEF Thorough
    <3>4. QED
      BY <2>3, <3>1, <3>2, <3>3
  <2>4. CASE i > 2
    <3>1. i - 1 \in 2 .. Len(stack) /\ stack'[i] = stack[i - 1]
          /\ stack'[i - 1].dn = stack[i - 2].dn
      BY <1>1, <1>9, <1>12, <2>4
    <3>2. Sound(i - 1) /\ Noted(i - 1) /\ Thorough(i - 1)
      BY <1>1, <3>1 DEF Inv, Calls
    <3>3. Sound(i)'
      BY <1>10, <3>1, <3>2 DEF Sound
    <3>4. Noted(i)'
      <4>1. Len(stack') - i + 1 = Len(stack) - (i - 1) + 1
        BY <1>1, <1>9
      <4>2. QED
        BY <1>10, <2>4, <3>1, <3>2, <4>1 DEF Noted
    <3>5. Thorough(i)'
      <4>1. i - 1 - 1 = i - 2
        OBVIOUS
      <4>2. QED
        BY <1>10, <2>4, <3>1, <3>2, <4>1 DEF Thorough, Noted
    <3>6. QED
      BY <3>3, <3>4, <3>5
  <2>5. QED
    BY <2>2, <2>3, <2>4
<1>15. Complete'
  <2>1. ASSUME NEW i \in 1 .. Len(stack)
        PROVE  /\ i + 1 \in 1 .. Len(stack) + 1
               /\ stack'[i + 1].dn = stack[i].dn /\ stack'[i + 1].phase = stack[i].phase
               /\ stack'[i + 1].mails = stack[i].mails
    BY <1>1, <1>12
  <2>2. Collected \subseteq Collected'
    <3>1. Collected = UNION {Range(stack[i].mails) : i \in 1 .. Len(stack)}
      BY <1>1 DEF Collected
    <3>2. Collected' = UNION {Range(stack'[i].mails) : i \in 1 .. Len(stack) + 1}
      BY <1>1, <1>9, <1>10 DEF Collected
    <3>3. QED
      BY <2>1, <3>1, <3>2
  <2>3. ASSUME NEW dn, Done(dn)
        PROVE  Done(dn)'
    BY <1>10, <2>2, <2>3 DEF Done
  <2>4. SUFFICES ASSUME NEW dn \in Resolved
                 PROVE  \/ Done(dn)'
                        \/ \E i \in 1 .. Len(stack) + 1 :
                              stack'[i].dn = dn /\ stack'[i].phase # "search"
    BY <1>9, <1>10 DEF Complete
  <2>5. CASE Done(dn)
    BY <2>3, <2>5
  <2>6. CASE ~Done(dn)
    <3>1. PICK i \in 1 .. Len(stack) : stack[i].dn = dn /\ stack[i].phase # "search"
      BY <1>1, <2>6 DEF Inv, Complete
    <3>2. QED
      BY <2>1, <3>1
  <2>7. QED
    BY <2>5, <2>6
<1>16. Begun'
  <2>1. Begun /\ resolved # <<>>
    BY <1>1, <1>11, EmptySeq DEF Inv
  <2>2. QED
    BY <1>1, <1>9, <1>10, <2>1 DEF Begun
<1>17. QED
  BY <1>13, <1>14, <1>15, <1>16 DEF Inv

(* A call returns to its caller.                                           *)
LEMMA ReturnKeeps ==
    ASSUME Inv, NEW phase, Expanding(phase), Len(stack) > 1,
           NEW list \in Seq(Address), ReturnMails(list), UNCHANGED <<query, resolved>>,
           Range(list) \subseteq Expansion, Range(Top.mails) \subseteq Range(list),
           Top.dn \in Resolved,
           phase = "search" \/ Done(Top.dn)
    PROVE  Inv'
<1> DEFINE f == [stack[2] EXCEPT !.mails = @ \o list]
<1>1. /\ stack \in Seq(Frame) /\ stack # <<>> /\ Len(stack) \in Nat \ {0, 1}
      /\ DOMAIN stack = 1 .. Len(stack)
      /\ stack[2] \in Frame
      /\ Top = stack[1] /\ Top \in Frame /\ Top.phase = phase
      /\ outcome = "expand"
      /\ resolved \in Seq(Dn) /\ Len(resolved) \in Nat /\ DOMAIN resolved = 1 .. Len(resolved)
  BY Innermost
<1>2. Sound(2) /\ Noted(2) /\ Thorough(2)
  BY <1>1 DEF Inv, Calls
<1>3. stack[2].mails \o list \in Seq(Address)
      /\ Range(stack[2].mails \o list) = Range(stack[2].mails) \cup Range(list)
  BY <1>1, ConcatProperties, RangeConcatenation DEF Frame
<1>4. /\ f \in Frame /\ f.dn = stack[2].dn /\ f.phase = stack[2].phase /\ f.phase = "members"
      /\ f.members = stack[2].members /\ f.todo = stack[2].todo
      /\ f.mails = stack[2].mails \o list
  <2>1. stack[2].phase = "members"
    BY <1>2 DEF Noted
  <2>2. QED
    BY <1>1, <1>3, <2>1 DEF Frame
<1>5. stack' = <<f>> \o Tail(Tail(stack)) /\ value' = list /\ outcome' = outcome
  BY <1>1 DEF ReturnMails
<1> HIDE DEF f
<1>6. /\ stack' \in Seq(Frame) /\ Len(stack') = Len(stack) - 1
      /\ stack'[1] = f /\ stack' # <<>>
      /\ \A i \in 2 .. Len(stack) - 1 : stack'[i] = stack[i + 1]
      /\ DOMAIN stack' = 1 .. Len(stack) - 1
  <2>1. LET t == <<f>> \o Tail(Tail(stack))
        IN  /\ t \in Seq(Frame) /\ Len(t) = Len(stack) - 1 /\ t[1] = f /\ t # <<>>
            /\ \A i \in 2 .. Len(stack) - 1 : t[i] = stack[i + 1]
    BY <1>1, <1>4, Popped
  <2>2. QED
    BY <1>5, <2>1, LenProperties
<1>7. /\ Reachable' = Reachable /\ Expansion' = Expansion
      /\ directory' = directory /\ group' = group /\ asked' = asked
      /\ resolved' = resolved /\ Resolved' = Resolved
      /\ \A m : NameOf(m)' = NameOf(m)
  BY Fixed DEF query, Resolved
<1>8. \A i \in 1 .. Len(stack) - 1 :
        /\ stack'[i].dn = stack[i + 1].dn /\ stack'[i].phase = stack[i + 1].phase
        /\ Range(stack[i + 1].mails) \subseteq Range(stack'[i].mails)
  <2>1. SUFFICES ASSUME NEW i \in 1 .. Len(stack) - 1
                 PROVE  /\ stack'[i].dn = stack[i + 1].dn
                        /\ stack'[i].phase = stack[i + 1].phase
                        /\ Range(stack[i + 1].mails) \subseteq Range(stack'[i].mails)
    OBVIOUS
  <2>2. CASE i = 1
    <3>1. Range(stack[2].mails) \subseteq Range(f.mails)
      BY <1>3, <1>4
    <3>2. stack'[i] = f /\ stack[i + 1] = stack[2]
      BY <1>6, <2>2
    <3>3. QED
      BY <1>4, <3>1, <3>2
  <2>3. CASE i # 1
    <3>1. i \in 2 .. Len(stack) - 1
      BY <1>1, <2>3
    <3>2. QED
      BY <1>6, <3>1
  <2>4. QED
    BY <2>2, <2>3
<1>9. TypeOK' /\ Once' /\ (Resolved \subseteq directory.present)'
  <2>1. TypeOK /\ Once /\ Resolved \subseteq directory.present
    BY DEF Inv
  <2>2. TypeOK'
    BY <1>5, <1>6, <1>7, <2>1 DEF TypeOK
  <2>3. Len(stack') <= Len(resolved') + 1
    BY <1>1, <1>6, <1>7, <2>1 DEF Once
  <2>4. Once'
    BY <1>7, <2>1, <2>3 DEF Once
  <2>5. QED
    BY <1>7, <2>1, <2>2, <2>4
<1>10. Calls'
  <2>1. SUFFICES ASSUME NEW i \in 1 .. Len(stack) - 1
                 PROVE  Sound(i)' /\ Noted(i)' /\ Thorough(i)'
    BY <1>6 DEF Calls
  <2>2. i + 1 \in 2 .. Len(stack) /\ i + 1 - 1 = i
        /\ Len(stack') - i + 1 = Len(stack) - (i + 1) + 1
    BY <1>1, <1>6
  <2>3. Sound(i + 1) /\ Noted(i + 1) /\ Thorough(i + 1)
    BY <1>1, <2>2 DEF Inv, Calls
  <2>4. CASE i = 1
    <3>1. Sound(1)'
      BY <1>2, <1>3, <1>4, <1>6, <1>7 DEF Sound
    <3>2. Noted(1)'
      BY <1>2, <1>4, <1>6, <1>7, <2>2, <2>4 DEF Noted
    <3>3. \A m \in Range(directory.members[f.dn]) : m \in Resolved \cup Range(f.members)
      BY <1>1, <1>2, <1>4 DEF Thorough
    <3>4. Thorough(1)'
      BY <1>4, <1>6, <1>7, <3>3 DEF Thorough
    <3>5. QED
      BY <2>4, <3>1, <3>2, <3>4
  <2>5. CASE i > 1
    <3>1. stack'[i] = stack[i + 1] /\ stack'[i - 1].dn = stack[i].dn
      <4>1. i \in 2 .. Len(stack) - 1 /\ i - 1 \in 1 .. Len(stack) - 1 /\ i - 1 + 1 = i
        BY <1>1, <2>5
      <4>2. QED
        BY <1>6, <1>8, <4>1
    <3>2. Sound(i)'
      BY <1>7, <2>3, <3>1 DEF Sound
    <3>3. stack[i + 1].phase = "members"
      BY <1>1, <2>2, <2>3 DEF Noted
    <3>4. Noted(i)'
      <4>1. PICK p \in DOMAIN resolved :
                resolved[p] = stack[i + 1].dn /\ p >= Len(stack) - (i + 1) + 1
        BY <2>3, <3>3 DEF Noted
      <4>2. QED
        BY <1>7, <2>2, <3>1, <3>3, <4>1 DEF Noted
    <3>5. Thorough(i)'
      <4>1. \A m \in Range(directory.members[stack[i + 1].dn]) :
               m \in Resolved \cup Range(stack[i + 1].members) \/ m = stack[i].dn
        BY <2>2, <2>3, <3>3 DEF Thorough
      <4>2. QED
        BY <1>7, <2>5, <3>1, <3>3, <4>1 DEF Thorough
    <3>6. QED
      BY <3>2, <3>4, <3>5
  <2>6. QED
    BY <2>4, <2>5
<1>11. Complete'
  <2>1. ASSUME NEW i \in 2 .. Len(stack)
        PROVE  /\ i - 1 \in 1 .. Len(stack) - 1
               /\ stack'[i - 1].dn = stack[i].dn /\ stack'[i - 1].phase = stack[i].phase
               /\ Range(stack[i].mails) \subseteq Range(stack'[i - 1].mails)
    <3>1. i - 1 \in 1 .. Len(stack) - 1 /\ i - 1 + 1 = i
      BY <1>1
    <3>2. QED
      BY <1>8, <3>1
  <2>2. Collected \subseteq Collected'
    <3>1. Collected = UNION {Range(stack[i].mails) : i \in 1 .. Len(stack)}
      BY <1>1 DEF Collected
    <3>2. Collected' = UNION {Range(stack'[i].mails) : i \in 1 .. Len(stack) - 1}
      BY <1>1, <1>5, <1>6 DEF Collected
    <3>3. \A i \in 2 .. Len(stack) : Range(stack[i].mails) \subseteq Collected'
      BY <2>1, <3>2
    <3>4. Range(stack[1].mails) \subseteq Range(stack'[1].mails) /\ 1 \in 1 .. Len(stack) - 1
      <4>1. Range(Top.mails) \subseteq Range(f.mails)
        BY <1>3, <1>4
      <4>2. QED
        BY <1>1, <1>6, <4>1
    <3>5. \A i \in 1 .. Len(stack) : i = 1 \/ i \in 2 .. Len(stack)
      BY <1>1
    <3>6. \A i \in 1 .. Len(stack) : Range(stack[i].mails) \subseteq Collected'
      BY <3>2, <3>4, <3>5, <3>3
    <3>7. QED
      BY <3>1, <3>6
  <2>3. ASSUME NEW dn, Done(dn)
        PROVE  Done(dn)'
    BY <1>7, <2>2, <2>3 DEF Done
  <2>4. SUFFICES ASSUME NEW dn \in Resolved
                 PROVE  \/ Done(dn)'
                        \/ \E i \in 1 .. Len(stack) - 1 :
                              stack'[i].dn = dn /\ stack'[i].phase # "search"
    BY <1>6, <1>7 DEF Complete
  <2>5. CASE Done(dn)
    BY <2>3, <2>5
  <2>6. CASE ~Done(dn)
    <3>1. PICK i \in 1 .. Len(stack) : stack[i].dn = dn /\ stack[i].phase # "search"
      BY <1>1, <2>6 DEF Inv, Complete
    <3>2. i \in 2 .. Len(stack)
      BY <1>1, <2>6, <3>1
    <3>3. QED
      BY <2>1, <3>1, <3>2
  <2>7. QED
    BY <2>5, <2>6
<1>12. Begun'
  BY <1>1, <1>4, <1>5, <1>6, <1>7 DEF Inv, Begun
<1>13. QED
  BY <1>9, <1>10, <1>11, <1>12 DEF Inv

(* A member that was searched before is passed over.                       *)
LEMMA AlreadyResolvedKeeps ==
    ASSUME Inv, AlreadyResolved
    PROVE  Inv'
<1>1. /\ stack # <<>> /\ Len(stack) \in Nat \ {0} /\ DOMAIN stack = 1 .. Len(stack)
      /\ Top = stack[1] /\ Top.phase = "search" /\ outcome = "expand"
      /\ resolved \in Seq(Dn)
  BY Innermost DEF AlreadyResolved
<1>2. Top.dn \in Resolved
  BY <1>1, ContainsIsIn DEF AlreadyResolved, Resolved
<1>3. Sound(1)
  BY <1>1 DEF Inv, Calls
<1>4. Range(Top.mails) = {} /\ Range(<<>>) = {} /\ <<>> \in Seq(Address)
  BY <1>1, <1>3, RangeOfEmpty, EmptySeq DEF Sound
<1>5. Len(stack) > 1
  <2>1. CASE Len(stack) = 1
    BY <1>1, <1>2, <2>1, RangeOfEmpty DEF Inv, Begun, Resolved
  <2>2. QED
    BY <1>1, <2>1
<1>6. Expanding("search") /\ ReturnMails(<<>>) /\ UNCHANGED <<query, resolved>>
  BY DEF AlreadyResolved
<1>7. QED
  BY <1>2, <1>4, <1>5, <1>6, ReturnKeeps

(* An entry is done and its caller goes on with the next member.           *)
LEMMA MailsDoneKeeps ==
    ASSUME Inv, MailsDone
    PROVE  Inv'
<1>1. /\ stack \in Seq(Frame) /\ stack # <<>> /\ Len(stack) \in Nat \ {0}
      /\ DOMAIN stack = 1 .. Len(stack)
      /\ Top = stack[1] /\ Top \in Frame /\ Top.phase = "mails" /\ Top.todo = <<>>
      /\ outcome = "expand"
  BY Innermost DEF MailsDone
<1>2. Sound(1) /\ Noted(1) /\ Thorough(1)
  BY <1>1 DEF Inv, Calls
<1>3. Top.mails \in Seq(Address) /\ Range(Top.mails) \subseteq Expansion
      /\ Range(Top.mails) \subseteq Collected
  <2>1. Collected = UNION {Range(stack[i].mails) : i \in DOMAIN stack}
    BY <1>1 DEF Collected
  <2>2. Top.mails \in Seq(Address) /\ Range(Top.mails) \subseteq Expansion
    BY <1>1, <1>2 DEF Frame, Sound
  <2>3. Range(Top.mails) \subseteq Collected
    BY <1>1, <2>1
  <2>4. QED
    BY <2>2, <2>3
<1>4. Top.dn \in Resolved
  BY <1>1, <1>2 DEF Noted, Resolved, Range
<1>5. Done(Top.dn)
  BY <1>1, <1>2, <1>3, RangeOfEmpty DEF Thorough, Done
<1>6. Expanding("mails") /\ ReturnMails(Top.mails) /\ UNCHANGED <<query, resolved>>
  BY DEF MailsDone
<1>7. CASE Len(stack) > 1
  BY <1>3, <1>4, <1>5, <1>6, <1>7, ReturnKeeps
<1>8. CASE Len(stack) = 1
  <2>1. stack' = <<>> /\ value' = Top.mails /\ outcome' = "returned"
    BY <1>6, <1>8 DEF ReturnMails
  <2>2. /\ Reachable' = Reachable /\ Expansion' = Expansion
        /\ directory' = directory /\ group' = group /\ asked' = asked
        /\ resolved' = resolved /\ Resolved' = Resolved
        /\ \A m : NameOf(m)' = NameOf(m)
    BY <1>6, Fixed DEF query, Resolved
  <2>3. stack' \in Seq(Frame) /\ Len(stack') = 0 /\ DOMAIN stack' = {}
    BY <2>1, EmptySeq
  <2>4. TypeOK' /\ Once' /\ (Resolved \subseteq directory.present)'
    <3>1. TypeOK /\ Once /\ Resolved \subseteq directory.present /\ Len(resolved) \in Nat
      BY <1>6, Innermost DEF Inv
    <3>2. TypeOK'
      BY <1>3, <2>1, <2>2, <2>3, <3>1 DEF TypeOK
    <3>3. Once'
      BY <2>2, <2>3, <3>1 DEF Once
    <3>4. QED
      BY <2>2, <3>1, <3>2, <3>3
  <2>5. Calls'
    BY <2>3 DEF Calls
  <2>6. Complete'
    <3>1. Collected' = Range(Top.mails)
      BY <2>1 DEF Collected
    <3>2. Collected = UNION {Range(stack[i].mails) : i \in 1 .. 1}
      BY <1>1, <1>8 DEF Collected
    <3>3. Collected = Collected'
      BY <1>1, <3>1, <3>2
    <3>4. ASSUME NEW dn, Done(dn)
          PROVE  Done(dn)'
      BY <2>2, <3>3, <3>4 DEF Done
    <3>5. \A dn \in Resolved : Done(dn)
      BY <1>1, <1>5, <1>8 DEF Inv, Complete
    <3>6. QED
      BY <2>2, <3>4, <3>5 DEF Complete
  <2>7. Begun'
    BY <1>1, <1>3, <1>4, <1>8, <2>1, <2>2 DEF Inv, Begun
  <2>8. QED
    BY <2>4, <2>5, <2>6, <2>7 DEF Inv
<1>9. QED
  BY <1>1, <1>7, <1>8

(* An error of the connection ends the query.                              *)
LEMMA RaisesKeeps ==
    ASSUME Inv, Raises
    PROVE  Inv'
<1>1. /\ outcome' = "raised" /\ stack' = <<>>
      /\ directory' = directory /\ group' = group /\ asked' = asked
      /\ resolved' = resolved /\ value' = value /\ Resolved' = Resolved
      /\ Reachable' = Reachable
  BY Fixed DEF Raises, query, Resolved
<1>2. stack' \in Seq(Frame) /\ Len(stack') = 0 /\ DOMAIN stack' = {}
  BY <1>1, EmptySeq
<1>3. TypeOK /\ Once /\ Resolved \subseteq directory.present /\ Len(resolved) \in Nat
  BY LenProperties DEF Inv, TypeOK
<1>4. TypeOK'
  BY <1>1, <1>2, <1>3 DEF TypeOK
<1>5. Once'
  BY <1>1, <1>2, <1>3 DEF Once
<1>6. Calls' /\ Complete' /\ Begun'
  BY <1>1, <1>2 DEF Calls, Complete, Begun
<1>7. QED
  BY <1>1, <1>3, <1>4, <1>5, <1>6 DEF Inv

(* A user is returned, or a list is searched for.                          *)
LEMMA LookupUserKeeps ==
    ASSUME Inv, LookupUser
    PROVE  Inv'
<1>1. /\ stack = <<>> /\ resolved = <<>> /\ TypeOK
  BY DEF Inv, Begun, LookupUser
<1>2. /\ directory' = directory /\ group' = group /\ asked' = asked
      /\ resolved' = resolved /\ stack' = stack
  BY DEF LookupUser, query
<1>3. directory.user[asked] # None => <<directory.user[asked]>> \in Seq(Address)
  BY <1>1, DirectoryAssumption DEF TypeOK
<1>4. TypeOK'
  BY <1>1, <1>2, <1>3 DEF TypeOK, LookupUser
<1>5. Resolved' = {} /\ DOMAIN stack' = {} /\ Resolved = {}
  BY <1>1, <1>2, RangeOfEmpty DEF Resolved
<1>6. Once' /\ (Resolved \subseteq directory.present)'
  BY <1>2, <1>5, Fixed DEF Inv, Once, LookupUser, Resolved
<1>7. Calls' /\ Complete'
  BY <1>5 DEF Calls, Complete
<1>8. Begun'
  BY <1>1, <1>2 DEF Begun, LookupUser
<1>9. QED
  BY <1>4, <1>5, <1>6, <1>7, <1>8 DEF Inv

(* The first call is for the list itself.                                  *)
LEMMA SearchGroupKeeps ==
    ASSUME Inv, SearchGroup
    PROVE  Inv'
<1>1. stack = <<>> /\ resolved = <<>> /\ TypeOK
  BY DEF Inv, Begun, SearchGroup
<1>2. /\ directory' = directory /\ group' = group /\ asked' = asked
      /\ resolved' = resolved /\ value' = value /\ Resolved' = Resolved
      /\ Reachable' = Reachable /\ Expansion' = Expansion
      /\ \A m : NameOf(m)' = NameOf(m)
  BY Fixed DEF SearchGroup, query, Resolved
<1>3. Resolved = {} /\ Len(resolved) = 0
  BY <1>1, RangeOfEmpty DEF Resolved
<1>4. Once /\ Resolved \subseteq directory.present
  BY DEF Inv
<1>5. CASE group \in directory.present
  <2>1. outcome' = "expand" /\ stack' = <<Call(group)>>
    BY <1>5 DEF SearchGroup
  <2>2. group \in Dn /\ group \in Reachable
    BY <1>1, <1>5, DirectoryFacts, ReachableClosed
  <2>3. /\ Call(group) \in Frame /\ Call(group).dn = group /\ Call(group).phase = "search"
        /\ Call(group).members = <<>> /\ Call(group).todo = <<>> /\ Call(group).mails = <<>>
    BY <2>2 DEF Frame, Call
  <2>4. /\ stack' \in Seq(Frame) /\ Len(stack') = 1 /\ DOMAIN stack' = {1}
        /\ stack'[1] = Call(group) /\ stack' # <<>>
    BY <2>1, <2>3
  <2>5. TypeOK'
    BY <1>1, <1>2, <2>1, <2>4 DEF TypeOK
  <2>6. Once'
    BY <1>2, <1>3, <1>4, <2>4 DEF Once
  <2>7. Calls'
    BY <1>2, <2>2, <2>3, <2>4, RangeOfEmpty DEF Calls, Sound, Noted, Thorough
  <2>8. Complete'
    BY <1>2, <1>3 DEF Complete
  <2>9. Begun'
    <3>1. directory.user[asked] = None
      BY <1>1 DEF Inv, Begun, SearchGroup
    <3>2. QED
      BY <1>1, <1>2, <2>1, <2>3, <2>4, <3>1 DEF Begun
  <2>10. QED
    BY <1>2, <1>4, <2>5, <2>6, <2>7, <2>8, <2>9 DEF Inv
<1>6. CASE group \notin directory.present
  <2>1. outcome' = "nothing" /\ stack' = stack
    BY <1>6 DEF SearchGroup
  <2>2. TypeOK' /\ Once'
    BY <1>1, <1>2, <1>4, <2>1 DEF TypeOK, Once
  <2>3. Calls' /\ Complete' /\ Begun'
    BY <1>1, <1>2, <1>3, <2>1 DEF Calls, Complete, Begun
  <2>4. QED
    BY <1>2, <1>4, <2>2, <2>3 DEF Inv
<1>7. QED
  BY <1>5, <1>6

----------------------------------------------------------------------------
(* The theorems. *)

(* Nothing is searched before the query.                                   *)
LEMMA InitInv ==
    ASSUME Init
    PROVE  Inv
<1>1. /\ directory \in Directories /\ asked \in Address /\ group \in Dn \cup {None}
      /\ stack = <<>> /\ resolved = <<>> /\ value = <<>> /\ outcome = "lookup"
  BY DEF Init
<1>2. TypeOK
  BY <1>1, EmptySeq DEF TypeOK
<1>3. Resolved = {} /\ Len(resolved) = 0 /\ Len(stack) = 0 /\ DOMAIN stack = {}
      /\ DOMAIN resolved = {}
  BY <1>1, RangeOfEmpty DEF Resolved
<1>4. Once
  BY <1>3 DEF Once, IsInjective, Resolved
<1>5. Calls /\ Complete /\ Begun
  BY <1>1, <1>3 DEF Calls, Complete, Begun
<1>6. QED
  BY <1>2, <1>3, <1>4, <1>5 DEF Inv

(* Every step of the query keeps the invariant.                            *)
LEMMA StepInv ==
    ASSUME Inv, [Next]_vars
    PROVE  Inv'
<1>1. CASE UNCHANGED vars
  <2>1. /\ UNCHANGED <<directory, asked, group, stack, resolved, value, outcome>>
    BY <1>1 DEF vars
  <2>2. Resolved' = Resolved /\ Collected' = Collected
    BY <2>1 DEF Resolved, Collected
  <2>3. /\ Reachable' = Reachable /\ Expansion' = Expansion
        /\ \A m : NameOf(m)' = NameOf(m)
    BY <2>1, Fixed DEF query
  <2>4. TypeOK' /\ Once' /\ Begun' /\ (Resolved \subseteq directory.present)'
    BY <2>1, <2>2, <2>3 DEF Inv, TypeOK, Once, Begun
  <2>5. Calls'
    BY <2>1, <2>2, <2>3 DEF Inv, Calls, Sound, Noted, Thorough
  <2>6. Complete'
    BY <2>1, <2>2, <2>3 DEF Inv, Complete, Done
  <2>7. QED
    BY <2>4, <2>5, <2>6 DEF Inv
<1>2. CASE RecursiveSearch
  BY <1>2, AlreadyResolvedKeeps, SearchKeeps, MemberKeeps, MembersDoneKeeps, MailKeeps,
     MailsDoneKeeps DEF RecursiveSearch
<1>3. QED
  BY <1>1, <1>2, LookupUserKeeps, SearchGroupKeeps, RaisesKeeps DEF Next, Ended

(* The invariant of the calls under way and of what they have noted        *)
(* (_recursive_search).                                                    *)
THEOREM Invariant == Spec => []Inv
<1>1. QED
  BY InitInv, StepInv, PTL DEF Spec

(* No entry is searched twice and none that does not belong to the list,   *)
(* however the groups contain each other: resolved keeps _recursive_search *)
(* from running in circles.                                                *)
THEOREM OnceHolds == Spec => []Once
<1>1. Inv => Once
  BY DEF Inv
<1>2. QED
  BY <1>1, Invariant, PTL

(* A list that is returned is complete, though several calls share the     *)
(* notes of what has been searched and every one of them leaves out what   *)
(* another has noted.                                                      *)
THEOREM ExpandedHolds == Spec => []Expanded
<1>1. ASSUME Inv
      PROVE  Expanded
  <2>1. SUFFICES ASSUME outcome = "returned", directory.user[asked] = None
                 PROVE  /\ Reachable \subseteq directory.present
                        /\ Range(value) = Expansion
    BY DEF Expanded
  <2>2. stack = <<>> /\ group \in Resolved /\ Range(value) \subseteq Expansion
    BY <1>1, <2>1 DEF Inv, Begun
  <2>3. TypeOK /\ Resolved \subseteq directory.present
    BY <1>1 DEF Inv
  <2>4. \A dn \in Resolved : Done(dn)
    BY <1>1, <2>1, <2>2 DEF Inv, Complete
  <2>5. Reachable \subseteq Resolved
    <3>1. Resolved \subseteq Dn
      BY <2>3, DirectoryFacts
    <3>2. Closed(Resolved)
      BY <2>2, <2>4 DEF Closed, Done
    <3>3. QED
      BY <3>1, <3>2 DEF Reachable
  <2>6. Collected = Range(value)
    BY <2>1 DEF Collected
  <2>7. Expansion \subseteq Range(value)
    <3>1. SUFFICES ASSUME NEW n \in Expansion
                   PROVE  n \in Range(value)
      OBVIOUS
    <3>2. PICK dn \in Reachable : n \in {NameOf(m) : m \in Range(directory.mails[dn])}
      BY DEF Expansion
    <3>3. QED
      BY <2>4, <2>5, <2>6, <3>2 DEF Done
  <2>8. QED
    BY <2>2, <2>3, <2>5, <2>7
<1>2. QED
  BY <1>1, Invariant, PTL

=============================================================================
