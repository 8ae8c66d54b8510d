---------------------------- MODULE PartyProofs -----------------------------
(***************************************************************************)
(* Proofs about Party.  A handler of the code changes a world by one or      *)
(* several of the operators of Party; for each of these a lemma says which   *)
(* fields it changes and how, and for each handler one says that a good      *)
(* world stays good.  The functions in between leave worlds that are not     *)
(* good: LeaveParty clears a leader's party while the object still names it, *)
(* so it is shown good as a whole.                                           *)
(*                                                                           *)
(* Neither MembershipAgrees nor InvitationsAgree is inductive.  A login      *)
(* forgets the party and the invitations of the Player object, so both need  *)
(* that nobody in a party is offline; joining and disbanding need both at    *)
(* once; and a new party needs that a free address has nothing left of the   *)
(* party that was there.                                                     *)
(***************************************************************************)
EXTENDS Party, SequenceTheorems, FiniteSetTheorems, TLAPS

-----------------------------------------------------------------------------
(* The invariant.                                                            *)

(* The two sides of membership agree, and a free address has no members.     *)
Membership(w) ==
  \A q \in Address :
    /\ Companions(w, q) = {p \in Player : w.party[p] = q}
    /\ w.leader[q] \notin ToSet(w.members[q])
    /\ IsInjective(w.members[q])
    /\ w.leader[q] = Nobody => w.members[q] = <<>>

(* The two sides of invitations agree.                                       *)
Invited(w) ==
  \A q \in Address, p \in Player :
    /\ q \in w.invitations[p] <=> p \in w.invitees[q]
    /\ p \in w.invitees[q] => w.leader[q] # Nobody /\ p \notin Companions(w, q)

(* The record of who fought names only companions.                           *)
Fought(w) == \A q \in Address : w.ticks[q] \subseteq Companions(w, q)

(* A party that shares experience may.                                       *)
SharesWell(w, q) ==
  w.active[q] /\ w.enabled[q] => CanEnableSharedExperience(w, q, TRUE)

(* The leader of q, if there is one, is not left alone.                      *)
Accompanied(w, q) == w.leader[q] # Nobody => ~IsEmpty(w, q)

(* What every handler restores before it looks whether a party is empty.     *)
Agreed(w) == w \in World /\ Membership(w) /\ Invited(w) /\ Fought(w)

(* What every handler leaves behind.                                         *)
Good(w) ==
  /\ Agreed(w)
  /\ \A q \in Address : SharesWell(w, q) /\ Accompanied(w, q)

(* The parties and their channels know nobody outside S.                     *)
Within(w, S) ==
  \A q \in Address : Companions(w, q) \cup w.invitees[q] \cup w.users[q] \subseteq S

(* Who is offline is known to no party, so that a login starts from nothing. *)
IInv == online \subseteq Player /\ Good(world) /\ Within(world, online)

-----------------------------------------------------------------------------
(* Sequences without repetitions.                                            *)

(* Of a list without repetitions one erase removes the element altogether.   *)
LEMMA RemoveFirstOnce ==
  ASSUME NEW S, NEW s \in Seq(S), NEW e, IsInjective(s)
  PROVE  LET r == RemoveFirst(s, e)
         IN  /\ r \in Seq(S)
             /\ IsInjective(r)
             /\ ToSet(r) = ToSet(s) \ {e}
             /\ Len(r) = IF e \in ToSet(s) THEN Len(s) - 1 ELSE Len(s)
             /\ e \notin ToSet(s) => r = s
<1>1. ToSet(s) = {s[i] : i \in 1..Len(s)}
  BY DEF ToSet
<1>2. CASE e \notin ToSet(s)
  <2>1. RemoveFirst(s, e) = s
    BY <1>1, <1>2 DEF RemoveFirst
  <2>2. QED
    BY <1>2, <2>1
<1>3. ASSUME NEW k \in 1..Len(s), s[k] = e
      PROVE  LET r == RemoveFirst(s, e)
             IN  /\ r \in Seq(S)
                 /\ IsInjective(r)
                 /\ ToSet(r) = ToSet(s) \ {e}
                 /\ Len(r) = Len(s) - 1
  <2> DEFINE r == SubSeq(s, 1, k-1) \o SubSeq(s, k+1, Len(s))
  <2>1. {i \in 1..Len(s) : s[i] = e} = {k}
    BY <1>3 DEF IsInjective
  <2>2. Min({k}) = k
    BY DEF Min
  <2>3. RemoveFirst(s, e) = r
    BY <1>3, <2>1, <2>2 DEF RemoveFirst, RemoveAt, SelectInSeq
  <2>4. /\ r \in Seq(S)
        /\ Len(r) = Len(s) - 1
        /\ \A i \in 1..Len(r) : r[i] = IF i < k THEN s[i] ELSE s[i + 1]
    <3> DEFINE s1 == SubSeq(s, 1, k-1)
               s2 == SubSeq(s, k+1, Len(s))
    <3>1. /\ s1 \in Seq(S) /\ Len(s1) = k - 1
          /\ \A i \in 1..(k - 1) : s1[i] = s[i]
      OBVIOUS
    <3>2. /\ s2 \in Seq(S) /\ Len(s2) = Len(s) - k
          /\ \A i \in 1..(Len(s) - k) : s2[i] = s[k + i]
      OBVIOUS
    <3> HIDE DEF s1, s2
    <3>3. /\ s1 \o s2 \in Seq(S)
          /\ Len(s1 \o s2) = Len(s1) + Len(s2)
          /\ \A i \in 1..(Len(s1) + Len(s2)) :
               (s1 \o s2)[i] = IF i <= Len(s1) THEN s1[i] ELSE s2[i - Len(s1)]
      BY <3>1, <3>2, ConcatProperties
    <3>4. Len(s1) + Len(s2) = Len(s) - 1
      BY <3>1, <3>2
    <3>5. ASSUME NEW i \in 1..(Len(s) - 1)
          PROVE  (s1 \o s2)[i] = IF i < k THEN s[i] ELSE s[i + 1]
      <4>1. (s1 \o s2)[i] = IF i <= k - 1 THEN s1[i] ELSE s2[i - (k - 1)]
        BY <3>1, <3>3, <3>4
      <4>2. CASE i < k
        BY <4>1, <4>2, <3>1
      <4>3. CASE ~(i < k)
        <5>1. /\ i - (k - 1) \in 1..(Len(s) - k)
              /\ k + (i - (k - 1)) = i + 1
          BY <4>3
        <5>2. QED
          BY <5>1, <4>1, <4>3, <3>2
      <4>4. QED
        BY <4>2, <4>3
    <3>6. QED
      BY <3>3, <3>4, <3>5 DEF s1, s2
  <2> HIDE DEF r
  <2>5. IsInjective(r)
    <3>1. ASSUME NEW i \in 1..Len(r), NEW j \in 1..Len(r), r[i] = r[j]
          PROVE  i = j
      <4>1. \A a, b \in 1..Len(s) : s[a] = s[b] => a = b
        BY DEF IsInjective
      <4>2. CASE i < k /\ j < k
        BY <2>4, <3>1, <4>1, <4>2
      <4>3. CASE i < k /\ ~(j < k)
        BY <2>4, <3>1, <4>1, <4>3
      <4>4. CASE ~(i < k) /\ j < k
        BY <2>4, <3>1, <4>1, <4>4
      <4>5. CASE ~(i < k) /\ ~(j < k)
        <5>1. i + 1 = j + 1
          BY <2>4, <3>1, <4>1, <4>5
        <5>2. QED
          BY <5>1
      <4>6. QED
        BY <4>2, <4>3, <4>4, <4>5
    <3>2. QED
      BY <2>4, <3>1 DEF IsInjective
  <2>6. ToSet(r) \subseteq ToSet(s) \ {e}
    BY <1>3, <2>4 DEF IsInjective, ToSet
  <2>7. ASSUME NEW i \in 1..Len(s), i # k
        PROVE  s[i] \in ToSet(r)
    <3>1. CASE i < k
      <4>1. i \in 1..Len(r) /\ r[i] = s[i]
        BY <3>1, <2>4
      <4>2. QED
        BY <4>1, <2>4 DEF ToSet
    <3>2. CASE i > k
      <4>1. i - 1 \in 1..Len(r) /\ r[i - 1] = s[i]
        BY <3>2, <2>4
      <4>2. QED
        BY <4>1, <2>4 DEF ToSet
    <3>3. QED
      BY <2>7, <3>1, <3>2
  <2>8. ToSet(s) \ {e} \subseteq ToSet(r)
    BY <1>1, <1>3, <2>7
  <2>9. QED
    BY <2>3, <2>4, <2>5, <2>6, <2>8
<1>4. QED
  BY <1>1, <1>2, <1>3

(* Appending a new element leaves a list without repetitions.                *)
LEMMA AppendOnce ==
  ASSUME NEW S, NEW s \in Seq(S), NEW e \in S, IsInjective(s), e \notin ToSet(s)
  PROVE  LET r == Append(s, e)
         IN  /\ r \in Seq(S)
             /\ IsInjective(r)
             /\ ToSet(r) = ToSet(s) \cup {e}
             /\ r # <<>>
<1> DEFINE r == Append(s, e)
<1>1. /\ r \in Seq(S)
      /\ Len(r) = Len(s) + 1
      /\ \A i \in 1..Len(r) : r[i] = IF i = Len(r) THEN e ELSE s[i]
  OBVIOUS
<1>2. r # <<>>
  BY AppendProperties
<1> HIDE DEF r
<1>3. ToSet(r) = ToSet(s) \cup {e}
  BY <1>1 DEF ToSet
<1>4. IsInjective(r)
  <2>1. ASSUME NEW i \in 1..Len(r), NEW j \in 1..Len(r), r[i] = r[j]
        PROVE  i = j
    BY <1>1, <2>1 DEF IsInjective, ToSet
  <2>2. QED
    BY <1>1, <2>1 DEF IsInjective
<1>5. QED
  BY <1>1, <1>2, <1>3, <1>4 DEF r

(* So does putting one in front.                                             *)
LEMMA PrependOnce ==
  ASSUME NEW S, NEW s \in Seq(S), NEW e \in S, IsInjective(s), e \notin ToSet(s)
  PROVE  LET r == <<e>> \o s
         IN  /\ r \in Seq(S)
             /\ IsInjective(r)
             /\ ToSet(r) = ToSet(s) \cup {e}
             /\ r # <<>>
             /\ Len(r) = Len(s) + 1
<1> DEFINE r == <<e>> \o s
<1>1. /\ r \in Seq(S)
      /\ Len(r) = Len(s) + 1
      /\ \A i \in 1..Len(r) : r[i] = IF i = 1 THEN e ELSE s[i - 1]
  OBVIOUS
<1>2. r # <<>>
  BY <1>1
<1> HIDE DEF r
<1>3. ToSet(r) = ToSet(s) \cup {e}
  <2>1. ToSet(r) \subseteq ToSet(s) \cup {e}
    BY <1>1 DEF ToSet
  <2>2. e \in ToSet(r)
    BY <1>1 DEF ToSet
  <2>3. ASSUME NEW i \in 1..Len(s)
        PROVE  s[i] \in ToSet(r)
    <3>1. i + 1 \in 1..Len(r) /\ r[i + 1] = s[i]
      BY <1>1
    <3>2. QED
      BY <3>1, <1>1 DEF ToSet
  <2>4. ToSet(s) \subseteq ToSet(r)
    BY <2>3 DEF ToSet
  <2>5. QED
    BY <2>1, <2>2, <2>4
<1>4. IsInjective(r)
  <2>1. ASSUME NEW i \in 1..Len(r), NEW j \in 1..Len(r), r[i] = r[j]
        PROVE  i = j
    <3>1. \A a, b \in 1..Len(s) : s[a] = s[b] => a = b
      BY DEF IsInjective
    <3>2. \A a \in 1..Len(s) : s[a] # e
      BY DEF ToSet
    <3>3. CASE i = 1 \/ j = 1
      BY <1>1, <2>1, <3>2, <3>3
    <3>4. CASE i # 1 /\ j # 1
      <4>1. /\ i - 1 \in 1..Len(s) /\ j - 1 \in 1..Len(s)
            /\ s[i - 1] = s[j - 1]
        BY <1>1, <2>1, <3>4
      <4>2. QED
        BY <3>1, <4>1
    <3>5. QED
      BY <3>3, <3>4
  <2>2. QED
    BY <1>1, <2>1 DEF IsInjective
<1>5. QED
  BY <1>1, <1>2, <1>3, <1>4 DEF r

-----------------------------------------------------------------------------
(* What the operators on worlds change.                                      *)

(* v has the parties of w; what is shared and heard in them may differ.      *)
SameParties(w, v) ==
  /\ v.party = w.party
  /\ v.invitations = w.invitations
  /\ v.leader = w.leader
  /\ v.members = w.members
  /\ v.invitees = w.invitees

(* v is w after UpdateSharedExperience for q.                                *)
Updated(w, v, q) ==
  /\ v \in World
  /\ SameParties(w, v)
  /\ v.ticks = w.ticks
  /\ v.active = w.active
  /\ v.users = w.users
  /\ \A a \in Address \ {q} : v.enabled[a] = w.enabled[a]
  /\ v.active[q] /\ v.enabled[q] => CanEnableSharedExperience(w, q, TRUE)

(* UpdateSharedExperience decides one flag, and only as it may.              *)
LEMMA UpdateFields ==
  ASSUME NEW w \in World, NEW q \in Address, NEW fit \in BOOLEAN
  PROVE  Updated(w, UpdateSharedExperience(w, q, fit), q)
<1>1. CanEnableSharedExperience(w, q, fit) \in BOOLEAN
  BY DEF CanEnableSharedExperience
<1>2. CanEnableSharedExperience(w, q, fit) => CanEnableSharedExperience(w, q, TRUE)
  BY DEF CanEnableSharedExperience
<1> DEFINE can == CanEnableSharedExperience(w, q, fit)
           v == UpdateSharedExperience(w, q, fit)
<1>3. v = [w EXCEPT !.enabled = [w.enabled EXCEPT ![q] =
              IF w.active[q] THEN can ELSE w.enabled[q]]]
  BY DEF UpdateSharedExperience
<1> HIDE DEF can, v
<1>4. /\ v \in World
      /\ SameParties(w, v)
      /\ v.ticks = w.ticks
      /\ v.active = w.active
      /\ v.users = w.users
      /\ \A a \in Address \ {q} : v.enabled[a] = w.enabled[a]
  BY <1>1, <1>3 DEF World, SameParties, can
<1>5. v.active[q] /\ v.enabled[q] => can
  BY <1>3 DEF World
<1>6. QED
  BY <1>2, <1>4, <1>5 DEF can, v, Updated

(* Whether sharing is allowed depends on the party and its record alone.     *)
LEMMA CanFields ==
  ASSUME NEW w, NEW v, NEW q \in Address,
         v.members[q] = w.members[q], v.leader[q] = w.leader[q],
         v.ticks[q] = w.ticks[q]
  PROVE  CanEnableSharedExperience(v, q, TRUE) = CanEnableSharedExperience(w, q, TRUE)
BY DEF CanEnableSharedExperience, Companions

(* Agreement is about the parties and the record of who fought.              *)
LEMMA AgreedSame ==
  ASSUME NEW w \in World, NEW v \in World, SameParties(w, v), v.ticks = w.ticks,
         Agreed(w)
  PROVE  /\ Agreed(v)
         /\ \A a \in Address : Companions(v, a) = Companions(w, a)
         /\ \A a \in Address : IsEmpty(v, a) = IsEmpty(w, a)
<1>1. \A a : Companions(v, a) = Companions(w, a)
  BY DEF SameParties, Companions
<1>2. \A a : IsEmpty(v, a) = IsEmpty(w, a)
  BY DEF SameParties, IsEmpty
<1>3. Membership(v)
  BY <1>1 DEF Agreed, Membership, SameParties
<1>4. Invited(v)
  BY <1>1 DEF Agreed, Invited, SameParties
<1>5. Fought(v)
  BY <1>1 DEF Agreed, Fought
<1>6. QED
  BY <1>1, <1>2, <1>3, <1>4, <1>5 DEF Agreed

(* UpdateSharedExperience makes the invariant good, whatever `enabled` was.  *)
LEMMA UpdateGood ==
  ASSUME NEW w \in World, NEW q \in Address, NEW fit \in BOOLEAN,
         Agreed(w), \A a \in Address \ {q} : SharesWell(w, a)
  PROVE  LET v == UpdateSharedExperience(w, q, fit)
         IN  Agreed(v) /\ \A a \in Address : SharesWell(v, a)
<1> DEFINE v == UpdateSharedExperience(w, q, fit)
<1>1. /\ v \in World
      /\ SameParties(w, v)
      /\ v.ticks = w.ticks
      /\ v.active = w.active
      /\ v.users = w.users
      /\ \A a \in Address \ {q} : v.enabled[a] = w.enabled[a]
      /\ v.active[q] /\ v.enabled[q] => CanEnableSharedExperience(w, q, TRUE)
  BY UpdateFields DEF Updated
<1> HIDE DEF v
<1>2. \A a \in Address : /\ Companions(v, a) = Companions(w, a)
                         /\ CanEnableSharedExperience(v, a, TRUE)
                              = CanEnableSharedExperience(w, a, TRUE)
  BY <1>1 DEF SameParties, Companions, CanEnableSharedExperience
<1>3. Agreed(v)
  BY <1>1, AgreedSame
<1>4. \A a \in Address : SharesWell(v, a)
  BY <1>1, <1>2 DEF SharesWell
<1>5. QED
  BY <1>3, <1>4 DEF v

(* Closing a channel takes it from those who heard it.                       *)
LEMMA ClosePrivateFields ==
  ASSUME NEW w \in World, NEW S \in SUBSET Player
  PROVE  LET v == ClosePrivate(w, S)
         IN  /\ v \in World
             /\ SameParties(w, v)
             /\ v.ticks = w.ticks
             /\ v.active = w.active
             /\ v.enabled = w.enabled
             /\ \A a \in Address : v.users[a] \subseteq w.users[a]
BY DEF ClosePrivate, World, SameParties

(* The party objects at the addresses D are gone, the others are as before.  *)
Emptied(w, v, D) ==
  \A a \in Address :
    /\ v.leader[a] = IF a \in D THEN Nobody ELSE w.leader[a]
    /\ v.members[a] = IF a \in D THEN <<>> ELSE w.members[a]
    /\ v.invitees[a] = IF a \in D THEN {} ELSE w.invitees[a]
    /\ v.ticks[a] = IF a \in D THEN {} ELSE w.ticks[a]
    /\ v.active[a] = IF a \in D THEN FALSE ELSE w.active[a]
    /\ v.enabled[a] = IF a \in D THEN FALSE ELSE w.enabled[a]

(* Deleting party objects changes nothing that players know.                 *)
LEMMA DeleteFields ==
  ASSUME NEW w \in World, NEW D \in SUBSET Address
  PROVE  LET v == Delete(w, D)
         IN  /\ v \in World
             /\ v.party = w.party
             /\ v.invitations = w.invitations
             /\ v.users = w.users
             /\ Emptied(w, v, D)
<1> DEFINE leader == [a \in Address |-> IF a \in D THEN Nobody ELSE w.leader[a]]
           members == [a \in Address |-> IF a \in D THEN <<>> ELSE w.members[a]]
           invitees == [a \in Address |-> IF a \in D THEN {} ELSE w.invitees[a]]
           ticks == [a \in Address |-> IF a \in D THEN {} ELSE w.ticks[a]]
           active == [a \in Address |-> IF a \in D THEN FALSE ELSE w.active[a]]
           enabled == [a \in Address |-> IF a \in D THEN FALSE ELSE w.enabled[a]]
           v == Delete(w, D)
<1>1. v = [w EXCEPT !.leader = leader, !.members = members, !.invitees = invitees,
                    !.ticks = ticks, !.active = active, !.enabled = enabled]
  BY DEF Delete
<1>2. /\ leader \in [Address -> Player \cup {Nobody}]
      /\ members \in [Address -> Seq(Player)]
      /\ invitees \in [Address -> SUBSET Player]
      /\ ticks \in [Address -> SUBSET Player]
      /\ active \in [Address -> BOOLEAN]
      /\ enabled \in [Address -> BOOLEAN]
  <2>1. <<>> \in Seq(Player)
    OBVIOUS
  <2>2. QED
    BY <2>1 DEF World
<1> HIDE DEF leader, members, invitees, ticks, active, enabled, v
<1>3. /\ v \in World
      /\ v.party = w.party
      /\ v.invitations = w.invitations
      /\ v.users = w.users
      /\ v.leader = leader
      /\ v.members = members
      /\ v.invitees = invitees
      /\ v.ticks = ticks
      /\ v.active = active
      /\ v.enabled = enabled
  BY <1>1, <1>2 DEF World
<1>4. QED
  BY <1>3 DEF leader, members, invitees, ticks, active, enabled, v, Emptied

(* The parties in D are gone, with all that players knew of them.            *)
Dissolved(w, v, D) ==
  /\ v \in World
  /\ \A p \in Player :
       /\ v.party[p] = IF w.party[p] \in D THEN NoParty ELSE w.party[p]
       /\ v.invitations[p] = w.invitations[p] \ D
  /\ Emptied(w, v, D)
  /\ \A a \in Address : v.users[a] \subseteq w.users[a]

(* What Disband does, whether or not the two sides of membership agree.      *)
Disbanded(w, v, D) ==
  /\ v \in World
  /\ \A p \in Player :
       /\ v.party[p] = IF \E q \in D : p \in Companions(w, q)
                       THEN NoParty ELSE w.party[p]
       /\ v.invitations[p] = w.invitations[p] \ {q \in D : p \in w.invitees[q]}
  /\ Emptied(w, v, D)
  /\ \A a \in Address : v.users[a] \subseteq w.users[a]

(* Disband in terms of the lists it walks.                                   *)
LEMMA DisbandFields ==
  ASSUME NEW w \in World, NEW D \in SUBSET Address
  PROVE  Disbanded(w, Disband(w, D), D)
<1> DEFINE freed == UNION {Companions(w, q) : q \in D}
           party == [p \in Player |-> IF p \in freed THEN NoParty ELSE w.party[p]]
           invitations == [p \in Player |->
                             w.invitations[p] \ {q \in D : p \in w.invitees[q]}]
           w1 == [w EXCEPT !.party = party, !.invitations = invitations]
           w2 == ClosePrivate(w1, freed)
           v == Delete(w2, D)
<1>1. Disband(w, D) = v
  BY DEF Disband
<1>2. /\ freed \in SUBSET Player
      /\ \A p : p \in freed <=> \E q \in D : p \in Companions(w, q)
  BY DEF Companions, World, ToSet
<1>3. /\ party \in [Player -> Address \cup {NoParty}]
      /\ invitations \in [Player -> SUBSET Address]
  BY DEF World
<1>4. /\ \A p \in Player : party[p] = IF p \in freed THEN NoParty ELSE w.party[p]
      /\ \A p \in Player :
           invitations[p] = w.invitations[p] \ {q \in D : p \in w.invitees[q]}
  OBVIOUS
<1> HIDE DEF freed, party, invitations, v
<1>5. /\ w1 \in World
      /\ w1.party = party
      /\ w1.invitations = invitations
      /\ w1.leader = w.leader
      /\ w1.members = w.members
      /\ w1.invitees = w.invitees
      /\ w1.ticks = w.ticks
      /\ w1.active = w.active
      /\ w1.enabled = w.enabled
      /\ w1.users = w.users
  BY <1>3 DEF World
<1> HIDE DEF w1
<1>6. /\ w2 \in World
      /\ w2.party = party
      /\ w2.invitations = invitations
      /\ w2.leader = w.leader
      /\ w2.members = w.members
      /\ w2.invitees = w.invitees
      /\ w2.ticks = w.ticks
      /\ w2.active = w.active
      /\ w2.enabled = w.enabled
      /\ \A a \in Address : w2.users[a] \subseteq w.users[a]
  BY <1>2, <1>5, ClosePrivateFields DEF SameParties
<1> HIDE DEF w2
<1>7. /\ v \in World
      /\ v.party = party
      /\ v.invitations = invitations
      /\ v.users = w2.users
      /\ Emptied(w2, v, D)
  BY <1>6, DeleteFields DEF v
<1>8. Emptied(w, v, D)
  BY <1>6, <1>7 DEF Emptied
<1>9. QED
  <2>1. \A p \in Player :
          /\ v.party[p] = IF \E q \in D : p \in Companions(w, q)
                          THEN NoParty ELSE w.party[p]
          /\ v.invitations[p] = w.invitations[p] \ {q \in D : p \in w.invitees[q]}
    BY <1>2, <1>4, <1>7
  <2>2. QED
    BY <1>1, <1>6, <1>7, <1>8, <2>1 DEF Disbanded

(* Where the two sides agree, disbanding leaves no trace of the party.       *)
LEMMA DisbandDissolves ==
  ASSUME NEW w \in World, NEW D \in SUBSET Address, Membership(w), Invited(w)
  PROVE  Dissolved(w, Disband(w, D), D)
<1> DEFINE v == Disband(w, D)
<1>1. \A p \in Player : (\E q \in D : p \in Companions(w, q)) <=> w.party[p] \in D
  BY DEF Membership
<1>2. \A p \in Player : w.invitations[p] \ {q \in D : p \in w.invitees[q]}
                          = w.invitations[p] \ D
  BY DEF Invited
<1>3. Disbanded(w, v, D)
  BY DisbandFields
<1> HIDE DEF v
<1>4. Dissolved(w, v, D)
  BY <1>1, <1>2, <1>3 DEF Dissolved, Disbanded
<1>5. QED
  BY <1>4 DEF v

(* A party whose trace is gone takes nothing from the other parties.         *)
LEMMA DissolvedGood ==
  ASSUME NEW w \in World, NEW v, NEW D \in SUBSET Address,
         Agreed(w), Dissolved(w, v, D),
         \A a \in Address \ D : SharesWell(w, a) /\ Accompanied(w, a)
  PROVE  /\ Good(v)
         /\ \A a \in Address : /\ Companions(v, a) \subseteq Companions(w, a)
                               /\ v.invitees[a] \subseteq w.invitees[a]
                               /\ v.users[a] \subseteq w.users[a]
<1>1. v \in World
  BY DEF Dissolved, Emptied
<1>2. \A a \in D : /\ Companions(v, a) = {}
                   /\ ToSet(v.members[a]) = {}
                   /\ IsInjective(v.members[a])
  <2>1. ToSet(<<>>) = {} /\ IsInjective(<<>>)
    BY DEF ToSet, IsInjective
  <2>2. QED
    BY <2>1 DEF Dissolved, Emptied, Companions
<1>3. \A a \in Address \ D : Companions(v, a) = Companions(w, a)
  BY DEF Dissolved, Emptied, Companions
<1>4. \A a \in D : {p \in Player : v.party[p] = a} = {}
  BY PartyAssumption DEF Dissolved, Emptied
<1>5. \A a \in Address \ D :
        {p \in Player : v.party[p] = a} = {p \in Player : w.party[p] = a}
  <2>1. ASSUME NEW a \in Address \ D, NEW p \in Player
        PROVE  v.party[p] = a <=> w.party[p] = a
    BY PartyAssumption DEF Dissolved, Emptied
  <2>2. QED
    BY <2>1
<1>6. Membership(v)
  <2>1. ASSUME NEW a \in D
        PROVE  /\ Companions(v, a) = {p \in Player : v.party[p] = a}
               /\ v.leader[a] \notin ToSet(v.members[a])
               /\ IsInjective(v.members[a])
               /\ v.leader[a] = Nobody => v.members[a] = <<>>
    BY <1>2, <1>4 DEF Dissolved, Emptied
  <2>2. ASSUME NEW a \in Address \ D
        PROVE  /\ Companions(v, a) = {p \in Player : v.party[p] = a}
               /\ v.leader[a] \notin ToSet(v.members[a])
               /\ IsInjective(v.members[a])
               /\ v.leader[a] = Nobody => v.members[a] = <<>>
    <3>1. v.leader[a] = w.leader[a] /\ v.members[a] = w.members[a]
      BY DEF Dissolved, Emptied
    <3>2. QED
      BY <3>1, <1>3, <1>5 DEF Agreed, Membership
  <2>3. QED
    BY <2>1, <2>2 DEF Membership
<1>7. Invited(v)
  <2>1. ASSUME NEW a \in D, NEW p \in Player
        PROVE  a \notin v.invitations[p] /\ p \notin v.invitees[a]
    BY DEF Dissolved, Emptied
  <2>2. ASSUME NEW a \in Address \ D, NEW p \in Player
        PROVE  /\ a \in v.invitations[p] <=> a \in w.invitations[p]
               /\ p \in v.invitees[a] <=> p \in w.invitees[a]
               /\ v.leader[a] = w.leader[a]
    <3>1. v.invitations[p] = w.invitations[p] \ D
      BY DEF Dissolved
    <3>2. v.invitees[a] = w.invitees[a] /\ v.leader[a] = w.leader[a]
      BY DEF Dissolved, Emptied
    <3>3. QED
      BY <3>1, <3>2
  <2>3. QED
    BY <2>1, <2>2, <1>3 DEF Invited, Agreed
<1>8. Fought(v)
  BY <1>2, <1>3 DEF Fought, Agreed, Dissolved, Emptied
<1>9. \A a \in Address : SharesWell(v, a) /\ Accompanied(v, a)
  <2>1. ASSUME NEW a \in D
        PROVE  SharesWell(v, a) /\ Accompanied(v, a)
    BY DEF SharesWell, Accompanied, Dissolved, Emptied
  <2>2. ASSUME NEW a \in Address \ D
        PROVE  SharesWell(v, a) /\ Accompanied(v, a)
    <3>1. /\ v.leader[a] = w.leader[a] /\ v.members[a] = w.members[a]
          /\ v.invitees[a] = w.invitees[a] /\ v.ticks[a] = w.ticks[a]
          /\ v.active[a] = w.active[a] /\ v.enabled[a] = w.enabled[a]
      BY DEF Dissolved, Emptied
    <3>2. QED
      BY <3>1, CanFields DEF SharesWell, Accompanied, IsEmpty
  <2>3. QED
    BY <2>1, <2>2
<1>10. \A a \in Address : /\ Companions(v, a) \subseteq Companions(w, a)
                          /\ v.invitees[a] \subseteq w.invitees[a]
                          /\ v.users[a] \subseteq w.users[a]
  BY <1>2, <1>3 DEF Dissolved, Emptied
<1>11. QED
  BY <1>1, <1>6, <1>7, <1>8, <1>9, <1>10 DEF Good, Agreed

-----------------------------------------------------------------------------
(* One lemma for each handler's operator.                                    *)

(* v is w with p at the head of the party q.                                 *)
Passed(w, v, p, q) ==
  /\ Good(v)
  /\ v.party = w.party
  /\ v.invitations = w.invitations
  /\ v.invitees = w.invitees
  /\ v.users = w.users
  /\ v.leader = [w.leader EXCEPT ![q] = p]
  /\ ToSet(v.members[q]) = (ToSet(w.members[q]) \ {p}) \cup {w.leader[q]}
  /\ Len(v.members[q]) = Len(w.members[q])
  /\ \A a \in Address : Companions(v, a) = Companions(w, a)

(* Passing the leadership to a member keeps the company.                     *)
LEMMA PassGood ==
  ASSUME NEW w \in World, NEW q \in Address, NEW p \in ToSet(w.members[q]),
         NEW fit \in BOOLEAN, Good(w)
  PROVE  Passed(w, PassPartyLeadership(w, p, q, fit), p, q)
<1> DEFINE members == <<w.leader[q]>> \o RemoveFirst(w.members[q], p)
           u == [w EXCEPT !.members[q] = members, !.leader[q] = p]
           v == PassPartyLeadership(w, p, q, fit)
<1>1. /\ p \in Companions(w, q)
      /\ Companions(w, q) = {x \in Player : w.party[x] = q}
      /\ w.leader[q] \notin ToSet(w.members[q])
      /\ IsInjective(w.members[q])
      /\ w.leader[q] = Nobody => w.members[q] = <<>>
  BY DEF Good, Agreed, Membership, Companions
<1>2. p \in Player /\ w.party[p] = q /\ w.leader[q] # p
  BY <1>1
<1>3. w.leader[q] \in Player
  BY <1>1 DEF World, ToSet
<1>4. /\ members \in Seq(Player)
      /\ IsInjective(members)
      /\ ToSet(members) = (ToSet(w.members[q]) \ {p}) \cup {w.leader[q]}
      /\ members # <<>>
      /\ Len(members) = Len(w.members[q])
  <2> DEFINE r == RemoveFirst(w.members[q], p)
  <2>1. w.members[q] \in Seq(Player)
    BY DEF World
  <2>2. /\ r \in Seq(Player) /\ IsInjective(r)
        /\ ToSet(r) = ToSet(w.members[q]) \ {p}
        /\ Len(r) = Len(w.members[q]) - 1
    BY <2>1, <1>1, RemoveFirstOnce
  <2> HIDE DEF r
  <2>3. w.leader[q] \notin ToSet(r)
    BY <2>2, <1>1
  <2>4. /\ <<w.leader[q]>> \o r \in Seq(Player)
        /\ IsInjective(<<w.leader[q]>> \o r)
        /\ ToSet(<<w.leader[q]>> \o r) = ToSet(r) \cup {w.leader[q]}
        /\ <<w.leader[q]>> \o r # <<>>
        /\ Len(<<w.leader[q]>> \o r) = Len(r) + 1
    BY <2>2, <2>3, <1>3, PrependOnce
  <2>5. Len(w.members[q]) \in Nat /\ Len(r) \in Nat
    BY <2>1, <2>2
  <2>6. QED
    BY <2>2, <2>4, <2>5 DEF r
<1> HIDE DEF members
<1>5. v = UpdateSharedExperience(u, q, fit)
  BY <1>2 DEF PassPartyLeadership, members
<1>6. /\ u \in World
      /\ u.party = w.party
      /\ u.invitations = w.invitations
      /\ u.invitees = w.invitees
      /\ u.users = w.users
      /\ u.leader = [w.leader EXCEPT ![q] = p]
      /\ u.members = [w.members EXCEPT ![q] = members]
      /\ u.ticks = w.ticks
      /\ u.active = w.active
      /\ u.enabled = w.enabled
  BY <1>2, <1>4 DEF World
<1> HIDE DEF u
<1>7. /\ u.leader[q] = p /\ u.members[q] = members
      /\ \A a \in Address \ {q} : u.leader[a] = w.leader[a] /\ u.members[a] = w.members[a]
  BY <1>6 DEF World
<1>8. \A a \in Address : Companions(u, a) = Companions(w, a)
  <2>1. Companions(u, q) = Companions(w, q)
    BY <1>2, <1>3, <1>4, <1>7, PartyAssumption DEF Companions
  <2>2. \A a \in Address \ {q} : Companions(u, a) = Companions(w, a)
    BY <1>7 DEF Companions
  <2>3. QED
    BY <2>1, <2>2
<1>9. Agreed(u)
  <2>1. Membership(u)
    <3>1. /\ Companions(u, q) = {x \in Player : u.party[x] = q}
          /\ u.leader[q] \notin ToSet(u.members[q])
          /\ IsInjective(u.members[q])
          /\ u.leader[q] # Nobody
      BY <1>1, <1>2, <1>4, <1>6, <1>7, <1>8, PartyAssumption
    <3>2. ASSUME NEW a \in Address \ {q}
          PROVE  /\ Companions(u, a) = {x \in Player : u.party[x] = a}
                 /\ u.leader[a] \notin ToSet(u.members[a])
                 /\ IsInjective(u.members[a])
                 /\ u.leader[a] = Nobody => u.members[a] = <<>>
      BY <1>6, <1>7, <1>8 DEF Good, Agreed, Membership
    <3>3. QED
      BY <3>1, <3>2 DEF Membership
  <2>2. Invited(u)
    BY <1>2, <1>6, <1>7, <1>8, PartyAssumption DEF Good, Agreed, Invited
  <2>3. Fought(u)
    BY <1>6, <1>8 DEF Good, Agreed, Fought
  <2>4. QED
    BY <1>6, <2>1, <2>2, <2>3 DEF Agreed
<1>10. \A a \in Address \ {q} : SharesWell(u, a)
  <2>1. ASSUME NEW a \in Address \ {q}
        PROVE  SharesWell(u, a)
    <3>1. CanEnableSharedExperience(u, a, TRUE) = CanEnableSharedExperience(w, a, TRUE)
      BY <1>6, <1>7, CanFields
    <3>2. SharesWell(w, a)
      BY DEF Good
    <3>3. QED
      BY <1>6, <3>1, <3>2 DEF SharesWell
  <2>2. QED
    BY <2>1
<1>11. Agreed(v) /\ \A a \in Address : SharesWell(v, a)
  BY <1>5, <1>6, <1>9, <1>10, UpdateGood
<1> HIDE DEF v
<1>12. v \in World /\ SameParties(u, v) /\ v.users = u.users
  BY <1>5, <1>6, UpdateFields DEF Updated
<1>13. \A a \in Address : Companions(v, a) = Companions(w, a)
  BY <1>8, <1>12 DEF SameParties, Companions
<1>14. \A a \in Address : Accompanied(v, a)
  <2>1. Accompanied(v, q)
    BY <1>4, <1>7, <1>12 DEF SameParties, Accompanied, IsEmpty
  <2>2. \A a \in Address \ {q} : Accompanied(v, a)
    BY <1>6, <1>7, <1>12 DEF SameParties, Accompanied, IsEmpty, Good
  <2>3. QED
    BY <2>1, <2>2
<1>15. /\ v.party = w.party
       /\ v.invitations = w.invitations
       /\ v.invitees = w.invitees
       /\ v.users = w.users
       /\ v.leader = [w.leader EXCEPT ![q] = p]
       /\ v.members[q] = members
  BY <1>6, <1>7, <1>12 DEF SameParties
<1>16. QED
  BY <1>4, <1>11, <1>13, <1>14, <1>15 DEF v, Good, Passed

(* Clearing a player's points may stop the sharing, never start it wrongly.  *)
LEMMA ClearFields ==
  ASSUME NEW w \in World, NEW p \in Player, NEW q \in Address, NEW fit \in BOOLEAN,
         SharesWell(w, q)
  PROVE  LET v == ClearPlayerPoints(w, p, q, fit)
         IN  /\ v \in World
             /\ SameParties(w, v)
             /\ v.users = w.users
             /\ v.active = w.active
             /\ v.ticks = [w.ticks EXCEPT ![q] = @ \ {p}]
             /\ \A a \in Address \ {q} : v.enabled[a] = w.enabled[a]
             /\ SharesWell(v, q)
<1> DEFINE u == [w EXCEPT !.ticks[q] = @ \ {p}]
           v == ClearPlayerPoints(w, p, q, fit)
<1>1. CASE p \notin w.ticks[q]
  <2>1. v = w
    BY <1>1 DEF ClearPlayerPoints
  <2>2. w.ticks = [w.ticks EXCEPT ![q] = @ \ {p}]
    <3>1. w.ticks[q] = w.ticks[q] \ {p}
      BY <1>1
    <3>2. w.ticks \in [Address -> SUBSET Player]
      BY DEF World
    <3>3. QED
      BY <3>1, <3>2
  <2>3. QED
    BY <2>1, <2>2 DEF SameParties
<1>2. CASE p \in w.ticks[q]
  <2>1. v = UpdateSharedExperience(u, q, fit)
    BY <1>2 DEF ClearPlayerPoints
  <2>2. /\ u \in World
        /\ SameParties(w, u)
        /\ u.users = w.users
        /\ u.active = w.active
        /\ u.enabled = w.enabled
        /\ u.ticks = [w.ticks EXCEPT ![q] = @ \ {p}]
    BY DEF World, SameParties
  <2> DEFINE v2 == UpdateSharedExperience(u, q, fit)
  <2> HIDE DEF u
  <2>3. /\ v2 \in World
        /\ SameParties(u, v2)
        /\ v2.users = u.users
        /\ v2.active = u.active
        /\ v2.ticks = u.ticks
        /\ \A a \in Address \ {q} : v2.enabled[a] = u.enabled[a]
        /\ v2.active[q] /\ v2.enabled[q] => CanEnableSharedExperience(u, q, TRUE)
    BY <2>2, UpdateFields DEF Updated
  <2> HIDE DEF v, v2
  <2>4. CanEnableSharedExperience(v2, q, TRUE) = CanEnableSharedExperience(u, q, TRUE)
    BY <2>3, CanFields DEF SameParties
  <2>5. v = v2
    BY <2>1 DEF v2
  <2>6. QED
    BY <2>2, <2>3, <2>4, <2>5 DEF v, SameParties, SharesWell
<1>3. QED
  BY <1>1, <1>2

(* What LeaveParty does before it looks whether the party is empty.          *)
Depart(w, p, q, fit) ==
  LET u == [w EXCEPT !.members[q] = RemoveFirst(@, p), !.party[p] = NoParty]
  IN  ClearPlayerPoints(UpdateSharedExperience(ClosePrivate(u, {p}), q, fit), p, q, fit)

(* v is w when p has been erased from the party q.                           *)
Departed(w, v, p, q) ==
  /\ v \in World
  /\ v.party = [w.party EXCEPT ![p] = NoParty]
  /\ v.invitations = w.invitations
  /\ v.leader = w.leader
  /\ v.members = [w.members EXCEPT ![q] = RemoveFirst(@, p)]
  /\ v.invitees = w.invitees
  /\ v.ticks = [w.ticks EXCEPT ![q] = @ \ {p}]
  /\ v.active = w.active
  /\ \A a \in Address : v.users[a] \subseteq w.users[a]
  /\ \A a \in Address \ {q} : v.enabled[a] = w.enabled[a]
  /\ SharesWell(v, q)

(* Depart erases p from the list, its party and the record, nothing else.    *)
LEMMA DepartFields ==
  ASSUME NEW w \in World, NEW p \in Player, NEW q \in Address, NEW fit \in BOOLEAN,
         IsInjective(w.members[q])
  PROVE  Departed(w, Depart(w, p, q, fit), p, q)
<1> DEFINE u == [w EXCEPT !.members[q] = RemoveFirst(@, p), !.party[p] = NoParty]
           u1 == ClosePrivate(u, {p})
           u2 == UpdateSharedExperience(u1, q, fit)
           v == ClearPlayerPoints(u2, p, q, fit)
<1>1. Depart(w, p, q, fit) = v
  BY DEF Depart
<1>2. RemoveFirst(w.members[q], p) \in Seq(Player)
  <2>1. w.members[q] \in Seq(Player)
    BY DEF World
  <2>2. QED
    BY <2>1, RemoveFirstOnce
<1>3. /\ u \in World
      /\ u.party = [w.party EXCEPT ![p] = NoParty]
      /\ u.invitations = w.invitations
      /\ u.leader = w.leader
      /\ u.members = [w.members EXCEPT ![q] = RemoveFirst(@, p)]
      /\ u.invitees = w.invitees
      /\ u.ticks = w.ticks
      /\ u.active = w.active
      /\ u.enabled = w.enabled
      /\ u.users = w.users
  BY <1>2 DEF World
<1> HIDE DEF u
<1>4. /\ u1 \in World
      /\ SameParties(u, u1)
      /\ u1.ticks = u.ticks
      /\ u1.active = u.active
      /\ u1.enabled = u.enabled
      /\ \A a \in Address : u1.users[a] \subseteq u.users[a]
  BY <1>3, ClosePrivateFields
<1> HIDE DEF u1
<1>5. /\ u2 \in World
      /\ SameParties(u1, u2)
      /\ u2.ticks = u1.ticks
      /\ u2.active = u1.active
      /\ u2.users = u1.users
      /\ \A a \in Address \ {q} : u2.enabled[a] = u1.enabled[a]
      /\ u2.active[q] /\ u2.enabled[q] => CanEnableSharedExperience(u1, q, TRUE)
  BY <1>4, UpdateFields DEF Updated
<1> HIDE DEF u2
<1>6. SharesWell(u2, q)
  <2>1. CanEnableSharedExperience(u2, q, TRUE) = CanEnableSharedExperience(u1, q, TRUE)
    BY <1>5, CanFields DEF SameParties
  <2>2. QED
    BY <1>5, <2>1 DEF SharesWell
<1>7. /\ v \in World
      /\ SameParties(u2, v)
      /\ v.users = u2.users
      /\ v.active = u2.active
      /\ v.ticks = [u2.ticks EXCEPT ![q] = @ \ {p}]
      /\ \A a \in Address \ {q} : v.enabled[a] = u2.enabled[a]
      /\ SharesWell(v, q)
  BY <1>5, <1>6, ClearFields
<1> HIDE DEF v
<1>8. QED
  BY <1>1, <1>3, <1>4, <1>5, <1>7 DEF SameParties, Departed

(* When a member departs, both sides of membership still agree.              *)
LEMMA DepartGood ==
  ASSUME NEW w \in World, NEW p \in Player, NEW q \in Address, NEW fit \in BOOLEAN,
         Good(w), p \in ToSet(w.members[q])
  PROVE  LET v == Depart(w, p, q, fit)
         IN  /\ Agreed(v)
             /\ \A a \in Address : SharesWell(v, a)
             /\ \A a \in Address \ {q} : Accompanied(v, a)
             /\ v.party[p] = NoParty
             /\ v.leader = w.leader
             /\ v.invitees = w.invitees
             /\ Len(v.members[q]) = Len(w.members[q]) - 1
             /\ \A a \in Address : Companions(v, a) \subseteq Companions(w, a)
             /\ \A a \in Address : v.users[a] \subseteq w.users[a]
<1> DEFINE r == RemoveFirst(w.members[q], p)
           v == Depart(w, p, q, fit)
<1>1. /\ Companions(w, q) = {x \in Player : w.party[x] = q}
      /\ w.leader[q] \notin ToSet(w.members[q])
      /\ IsInjective(w.members[q])
      /\ w.leader[q] = Nobody => w.members[q] = <<>>
  BY DEF Good, Agreed, Membership
<1>2. /\ w.party[p] = q
      /\ w.leader[q] # p
      /\ w.leader[q] # Nobody
  BY <1>1 DEF Companions, ToSet
<1>3. /\ r \in Seq(Player) /\ IsInjective(r)
      /\ ToSet(r) = ToSet(w.members[q]) \ {p}
      /\ Len(r) = Len(w.members[q]) - 1
  <2>1. w.members[q] \in Seq(Player)
    BY DEF World
  <2>2. QED
    BY <2>1, <1>1, RemoveFirstOnce
<1>4. Departed(w, v, p, q)
  BY <1>1, DepartFields
<1> HIDE DEF r, v
<1>5. /\ v \in World
      /\ v.invitations = w.invitations
      /\ v.leader = w.leader
      /\ v.invitees = w.invitees
      /\ v.active = w.active
      /\ \A a \in Address : v.users[a] \subseteq w.users[a]
      /\ \A a \in Address \ {q} : v.enabled[a] = w.enabled[a]
      /\ SharesWell(v, q)
      /\ v.members[q] = r
      /\ v.ticks[q] = w.ticks[q] \ {p}
      /\ \A a \in Address \ {q} : v.members[a] = w.members[a] /\ v.ticks[a] = w.ticks[a]
      /\ v.party[p] = NoParty
      /\ \A x \in Player \ {p} : v.party[x] = w.party[x]
  BY <1>4 DEF World, Departed, r
<1>6. /\ Companions(v, q) = Companions(w, q) \ {p}
      /\ \A a \in Address \ {q} : Companions(v, a) = Companions(w, a)
  <2>1. Companions(v, q) = Companions(w, q) \ {p}
    BY <1>2, <1>3, <1>5 DEF Companions
  <2>2. ASSUME NEW a \in Address \ {q}
        PROVE  Companions(v, a) = Companions(w, a)
    BY <1>5 DEF Companions
  <2>3. QED
    BY <2>1, <2>2
<1>7. Membership(v)
  <2>1. /\ Companions(v, q) = {x \in Player : v.party[x] = q}
        /\ v.leader[q] \notin ToSet(v.members[q])
        /\ IsInjective(v.members[q])
        /\ v.leader[q] # Nobody
    BY <1>1, <1>2, <1>3, <1>5, <1>6, PartyAssumption
  <2>2. ASSUME NEW a \in Address \ {q}
        PROVE  /\ Companions(v, a) = {x \in Player : v.party[x] = a}
               /\ v.leader[a] \notin ToSet(v.members[a])
               /\ IsInjective(v.members[a])
               /\ v.leader[a] = Nobody => v.members[a] = <<>>
    <3>1. \A x \in Player : v.party[x] = a <=> w.party[x] = a
      BY <1>2, <1>5, PartyAssumption
    <3>2. QED
      BY <3>1, <1>5, <1>6 DEF Good, Agreed, Membership
  <2>3. QED
    BY <2>1, <2>2 DEF Membership
<1>8. Invited(v)
  BY <1>5, <1>6 DEF Good, Agreed, Invited
<1>9. Fought(v)
  BY <1>5, <1>6 DEF Good, Agreed, Fought
<1>10. ASSUME NEW a \in Address \ {q}
       PROVE  SharesWell(v, a) /\ Accompanied(v, a)
  <2>1. CanEnableSharedExperience(v, a, TRUE) = CanEnableSharedExperience(w, a, TRUE)
    BY <1>5, CanFields
  <2>2. SharesWell(w, a) /\ Accompanied(w, a)
    BY DEF Good
  <2>3. QED
    BY <1>5, <2>1, <2>2 DEF SharesWell, Accompanied, IsEmpty
<1>11. QED
  BY <1>3, <1>5, <1>6, <1>7, <1>8, <1>9, <1>10 DEF v, Agreed

(* Everybody a party counts on: its companions and those it has invited.     *)
Crowd(w, q) == Companions(w, q) \cup w.invitees[q]

(* A pair has at most two elements.                                          *)
LEMMA PairCardinality ==
  ASSUME NEW a, NEW b
  PROVE  Cardinality({a, b}) \in {1, 2}
<1>1. IsFiniteSet({b}) /\ Cardinality({b}) = 1
  BY FS_Singleton
<1>2. {a, b} = {b} \cup {a}
  OBVIOUS
<1>3. Cardinality({b} \cup {a}) = IF a \in {b} THEN 1 ELSE 1 + 1
  BY <1>1, FS_AddElement
<1>4. QED
  BY <1>2, <1>3

(* A party of one member and no invitees has no more than two players.       *)
LEMMA SmallCrowd ==
  ASSUME NEW w \in World, NEW q \in Address, Len(w.members[q]) = 1,
         w.invitees[q] = {}
  PROVE  ~(Cardinality(Crowd(w, q)) > 2)
<1> DEFINE m == w.members[q][1]
           l == w.leader[q]
<1>1. w.members[q] \in Seq(Player)
  BY DEF World
<1>2. ToSet(w.members[q]) = {m}
  BY <1>1 DEF ToSet
<1>3. CASE l = Nobody
  <2>1. Crowd(w, q) = {m, m}
    BY <1>2, <1>3 DEF Crowd, Companions
  <2>2. Cardinality({m, m}) \in {1, 2}
    BY PairCardinality
  <2>3. QED
    BY <2>1, <2>2
<1>4. CASE l # Nobody
  <2>1. Crowd(w, q) = {m, l}
    BY <1>2, <1>4 DEF Crowd, Companions
  <2>2. Cardinality({m, l}) \in {1, 2}
    BY PairCardinality
  <2>3. QED
    BY <2>1, <2>2
<1>5. QED
  BY <1>3, <1>4

(* What a player's leaving its party, or its invitations, does to the rest.  *)
Shrunk(w, v) ==
  \A a \in Address : /\ Companions(v, a) \subseteq Companions(w, a)
                     /\ v.invitees[a] \subseteq w.invitees[a]
                     /\ v.users[a] \subseteq w.users[a]

(* The parties of w that must survive do.                                    *)
Survives(w, v) ==
  \A a \in Address :
    w.members[a] # <<>> /\ Cardinality(Crowd(w, a)) > 2 => v.leader[a] # Nobody

(* p has left the party q of w, and no other party was disbanded or changed  *)
(* its leader.                                                               *)
Left(w, v, p, q) ==
  /\ Good(v)
  /\ v.party[p] = NoParty
  /\ Shrunk(w, v)
  /\ \A a \in Address \ {q} : v.leader[a] = w.leader[a]

(* A member that does not lead leaves: the party is disbanded only if this   *)
(* was the last member and nobody is invited.                                *)
MemberLeave(w, p, q, fit) ==
  LET d == Depart(w, p, q, fit)
  IN  IF IsEmpty(d, q) THEN Disband(d, {q}) ELSE d

(* p has left, and q is without a leader only if it was small.               *)
LeftByMember(w, v, p, q) ==
  /\ Left(w, v, p, q)
  /\ v.leader[q] = IF Len(w.members[q]) = 1 /\ w.invitees[q] = {}
                   THEN Nobody ELSE w.leader[q]

(* A member leaves a party that lives on or ends with it.                   *)
LEMMA MemberLeaves ==
  ASSUME NEW w \in World, NEW p \in Player, NEW q \in Address, NEW fit \in BOOLEAN,
         Good(w), p \in ToSet(w.members[q])
  PROVE  LeftByMember(w, MemberLeave(w, p, q, fit), p, q)
<1> DEFINE d == Depart(w, p, q, fit)
           v == IF IsEmpty(d, q) THEN Disband(d, {q}) ELSE d
<1>1. /\ Agreed(d)
      /\ \A a \in Address : SharesWell(d, a)
      /\ \A a \in Address \ {q} : Accompanied(d, a)
      /\ d.party[p] = NoParty
      /\ d.leader = w.leader
      /\ d.invitees = w.invitees
      /\ Len(d.members[q]) = Len(w.members[q]) - 1
      /\ \A a \in Address : Companions(d, a) \subseteq Companions(w, a)
      /\ \A a \in Address : d.users[a] \subseteq w.users[a]
  BY DepartGood
<1>2. IsEmpty(d, q) <=> Len(w.members[q]) = 1 /\ w.invitees[q] = {}
  <2>1. d.members[q] \in Seq(Player) /\ w.members[q] \in Seq(Player)
    BY <1>1 DEF Agreed, World
  <2>2. d.members[q] = <<>> <=> Len(d.members[q]) = 0
    BY <2>1
  <2>3. QED
    BY <1>1, <2>1, <2>2 DEF IsEmpty
<1> HIDE DEF d
<1>3. CASE IsEmpty(d, q)
  <2> DEFINE u == Disband(d, {q})
  <2>1. Dissolved(d, u, {q})
    BY <1>1, DisbandDissolves DEF Agreed
  <2> HIDE DEF u
  <2>2. Good(u) /\ Shrunk(d, u)
    BY <1>1, <2>1, DissolvedGood DEF Shrunk, Agreed
  <2>3. /\ u.party[p] = NoParty
        /\ u.leader[q] = Nobody
        /\ \A a \in Address \ {q} : u.leader[a] = d.leader[a]
    BY <1>1, <2>1 DEF Dissolved, Emptied
  <2>4. Shrunk(w, u)
    BY <1>1, <2>2 DEF Shrunk
  <2>5. v = u
    BY <1>3 DEF u
  <2> HIDE DEF v
  <2>6. QED
    BY <1>1, <1>2, <1>3, <2>2, <2>3, <2>4, <2>5 DEF v, d, Left, MemberLeave, LeftByMember
<1>4. CASE ~IsEmpty(d, q)
  <2>1. Good(d) /\ Shrunk(w, d)
    BY <1>1, <1>4 DEF Good, Shrunk, Accompanied
  <2>2. v = d
    BY <1>4
  <2> HIDE DEF v
  <2>3. QED
    BY <1>1, <1>2, <1>4, <2>1, <2>2 DEF v, d, Left, MemberLeave, LeftByMember
<1>5. QED
  BY <1>3, <1>4

(* A leader whose party has nobody to take over disbands it.                 *)
LEMMA LastLeaderLeaves ==
  ASSUME NEW w \in World, NEW p \in Player, NEW q \in Address, NEW fit \in BOOLEAN,
         Good(w), w.leader[q] = p
  PROVE  Left(w, Disband(Depart(w, p, q, fit), {q}), p, q)
<1> DEFINE d == Depart(w, p, q, fit)
           v == Disband(d, {q})
<1>1. /\ Companions(w, q) = {x \in Player : w.party[x] = q}
      /\ p \notin ToSet(w.members[q])
      /\ IsInjective(w.members[q])
      /\ w.members[q] \in Seq(Player)
  BY DEF Good, Agreed, Membership, World
<1>2. p \in Companions(w, q) /\ w.party[p] = q
  BY <1>1, PartyAssumption DEF Companions
<1>3. RemoveFirst(w.members[q], p) = w.members[q]
  BY <1>1, RemoveFirstOnce
<1>4. Departed(w, d, p, q)
  BY <1>1, DepartFields
<1> HIDE DEF d
<1>5. /\ d \in World
      /\ d.party = [w.party EXCEPT ![p] = NoParty]
      /\ d.invitations = w.invitations
      /\ d.leader = w.leader
      /\ d.members = w.members
      /\ d.invitees = w.invitees
      /\ d.active = w.active
      /\ \A a \in Address : d.users[a] \subseteq w.users[a]
      /\ \A a \in Address \ {q} : d.enabled[a] = w.enabled[a]
      /\ \A a \in Address \ {q} : d.ticks[a] = w.ticks[a]
  <2>1. w.members = [w.members EXCEPT ![q] = w.members[q]]
    BY DEF World
  <2>2. QED
    BY <1>3, <1>4, <2>1 DEF Departed, World
<1>6. \A a \in Address : Companions(d, a) = Companions(w, a)
  BY <1>5 DEF Companions
<1>7. Disbanded(d, v, {q})
  BY <1>5, DisbandFields
<1> HIDE DEF v
<1>8. Dissolved(w, v, {q})
  <2>1. ASSUME NEW x \in Player
        PROVE  v.party[x] = IF w.party[x] \in {q} THEN NoParty ELSE w.party[x]
    <3>1. x \in Companions(d, q) <=> w.party[x] = q
      BY <1>1, <1>6
    <3>2. d.party[x] = IF x = p THEN NoParty ELSE w.party[x]
      BY <1>5 DEF World
    <3>3. QED
      BY <3>1, <3>2, <1>2, <1>7 DEF Disbanded
  <2>2. ASSUME NEW x \in Player
        PROVE  v.invitations[x] = w.invitations[x] \ {q}
    <3>1. q \in w.invitations[x] <=> x \in w.invitees[q]
      BY DEF Good, Agreed, Invited
    <3>2. QED
      BY <3>1, <1>5, <1>7 DEF Disbanded
  <2>3. Emptied(w, v, {q})
    <3>1. ASSUME NEW a \in Address
          PROVE  /\ v.leader[a] = IF a \in {q} THEN Nobody ELSE w.leader[a]
                 /\ v.members[a] = IF a \in {q} THEN <<>> ELSE w.members[a]
                 /\ v.invitees[a] = IF a \in {q} THEN {} ELSE w.invitees[a]
                 /\ v.ticks[a] = IF a \in {q} THEN {} ELSE w.ticks[a]
                 /\ v.active[a] = IF a \in {q} THEN FALSE ELSE w.active[a]
                 /\ v.enabled[a] = IF a \in {q} THEN FALSE ELSE w.enabled[a]
      BY <1>5, <1>7 DEF Emptied, Disbanded
    <3>2. QED
      BY <3>1 DEF Emptied
  <2>4. QED
    BY <2>1, <2>2, <2>3, <1>5, <1>7 DEF Dissolved, Disbanded
<1>9. Good(v) /\ Shrunk(w, v)
  BY <1>8, DissolvedGood DEF Good, Shrunk
<1>10. /\ v.party[p] = NoParty
       /\ \A a \in Address \ {q} : v.leader[a] = w.leader[a]
  BY <1>2, <1>8 DEF Dissolved, Emptied
<1>11. QED
  BY <1>9, <1>10 DEF v, d, Left

(* Player::leaveParty: whoever leaves its party is out of it, the party is   *)
(* left good or is gone, and it goes only if there were at most two players. *)
LEMMA LeaveGood ==
  ASSUME NEW w \in World, NEW p \in Player, NEW q \in Address, NEW fit \in BOOLEAN,
         Good(w), w.party[p] = q
  PROVE  LET v == LeaveParty(w, p, q, fit)
         IN  Left(w, v, p, q) /\ Survives(w, v)
<1> DEFINE leads == w.leader[q] = p
           missingLeader == leads /\ ( \/ w.members[q] = <<>>
                                       \/ Len(w.members[q]) = 1 /\ w.invitees[q] = {} )
           h == Head(w.members[q])
           w1 == PassPartyLeadership(w, h, q, fit)
           v == LeaveParty(w, p, q, fit)
<1>1. /\ Companions(w, q) = {x \in Player : w.party[x] = q}
      /\ w.leader[q] \notin ToSet(w.members[q])
      /\ w.members[q] \in Seq(Player)
      /\ \A a \in Address : w.leader[a] = Nobody => w.members[a] = <<>>
  BY DEF Good, Agreed, Membership, World
<1>2. p \in Companions(w, q)
  BY <1>1
<1>3. Len(w.members[q]) = 1 /\ w.invitees[q] = {} => ~(Cardinality(Crowd(w, q)) > 2)
  BY SmallCrowd
<1>4. CASE missingLeader
  <2> DEFINE u == Disband(Depart(w, p, q, fit), {q})
  <2>1. v = u
    BY <1>4 DEF LeaveParty, Depart
  <2>2. Left(w, u, p, q)
    BY <1>4, LastLeaderLeaves
  <2> HIDE DEF u, v
  <2>3. w.members[q] = <<>> \/ ~(Cardinality(Crowd(w, q)) > 2)
    BY <1>3, <1>4
  <2>4. Survives(w, u)
    BY <1>1, <2>2, <2>3 DEF Survives, Left
  <2>5. QED
    BY <2>1, <2>2, <2>4 DEF v
<1>5. CASE leads /\ ~missingLeader
  <2> DEFINE u == MemberLeave(w1, p, q, fit)
  <2>1. v = u
    BY <1>5 DEF LeaveParty, Depart, MemberLeave
  <2>2. w.members[q] # <<>> /\ h \in ToSet(w.members[q])
    <3>1. w.members[q] # <<>>
      BY <1>5
    <3>2. 1 \in DOMAIN w.members[q] /\ h = w.members[q][1]
      BY <1>1, <3>1
    <3>3. QED
      BY <3>1, <3>2 DEF ToSet
  <2>3. Passed(w, w1, h, q)
    BY <2>2, PassGood
  <2> HIDE DEF w1, h
  <2>4. w1 \in World /\ p \in ToSet(w1.members[q])
    BY <1>5, <2>3 DEF Passed, Good, Agreed
  <2>5. LeftByMember(w1, u, p, q)
    BY <2>3, <2>4, MemberLeaves DEF Passed
  <2> HIDE DEF u, v
  <2>6. h # Nobody
    BY <1>1, <2>2, PartyAssumption DEF ToSet
  <2>7. u.leader[q] # Nobody
    BY <1>5, <2>3, <2>5, <2>6 DEF World, Passed, LeftByMember
  <2>8. \A a \in Address \ {q} : u.leader[a] = w.leader[a]
    BY <2>3, <2>5 DEF Left, World, Passed, LeftByMember
  <2>9. Survives(w, u)
    BY <1>1, <2>7, <2>8 DEF Survives
  <2>10. Left(w, u, p, q)
    BY <2>3, <2>5, <2>8 DEF Left, Shrunk, Passed, LeftByMember
  <2>11. QED
    BY <2>1, <2>9, <2>10 DEF v
<1>6. CASE ~leads
  <2> DEFINE u == MemberLeave(w, p, q, fit)
  <2>1. v = u
    BY <1>6 DEF LeaveParty, Depart, MemberLeave
  <2>2. p \in ToSet(w.members[q])
    BY <1>2, <1>6 DEF Companions
  <2>3. LeftByMember(w, u, p, q)
    BY <2>2, MemberLeaves
  <2> HIDE DEF u, v
  <2>4. Survives(w, u)
    BY <1>1, <1>3, <2>3 DEF Survives, Left, LeftByMember
  <2>5. QED
    BY <2>1, <2>3, <2>4 DEF v, LeftByMember
<1>7. QED
  BY <1>4, <1>5, <1>6

(* A party that has a leader still has one.                                  *)
LeadersStay(w, v) == \A a \in Address : w.leader[a] # Nobody => v.leader[a] # Nobody

(* Where no leader goes, the parties that must survive do.                   *)
LEMMA StaySurvives ==
  ASSUME NEW w, NEW v, Good(w), LeadersStay(w, v)
  PROVE  Survives(w, v)
BY DEF Survives, LeadersStay, Good, Agreed, Membership

(* Only the record of who fought and what follows from it has changed.       *)
LEMMA SharingGood ==
  ASSUME NEW w \in World, NEW v \in World, SameParties(w, v), Good(w),
         \A a \in Address : v.ticks[a] \subseteq Companions(w, a) /\ SharesWell(v, a),
         \A a \in Address : v.users[a] \subseteq w.users[a]
  PROVE  Good(v) /\ Shrunk(w, v) /\ LeadersStay(w, v)
<1>1. \A a \in Address : Companions(v, a) = Companions(w, a)
  BY DEF SameParties, Companions
<1>2. Membership(v)
  BY <1>1 DEF Good, Agreed, Membership, SameParties
<1>3. Invited(v)
  BY <1>1 DEF Good, Agreed, Invited, SameParties
<1>4. Fought(v)
  BY <1>1 DEF Fought
<1>5. \A a \in Address : Accompanied(v, a)
  BY DEF Good, Accompanied, IsEmpty, SameParties
<1>6. Shrunk(w, v) /\ LeadersStay(w, v)
  BY <1>1 DEF Shrunk, LeadersStay, SameParties
<1>7. QED
  BY <1>2, <1>3, <1>4, <1>5, <1>6 DEF Good, Agreed

(* A move or a new level changes nothing but the flag.                       *)
LEMMA UpdateKeeps ==
  ASSUME NEW w \in World, NEW q \in Address, NEW fit \in BOOLEAN, Good(w)
  PROVE  LET v == UpdateSharedExperience(w, q, fit)
         IN  Good(v) /\ Shrunk(w, v) /\ LeadersStay(w, v)
<1> DEFINE v == UpdateSharedExperience(w, q, fit)
<1>1. /\ v \in World
      /\ SameParties(w, v)
      /\ v.ticks = w.ticks
      /\ v.active = w.active
      /\ v.users = w.users
      /\ \A a \in Address \ {q} : v.enabled[a] = w.enabled[a]
      /\ v.active[q] /\ v.enabled[q] => CanEnableSharedExperience(w, q, TRUE)
  BY UpdateFields DEF Updated
<1>2. \A a \in Address : SharesWell(v, a)
  BY UpdateGood DEF Good
<1> HIDE DEF v
<1>3. \A a \in Address : v.ticks[a] \subseteq Companions(w, a)
  BY <1>1 DEF Good, Agreed, Fought
<1>4. Good(v) /\ Shrunk(w, v) /\ LeadersStay(w, v)
  BY <1>1, <1>2, <1>3, SharingGood
<1>5. QED
  BY <1>4 DEF v

(* Party::updatePlayerTicks: a fight is recorded for a companion.            *)
LEMMA TicksGood ==
  ASSUME NEW w \in World, NEW p \in Player, NEW q \in Address, NEW fit \in BOOLEAN,
         Good(w), w.party[p] = q
  PROVE  LET v == UpdatePlayerTicks(w, p, q, fit)
         IN  Good(v) /\ Shrunk(w, v) /\ LeadersStay(w, v)
<1> DEFINE u == [w EXCEPT !.ticks[q] = @ \cup {p}]
           u1 == UpdateSharedExperience(u, q, fit)
           v == UpdatePlayerTicks(w, p, q, fit)
<1>1. CASE p \in Exempt
  <2>1. v = w
    BY <1>1 DEF UpdatePlayerTicks
  <2>2. QED
    BY <2>1 DEF Shrunk, LeadersStay
<1>2. CASE p \notin Exempt
  <2>1. v = u1
    BY <1>2 DEF UpdatePlayerTicks
  <2>2. /\ u \in World
        /\ SameParties(w, u)
        /\ u.users = w.users
        /\ u.active = w.active
        /\ u.enabled = w.enabled
        /\ u.ticks = [w.ticks EXCEPT ![q] = @ \cup {p}]
    BY DEF World, SameParties
  <2> HIDE DEF u
  <2>3. Updated(u, u1, q)
    BY <2>2, UpdateFields
  <2> HIDE DEF u1
  <2>4. SameParties(w, u1) /\ u1.users = w.users
    BY <2>2, <2>3 DEF SameParties, Updated
  <2>5. p \in Companions(w, q)
    BY DEF Good, Agreed, Membership
  <2>6. ASSUME NEW a \in Address
        PROVE  u1.ticks[a] \subseteq Companions(w, a)
    <3>1. w.ticks[a] \subseteq Companions(w, a)
      BY DEF Good, Agreed, Fought
    <3>2. u1.ticks = [w.ticks EXCEPT ![q] = @ \cup {p}]
      BY <2>2, <2>3 DEF Updated
    <3>3. w.ticks \in [Address -> SUBSET Player]
      BY DEF World
    <3>4. u1.ticks[a] = IF a = q THEN w.ticks[a] \cup {p} ELSE w.ticks[a]
      BY <3>2, <3>3
    <3>5. QED
      BY <2>5, <3>1, <3>4
  <2>7. SharesWell(u1, q)
    <3>1. CanEnableSharedExperience(u1, q, TRUE) = CanEnableSharedExperience(u, q, TRUE)
      BY <2>3, CanFields DEF SameParties, Updated
    <3>2. QED
      BY <2>3, <3>1 DEF SharesWell, Updated
  <2>8. ASSUME NEW a \in Address \ {q}
        PROVE  SharesWell(u1, a)
    <3>1. /\ u1.ticks[a] = w.ticks[a] /\ u1.active[a] = w.active[a]
          /\ u1.enabled[a] = w.enabled[a]
      BY <2>2, <2>3 DEF World, Updated
    <3>2. CanEnableSharedExperience(u1, a, TRUE) = CanEnableSharedExperience(w, a, TRUE)
      BY <2>4, <3>1, CanFields DEF SameParties
    <3>3. SharesWell(w, a)
      BY DEF Good
    <3>4. QED
      BY <3>1, <3>2, <3>3 DEF SharesWell
  <2>9. Good(u1) /\ Shrunk(w, u1) /\ LeadersStay(w, u1)
    BY <2>3, <2>4, <2>6, <2>7, <2>8, SharingGood DEF Updated
  <2>10. QED
    BY <2>1, <2>9
<1>3. QED
  BY <1>1, <1>2

(* Party::setSharedExperience: the leader switches sharing.                  *)
LEMMA SetSharedGood ==
  ASSUME NEW w \in World, NEW p \in Player, NEW q \in Address, NEW on \in BOOLEAN,
         NEW fit \in BOOLEAN, Good(w)
  PROVE  LET v == SetSharedExperience(w, p, q, on, fit)
         IN  Good(v) /\ Shrunk(w, v) /\ LeadersStay(w, v)
<1> DEFINE can == CanEnableSharedExperience(w, q, fit)
           e == IF on THEN can ELSE w.enabled[q]
           u == [w EXCEPT !.active[q] = on, !.enabled[q] = e]
           v == SetSharedExperience(w, p, q, on, fit)
<1>1. CASE w.leader[q] # p \/ w.active[q] = on
  <2>1. v = w
    BY <1>1 DEF SetSharedExperience
  <2>2. QED
    BY <2>1 DEF Shrunk, LeadersStay
<1>2. CASE ~(w.leader[q] # p \/ w.active[q] = on)
  <2>1. v = u
    BY <1>2 DEF SetSharedExperience
  <2>2. can \in BOOLEAN /\ (can => CanEnableSharedExperience(w, q, TRUE))
    BY DEF CanEnableSharedExperience
  <2>3. e \in BOOLEAN
    BY <2>2 DEF World
  <2> HIDE DEF can, e
  <2>4. /\ u \in World
        /\ SameParties(w, u)
        /\ u.users = w.users
        /\ u.ticks = w.ticks
        /\ u.active = [w.active EXCEPT ![q] = on]
        /\ u.enabled = [w.enabled EXCEPT ![q] = e]
    BY <2>3 DEF World, SameParties
  <2> HIDE DEF u
  <2>5. \A a \in Address :
          CanEnableSharedExperience(u, a, TRUE) = CanEnableSharedExperience(w, a, TRUE)
    BY <2>4, CanFields DEF SameParties
  <2>6. /\ u.active[q] = on /\ u.enabled[q] = e
        /\ \A a \in Address \ {q} :
             u.active[a] = w.active[a] /\ u.enabled[a] = w.enabled[a]
    BY <2>4 DEF World
  <2>7. SharesWell(u, q)
    BY <2>2, <2>5, <2>6 DEF SharesWell, e
  <2>8. ASSUME NEW a \in Address \ {q}
        PROVE  SharesWell(u, a)
    <3>1. SharesWell(w, a)
      BY DEF Good
    <3>2. QED
      BY <2>5, <2>6, <3>1 DEF SharesWell
  <2>9. \A a \in Address : u.ticks[a] \subseteq Companions(w, a)
    BY <2>4 DEF Good, Agreed, Fought
  <2>10. Good(u) /\ Shrunk(w, u) /\ LeadersStay(w, u)
    BY <2>4, <2>7, <2>8, <2>9, SharingGood
  <2>11. QED
    BY <2>1, <2>10
<1>3. QED
  BY <1>1, <1>2

(* Party::joinParty: the invitee becomes the last member.                    *)
LEMMA JoinGood ==
  ASSUME NEW w \in World, NEW p \in Player, NEW q \in Address, NEW fit \in BOOLEAN,
         Good(w), p \in w.invitees[q], w.party[p] = NoParty
  PROVE  LET v == JoinParty(w, p, q, fit)
         IN  /\ Good(v)
             /\ LeadersStay(w, v)
             /\ \A a \in Address : Companions(v, a) \subseteq Companions(w, a) \cup {p}
             /\ \A a \in Address : v.invitees[a] \subseteq w.invitees[a]
             /\ v.users = w.users
<1> DEFINE members == Append(w.members[q], p)
           u == [w EXCEPT !.invitees[q] = @ \ {p}, !.party[p] = q,
                          !.members[q] = members, !.invitations[p] = @ \ {q}]
           v == UpdateSharedExperience(u, q, fit)
<1>1. JoinParty(w, p, q, fit) = v
  BY DEF JoinParty
<1>2. /\ Companions(w, q) = {x \in Player : w.party[x] = q}
      /\ w.leader[q] \notin ToSet(w.members[q])
      /\ IsInjective(w.members[q])
      /\ w.leader[q] # Nobody
      /\ p \notin Companions(w, q)
  BY DEF Good, Agreed, Membership, Invited
<1>3. /\ p \notin ToSet(w.members[q])
      /\ w.leader[q] # p
  BY <1>2, PartyAssumption DEF Companions
<1>4. /\ members \in Seq(Player)
      /\ IsInjective(members)
      /\ ToSet(members) = ToSet(w.members[q]) \cup {p}
      /\ members # <<>>
  <2>1. w.members[q] \in Seq(Player)
    BY DEF World
  <2>2. QED
    BY <1>2, <1>3, <2>1, AppendOnce
<1> HIDE DEF members
<1>5. /\ u \in World
      /\ u.party = [w.party EXCEPT ![p] = q]
      /\ u.invitations = [w.invitations EXCEPT ![p] = @ \ {q}]
      /\ u.leader = w.leader
      /\ u.members = [w.members EXCEPT ![q] = members]
      /\ u.invitees = [w.invitees EXCEPT ![q] = @ \ {p}]
      /\ u.ticks = w.ticks
      /\ u.active = w.active
      /\ u.enabled = w.enabled
      /\ u.users = w.users
  BY <1>4 DEF World
<1> HIDE DEF u
<1>6. /\ u.members[q] = members /\ u.invitees[q] = w.invitees[q] \ {p}
      /\ u.party[p] = q /\ u.invitations[p] = w.invitations[p] \ {q}
      /\ \A a \in Address \ {q} : /\ u.members[a] = w.members[a]
                                  /\ u.invitees[a] = w.invitees[a]
      /\ \A x \in Player \ {p} : /\ u.party[x] = w.party[x]
                                 /\ u.invitations[x] = w.invitations[x]
  BY <1>5 DEF World
<1>7. /\ Companions(u, q) = Companions(w, q) \cup {p}
      /\ \A a \in Address \ {q} : Companions(u, a) = Companions(w, a)
  <2>1. Companions(u, q) = Companions(w, q) \cup {p}
    BY <1>4, <1>5, <1>6 DEF Companions
  <2>2. \A a \in Address \ {q} : Companions(u, a) = Companions(w, a)
    BY <1>5, <1>6 DEF Companions
  <2>3. QED
    BY <2>1, <2>2
<1>8. Membership(u)
  <2>1. /\ Companions(u, q) = {x \in Player : u.party[x] = q}
        /\ u.leader[q] \notin ToSet(u.members[q])
        /\ IsInjective(u.members[q])
        /\ u.leader[q] # Nobody
    BY <1>2, <1>3, <1>4, <1>5, <1>6, <1>7
  <2>2. ASSUME NEW a \in Address \ {q}
        PROVE  /\ Companions(u, a) = {x \in Player : u.party[x] = a}
               /\ u.leader[a] \notin ToSet(u.members[a])
               /\ IsInjective(u.members[a])
               /\ u.leader[a] = Nobody => u.members[a] = <<>>
    <3>1. \A x \in Player : u.party[x] = a <=> w.party[x] = a
      BY <1>6, PartyAssumption
    <3>2. QED
      BY <3>1, <1>5, <1>6, <1>7 DEF Good, Agreed, Membership
  <2>3. QED
    BY <2>1, <2>2 DEF Membership
<1>9. Invited(u)
  <2>1. ASSUME NEW x \in Player
        PROVE  /\ q \in u.invitations[x] <=> x \in u.invitees[q]
               /\ x \in u.invitees[q] => u.leader[q] # Nobody /\ x \notin Companions(u, q)
    <3>1. /\ q \in w.invitations[x] <=> x \in w.invitees[q]
          /\ x \in w.invitees[q] => x \notin Companions(w, q)
      BY DEF Good, Agreed, Invited
    <3>2. CASE x = p
      BY <3>2, <1>6
    <3>3. CASE x # p
      BY <3>1, <3>3, <1>2, <1>5, <1>6, <1>7
    <3>4. QED
      BY <3>2, <3>3
  <2>2. ASSUME NEW a \in Address \ {q}, NEW x \in Player
        PROVE  /\ a \in u.invitations[x] <=> x \in u.invitees[a]
               /\ x \in u.invitees[a] => u.leader[a] # Nobody /\ x \notin Companions(u, a)
    <3>1. /\ a \in w.invitations[x] <=> x \in w.invitees[a]
          /\ x \in w.invitees[a] => w.leader[a] # Nobody /\ x \notin Companions(w, a)
      BY DEF Good, Agreed, Invited
    <3>2. a \in u.invitations[x] <=> a \in w.invitations[x]
      BY <1>6
    <3>3. QED
      BY <3>1, <3>2, <1>5, <1>6, <1>7
  <2>3. QED
    BY <2>1, <2>2 DEF Invited
<1>10. Fought(u)
  BY <1>5, <1>7 DEF Good, Agreed, Fought
<1>11. ASSUME NEW a \in Address \ {q}
       PROVE  SharesWell(u, a)
  <2>1. CanEnableSharedExperience(u, a, TRUE) = CanEnableSharedExperience(w, a, TRUE)
    <3>1. /\ u.members[a] = w.members[a] /\ u.leader[a] = w.leader[a]
          /\ u.ticks[a] = w.ticks[a]
      BY <1>5, <1>6
    <3>2. QED
      BY <3>1, CanFields
  <2>2. SharesWell(w, a)
    BY DEF Good
  <2>3. QED
    BY <1>5, <2>1, <2>2 DEF SharesWell
<1>12. Agreed(v) /\ \A a \in Address : SharesWell(v, a)
  BY <1>5, <1>8, <1>9, <1>10, <1>11, UpdateGood DEF Agreed
<1>13. Updated(u, v, q)
  BY <1>5, UpdateFields
<1> HIDE DEF v
<1>14. /\ v.members = u.members /\ v.leader = u.leader
       /\ v.invitees = u.invitees /\ v.users = u.users
  BY <1>13 DEF Updated, SameParties
<1>15. \A a \in Address : Accompanied(v, a)
  <2>1. Accompanied(v, q)
    BY <1>4, <1>6, <1>14 DEF Accompanied, IsEmpty
  <2>2. ASSUME NEW a \in Address \ {q}
        PROVE  Accompanied(v, a)
    <3>1. Accompanied(w, a)
      BY DEF Good
    <3>2. QED
      BY <3>1, <1>5, <1>6, <1>14 DEF Accompanied, IsEmpty
  <2>3. QED
    BY <2>1, <2>2
<1>16. \A a \in Address : Companions(v, a) \subseteq Companions(w, a) \cup {p}
  <2>1. \A a \in Address : Companions(v, a) = Companions(u, a)
    BY <1>14 DEF Companions
  <2>2. QED
    BY <2>1, <1>7
<1>17. \A a \in Address : v.invitees[a] \subseteq w.invitees[a]
  <2>1. ASSUME NEW a \in Address
        PROVE  v.invitees[a] \subseteq w.invitees[a]
    BY <1>6, <1>14
  <2>2. QED
    BY <2>1
<1>18. LeadersStay(w, v) /\ v.users = w.users
  BY <1>5, <1>14 DEF LeadersStay
<1>19. QED
  BY <1>1, <1>12, <1>15, <1>16, <1>17, <1>18 DEF Good

(* wT is w without the invitations of p to the parties `found`.              *)
Withdrawn(w, wT, p, found) ==
  /\ wT \in World
  /\ wT.party = w.party
  /\ \A x \in Player : wT.invitations[x] = IF x = p THEN w.invitations[x] \ found
                                           ELSE w.invitations[x]
  /\ wT.leader = w.leader
  /\ wT.members = w.members
  /\ \A a \in Address : wT.invitees[a] = IF a \in found THEN w.invitees[a] \ {p}
                                         ELSE w.invitees[a]
  /\ wT.ticks = w.ticks
  /\ wT.active = w.active
  /\ wT.enabled = w.enabled
  /\ wT.users = w.users

(* The parties that a withdrawal leaves empty.                               *)
LeftEmpty(w, found) == {q \in found : IsEmpty(w, q)}

(* Withdrawing invitations on both sides keeps them in agreement.            *)
LEMMA WithdrawnAgreed ==
  ASSUME NEW w \in World, NEW wT, NEW p \in Player, NEW found \in SUBSET Address,
         Good(w), Withdrawn(w, wT, p, found)
  PROVE  /\ Agreed(wT)
         /\ \A a \in Address : SharesWell(wT, a)
         /\ \A a \in Address \ LeftEmpty(wT, found) : Accompanied(wT, a)
<1>1. \A a \in Address : Companions(wT, a) = Companions(w, a)
  BY DEF Withdrawn, Companions
<1>2. Membership(wT)
  BY <1>1 DEF Good, Agreed, Membership, Withdrawn
<1>3. Invited(wT)
  <2>1. ASSUME NEW a \in Address, NEW x \in Player
        PROVE  /\ a \in wT.invitations[x] <=> x \in wT.invitees[a]
               /\ x \in wT.invitees[a] => wT.leader[a] # Nobody /\ x \notin Companions(wT, a)
    <3>1. /\ a \in w.invitations[x] <=> x \in w.invitees[a]
          /\ x \in w.invitees[a] => w.leader[a] # Nobody /\ x \notin Companions(w, a)
      BY DEF Good, Agreed, Invited
    <3>2. a \in wT.invitations[x] <=> a \in w.invitations[x] /\ ~(x = p /\ a \in found)
      BY DEF Withdrawn
    <3>3. x \in wT.invitees[a] <=> x \in w.invitees[a] /\ ~(x = p /\ a \in found)
      BY DEF Withdrawn
    <3>4. wT.leader[a] = w.leader[a]
      BY DEF Withdrawn
    <3>5. QED
      BY <1>1, <3>1, <3>2, <3>3, <3>4
  <2>2. QED
    BY <2>1 DEF Invited
<1>4. Fought(wT)
  BY <1>1 DEF Good, Agreed, Fought, Withdrawn
<1>5. ASSUME NEW a \in Address
      PROVE  SharesWell(wT, a)
  <2>1. CanEnableSharedExperience(wT, a, TRUE) = CanEnableSharedExperience(w, a, TRUE)
    BY CanFields DEF Withdrawn
  <2>2. SharesWell(w, a)
    BY DEF Good
  <2>3. QED
    BY <2>1, <2>2 DEF SharesWell, Withdrawn
<1>6. ASSUME NEW a \in Address \ LeftEmpty(wT, found)
      PROVE  Accompanied(wT, a)
  <2>1. CASE a \in found
    BY <2>1 DEF Accompanied, LeftEmpty
  <2>2. CASE a \notin found
    <3>1. Accompanied(w, a)
      BY DEF Good
    <3>2. QED
      BY <3>1, <2>2 DEF Accompanied, IsEmpty, Withdrawn
  <2>3. QED
    BY <2>1, <2>2
<1>7. wT \in World
  BY DEF Withdrawn
<1>8. QED
  BY <1>2, <1>3, <1>4, <1>5, <1>6, <1>7 DEF Agreed

(* v is what remains of w when also the parties left empty are disbanded.    *)
Cleared(w, v, p, found) ==
  /\ Good(v)
  /\ Shrunk(w, v)
  /\ \A a \in Address : w.members[a] # <<>> => v.leader[a] = w.leader[a]
  /\ v.party[p] = w.party[p] \/ v.party[p] = NoParty
  /\ \A a \in found : p \notin v.invitees[a]
  /\ \A a \in Address \ found : /\ v.leader[a] = w.leader[a]
                                /\ v.members[a] = w.members[a]
                                /\ v.invitees[a] = w.invitees[a]

(* Withdrawing them and disbanding what is left empty is good again.         *)
LEMMA WithdrawnGood ==
  ASSUME NEW w \in World, NEW wT, NEW v, NEW p \in Player,
         NEW found \in SUBSET Address, Good(w), Withdrawn(w, wT, p, found),
         Dissolved(wT, v, LeftEmpty(wT, found))
  PROVE  Cleared(w, v, p, found)
<1>1. /\ Agreed(wT)
      /\ \A a \in Address : SharesWell(wT, a)
      /\ \A a \in Address \ LeftEmpty(wT, found) : Accompanied(wT, a)
  BY WithdrawnAgreed
<1> DEFINE D == LeftEmpty(wT, found)
<1>2. D \in SUBSET Address /\ D \subseteq found
  BY DEF LeftEmpty
<1>3. \A a \in D : w.members[a] = <<>>
  BY DEF IsEmpty, Withdrawn, LeftEmpty
<1>4. Good(v) /\ Shrunk(wT, v)
  BY <1>1, <1>2, DissolvedGood DEF Agreed, Shrunk
<1>5. Shrunk(w, wT)
  BY DEF Shrunk, Withdrawn, Companions
<1>6. Shrunk(w, v)
  BY <1>4, <1>5 DEF Shrunk
<1>7. \A a \in Address : w.members[a] # <<>> => v.leader[a] = w.leader[a]
  BY <1>3 DEF Dissolved, Emptied, Withdrawn
<1>8. v.party[p] = w.party[p] \/ v.party[p] = NoParty
  BY DEF Dissolved, Withdrawn
<1>9. \A a \in found : p \notin v.invitees[a]
  <2>1. ASSUME NEW a \in found
        PROVE  p \notin v.invitees[a]
    <3>1. p \notin wT.invitees[a]
      BY DEF Withdrawn
    <3>2. QED
      BY <1>4, <3>1 DEF Shrunk
  <2>2. QED
    BY <2>1
<1>10. \A a \in Address \ found : /\ v.leader[a] = w.leader[a]
                                  /\ v.members[a] = w.members[a]
                                  /\ v.invitees[a] = w.invitees[a]
  BY <1>2 DEF Dissolved, Emptied, Withdrawn
<1>11. QED
  BY <1>4, <1>6, <1>7, <1>8, <1>9, <1>10 DEF Cleared

(* Party::revokeInvitation, which changes both sides here.                   *)
LEMMA RemoveInvitesGood ==
  ASSUME NEW w \in World, NEW p \in Player, NEW Q \in SUBSET Address, Good(w)
  PROVE  LET v == RemoveInvites(w, p, Q, TRUE)
         IN  /\ Good(v)
             /\ Shrunk(w, v)
             /\ \A a \in Address : w.members[a] # <<>> => v.leader[a] = w.leader[a]
<1> DEFINE found == {q \in Q : p \in w.invitees[q]}
           invitees == [q \in Address |-> IF q \in found THEN w.invitees[q] \ {p}
                                          ELSE w.invitees[q]]
           w1 == [w EXCEPT !.invitees = invitees, !.invitations[p] = @ \ found]
           D == {q \in found : IsEmpty(w1, q)}
           v == RemoveInvites(w, p, Q, TRUE)
<1>1. v = Disband(w1, D)
  BY DEF RemoveInvites
<1>2. /\ invitees \in [Address -> SUBSET Player]
      /\ \A a \in Address : invitees[a] = IF a \in found THEN w.invitees[a] \ {p}
                                          ELSE w.invitees[a]
  BY DEF World
<1>3. found \in SUBSET Address
  OBVIOUS
<1> HIDE DEF found, invitees, v
<1>4. /\ w1 \in World
      /\ w1.party = w.party
      /\ w1.invitations = [w.invitations EXCEPT ![p] = @ \ found]
      /\ w1.leader = w.leader
      /\ w1.members = w.members
      /\ w1.invitees = invitees
      /\ w1.ticks = w.ticks
      /\ w1.active = w.active
      /\ w1.enabled = w.enabled
      /\ w1.users = w.users
  BY <1>2, <1>3 DEF World
<1> HIDE DEF w1
<1>5. Withdrawn(w, w1, p, found)
  <2>1. \A x \in Player : w1.invitations[x] = IF x = p THEN w.invitations[x] \ found
                                              ELSE w.invitations[x]
    BY <1>4 DEF World
  <2>2. QED
    BY <1>2, <1>4, <2>1 DEF Withdrawn
<1>6. Dissolved(w1, v, D)
  <2>1. Agreed(w1)
    BY <1>3, <1>5, WithdrawnAgreed
  <2>2. D \in SUBSET Address
    BY <1>3
  <2>3. QED
    BY <1>1, <1>4, <2>1, <2>2, DisbandDissolves DEF Agreed
<1>7. /\ Good(v)
      /\ Shrunk(w, v)
      /\ \A a \in Address : w.members[a] # <<>> => v.leader[a] = w.leader[a]
  <2>1. D = LeftEmpty(w1, found)
    BY DEF LeftEmpty
  <2>2. Cleared(w, v, p, found)
    BY <1>3, <1>5, <1>6, <2>1, WithdrawnGood
  <2>3. QED
    BY <2>2 DEF Cleared
<1>8. QED
  BY <1>7 DEF v

(* Player::clearPartyInvitations, which forgets the player's own list after  *)
(* the parties have been told.                                               *)
LEMMA ClearInvitationsGood ==
  ASSUME NEW w \in World, NEW p \in Player, Good(w)
  PROVE  LET v == [RemoveInvites(w, p, w.invitations[p], FALSE)
                     EXCEPT !.invitations[p] = {}]
         IN  Cleared(w, v, p, {a \in Address : p \in w.invitees[a]})
<1> DEFINE Q == w.invitations[p]
           found == {q \in Q : p \in w.invitees[q]}
           invitees == [q \in Address |-> IF q \in found THEN w.invitees[q] \ {p}
                                          ELSE w.invitees[q]]
           w1 == [w EXCEPT !.invitees = invitees, !.invitations[p] = Q]
           D == {q \in found : IsEmpty(w1, q)}
           v1 == Disband(w1, D)
           v == [v1 EXCEPT !.invitations[p] = {}]
           wT == [w1 EXCEPT !.invitations[p] = {}]
           DT == {q \in found : IsEmpty(wT, q)}
<1>1. RemoveInvites(w, p, Q, FALSE) = v1
  BY DEF RemoveInvites
<1>2. Q \in SUBSET Address /\ found = Q
  BY DEF World, Good, Agreed, Invited
<1>3. /\ invitees \in [Address -> SUBSET Player]
      /\ \A a \in Address : invitees[a] = IF a \in found THEN w.invitees[a] \ {p}
                                          ELSE w.invitees[a]
  BY DEF World
<1>4. \A a \in Address : p \in w.invitees[a] => a \in found
  BY DEF Good, Agreed, Invited
<1> HIDE DEF found, invitees, Q
<1>5. /\ w1 \in World
      /\ w1.party = w.party
      /\ w1.invitations = [w.invitations EXCEPT ![p] = Q]
      /\ w1.leader = w.leader
      /\ w1.members = w.members
      /\ w1.invitees = invitees
      /\ w1.ticks = w.ticks
      /\ w1.active = w.active
      /\ w1.enabled = w.enabled
      /\ w1.users = w.users
  BY <1>2, <1>3 DEF World
<1> HIDE DEF w1
<1>6. /\ wT \in World
      /\ wT.party = w.party
      /\ wT.invitations = [w.invitations EXCEPT ![p] = {}]
      /\ wT.leader = w.leader
      /\ wT.members = w.members
      /\ wT.invitees = invitees
      /\ wT.ticks = w.ticks
      /\ wT.active = w.active
      /\ wT.enabled = w.enabled
      /\ wT.users = w.users
  BY <1>5 DEF World
<1>7. Disbanded(w1, v1, D)
  <2>1. D \in SUBSET Address
    BY <1>2
  <2>2. QED
    BY <1>5, <2>1, DisbandFields
<1>8. D = DT
  BY <1>5, <1>6 DEF IsEmpty
<1> HIDE DEF wT, v1, D, DT
<1>9. Withdrawn(w, wT, p, found)
  <2>1. \A x \in Player : wT.invitations[x] = IF x = p THEN w.invitations[x] \ found
                                              ELSE w.invitations[x]
    BY <1>2, <1>6 DEF World, Q
  <2>2. QED
    BY <1>3, <1>6, <2>1 DEF Withdrawn
<1>10. /\ v \in World
       /\ v.party = v1.party
       /\ v.invitations = [v1.invitations EXCEPT ![p] = {}]
       /\ v.leader = v1.leader
       /\ v.members = v1.members
       /\ v.invitees = v1.invitees
       /\ v.ticks = v1.ticks
       /\ v.active = v1.active
       /\ v.enabled = v1.enabled
       /\ v.users = v1.users
  <2>1. v1 \in World
    BY <1>7 DEF Disbanded
  <2>2. QED
    BY <2>1 DEF World
<1> HIDE DEF v
<1>11. Dissolved(wT, v, DT)
  <2>1. Agreed(wT)
    BY <1>2, <1>9, WithdrawnAgreed
  <2>2. ASSUME NEW x \in Player
        PROVE  v.party[x] = IF wT.party[x] \in DT THEN NoParty ELSE wT.party[x]
    <3>1. \A q \in Address : x \in Companions(w1, q) <=> wT.party[x] = q
      <4>1. \A q \in Address : Companions(w1, q) = Companions(wT, q)
        BY <1>5, <1>6 DEF Companions
      <4>2. QED
        BY <2>1, <4>1 DEF Agreed, Membership
    <3>2. DT \subseteq Address
      BY <1>2 DEF DT
    <3>3. (\E q \in DT : x \in Companions(w1, q)) <=> wT.party[x] \in DT
      BY <3>1, <3>2
    <3>4. v1.party[x] = IF \E q \in DT : x \in Companions(w1, q)
                        THEN NoParty ELSE w1.party[x]
      BY <1>7, <1>8 DEF Disbanded
    <3>5. QED
      BY <3>3, <3>4, <1>5, <1>6, <1>10
  <2>3. ASSUME NEW x \in Player
        PROVE  v.invitations[x] = wT.invitations[x] \ DT
    <3>1. v1.invitations \in [Player -> SUBSET Address]
      BY <1>7 DEF Disbanded, World
    <3>2. w.invitations \in [Player -> SUBSET Address]
      BY DEF World
    <3>3. CASE x = p
      BY <3>1, <3>2, <3>3, <1>6, <1>10
    <3>4. CASE x # p
      <4>1. v.invitations[x] = v1.invitations[x]
        BY <3>1, <3>4, <1>10
      <4>2. v1.invitations[x] = w1.invitations[x] \ {q \in DT : x \in w1.invitees[q]}
        BY <1>7, <1>8 DEF Disbanded
      <4>3. wT.invitations[x] = w.invitations[x] /\ w1.invitations[x] = w.invitations[x]
        BY <3>2, <3>4, <1>5, <1>6
      <4>4. \A q \in DT : q \in wT.invitations[x] <=> x \in w1.invitees[q]
        <5>1. DT \subseteq Address
          BY <1>2 DEF DT
        <5>2. QED
          BY <5>1, <2>1, <1>5, <1>6 DEF Agreed, Invited
      <4>5. QED
        BY <4>1, <4>2, <4>3, <4>4
    <3>5. QED
      BY <3>3, <3>4
  <2>4. Emptied(wT, v, DT)
    <3>1. Emptied(w1, v1, DT)
      BY <1>7, <1>8 DEF Disbanded
    <3>2. /\ wT.leader = w1.leader
          /\ wT.members = w1.members
          /\ wT.invitees = w1.invitees
          /\ wT.ticks = w1.ticks
          /\ wT.active = w1.active
          /\ wT.enabled = w1.enabled
      BY <1>5, <1>6
    <3>3. Emptied(wT, v1, DT)
      BY <3>1, <3>2 DEF Emptied
    <3>4. QED
      BY <3>3, <1>10 DEF Emptied
  <2>5. \A a \in Address : v.users[a] \subseteq wT.users[a]
    BY <1>5, <1>6, <1>7, <1>10 DEF Disbanded
  <2>6. QED
    BY <1>10, <2>2, <2>3, <2>4, <2>5 DEF Dissolved
<1>12. Cleared(w, v, p, found)
  <2>1. DT = LeftEmpty(wT, found)
    BY DEF DT, LeftEmpty
  <2>2. QED
    BY <1>2, <1>9, <1>11, <2>1, WithdrawnGood
<1>13. found = {a \in Address : p \in w.invitees[a]}
  BY <1>2, <1>4 DEF found
<1>14. QED
  BY <1>1, <1>12, <1>13 DEF v, Q

(* v is w with x, and nobody else, among the invitees of q.                  *)
Invites(w, v, x, q) ==
  /\ Good(v)
  /\ v.leader = w.leader
  /\ \A a \in Address : Companions(v, a) = Companions(w, a)
  /\ \A a \in Address : v.invitees[a] \subseteq w.invitees[a] \cup {x}
  /\ v.users = w.users

(* Party::invitePlayer: an invitation ends a leader's loneliness.            *)
LEMMA InviteGood ==
  ASSUME NEW w \in World, NEW x \in Player, NEW q \in Address,
         Agreed(w), \A a \in Address : SharesWell(w, a),
         \A a \in Address \ {q} : Accompanied(w, a),
         w.leader[q] # Nobody, x \notin Companions(w, q)
  PROVE  Invites(w, InviteToParty(w, x, q), x, q)
<1> DEFINE u == [w EXCEPT !.invitees[q] = @ \cup {x}, !.invitations[x] = @ \cup {q}]
           v == InviteToParty(w, x, q)
<1>1. CASE x \in w.invitees[q]
  <2>1. v = w
    BY <1>1 DEF InviteToParty
  <2>2. Accompanied(w, q)
    BY <1>1 DEF Accompanied, IsEmpty
  <2>3. QED
    BY <2>1, <2>2 DEF Invites, Good
<1>2. CASE x \notin w.invitees[q]
  <2>1. v = u
    BY <1>2 DEF InviteToParty
  <2>2. /\ u \in World
        /\ u.party = w.party
        /\ u.invitations = [w.invitations EXCEPT ![x] = @ \cup {q}]
        /\ u.leader = w.leader
        /\ u.members = w.members
        /\ u.invitees = [w.invitees EXCEPT ![q] = @ \cup {x}]
        /\ u.ticks = w.ticks
        /\ u.active = w.active
        /\ u.enabled = w.enabled
        /\ u.users = w.users
    BY DEF World
  <2> HIDE DEF u
  <2>3. /\ u.invitees[q] = w.invitees[q] \cup {x}
        /\ u.invitations[x] = w.invitations[x] \cup {q}
        /\ \A a \in Address \ {q} : u.invitees[a] = w.invitees[a]
        /\ \A y \in Player \ {x} : u.invitations[y] = w.invitations[y]
    BY <2>2 DEF World
  <2>4. \A a \in Address : Companions(u, a) = Companions(w, a)
    BY <2>2 DEF Companions
  <2>5. Membership(u)
    BY <2>2, <2>4 DEF Agreed, Membership
  <2>6. Invited(u)
    <3>1. ASSUME NEW a \in Address, NEW y \in Player
          PROVE  /\ a \in u.invitations[y] <=> y \in u.invitees[a]
                 /\ y \in u.invitees[a] => u.leader[a] # Nobody /\ y \notin Companions(u, a)
      <4>1. /\ a \in w.invitations[y] <=> y \in w.invitees[a]
            /\ y \in w.invitees[a] => w.leader[a] # Nobody /\ y \notin Companions(w, a)
        BY DEF Agreed, Invited
      <4>2. a \in u.invitations[y] <=> a \in w.invitations[y] \/ (y = x /\ a = q)
        <5>1. CASE y = x
          BY <5>1, <2>3
        <5>2. CASE y # x
          BY <5>2, <2>3
        <5>3. QED
          BY <5>1, <5>2
      <4>3. y \in u.invitees[a] <=> y \in w.invitees[a] \/ (y = x /\ a = q)
        <5>1. CASE a = q
          BY <5>1, <2>3
        <5>2. CASE a # q
          BY <5>2, <2>3
        <5>3. QED
          BY <5>1, <5>2
      <4>4. u.leader[a] = w.leader[a] /\ Companions(u, a) = Companions(w, a)
        BY <2>2, <2>4
      <4>5. QED
        BY <4>1, <4>2, <4>3, <4>4
    <3>2. QED
      BY <3>1 DEF Invited
  <2>7. Fought(u)
    BY <2>2, <2>4 DEF Agreed, Fought
  <2>8. ASSUME NEW a \in Address
        PROVE  SharesWell(u, a) /\ Accompanied(u, a)
    <3>1. CanEnableSharedExperience(u, a, TRUE) = CanEnableSharedExperience(w, a, TRUE)
      <4>1. /\ u.members[a] = w.members[a] /\ u.leader[a] = w.leader[a]
            /\ u.ticks[a] = w.ticks[a]
        BY <2>2
      <4>2. QED
        BY <4>1, CanFields
    <3>2. SharesWell(u, a)
      BY <2>2, <3>1 DEF SharesWell
    <3>3. CASE a = q
      BY <2>3, <3>2, <3>3 DEF Accompanied, IsEmpty
    <3>4. CASE a # q
      <4>1. Accompanied(w, a)
        BY <3>4
      <4>2. QED
        BY <2>2, <2>3, <3>2, <3>4, <4>1 DEF Accompanied, IsEmpty
    <3>5. QED
      BY <3>3, <3>4
  <2>9. \A a \in Address : u.invitees[a] \subseteq w.invitees[a] \cup {x}
    <3>1. ASSUME NEW a \in Address
          PROVE  u.invitees[a] \subseteq w.invitees[a] \cup {x}
      BY <2>3
    <3>2. QED
      BY <3>1
  <2>10. QED
    BY <2>1, <2>2, <2>4, <2>5, <2>6, <2>7, <2>8, <2>9 DEF Invites, Good, Agreed
<1>3. QED
  BY <1>1, <1>2

(* A new party has its leader and is, until its first invitation, lonely.    *)
LEMMA NewPartyAgreed ==
  ASSUME NEW w \in World, NEW p \in Player, NEW q \in Address, Good(w),
         w.leader[q] = Nobody, w.party[p] = NoParty
  PROVE  LET v == NewParty(w, p, q)
         IN  /\ Agreed(v)
             /\ \A a \in Address : SharesWell(v, a)
             /\ \A a \in Address \ {q} : Accompanied(v, a)
             /\ v.leader[q] = p
             /\ \A a \in Address \ {q} : v.leader[a] = w.leader[a]
             /\ Companions(v, q) = {p}
             /\ \A a \in Address \ {q} : Companions(v, a) = Companions(w, a)
             /\ v.invitees = w.invitees
             /\ v.users = w.users
<1> DEFINE v == NewParty(w, p, q)
<1>1. /\ w.members[q] = <<>>
      /\ {y \in Player : w.party[y] = q} = {}
  <2>1. w.members[q] = <<>>
    BY DEF Good, Agreed, Membership
  <2>2. ToSet(<<>>) = {}
    BY DEF ToSet
  <2>3. Companions(w, q) = {}
    BY <2>1, <2>2 DEF Companions
  <2>4. QED
    BY <2>1, <2>3 DEF Good, Agreed, Membership
<1>2. /\ v \in World
      /\ v.party = [w.party EXCEPT ![p] = q]
      /\ v.invitations = w.invitations
      /\ v.leader = [w.leader EXCEPT ![q] = p]
      /\ v.members = w.members
      /\ v.invitees = w.invitees
      /\ v.ticks = w.ticks
      /\ v.active = w.active
      /\ v.enabled = w.enabled
      /\ v.users = w.users
  BY DEF NewParty, World
<1> HIDE DEF v
<1>3. /\ v.leader[q] = p /\ v.party[p] = q
      /\ \A a \in Address \ {q} : v.leader[a] = w.leader[a]
      /\ \A y \in Player \ {p} : v.party[y] = w.party[y]
  BY <1>2 DEF World
<1>4. Companions(v, q) = {p} /\ v.leader[q] \notin ToSet(v.members[q])
  <2>1. ToSet(<<>>) = {}
    BY DEF ToSet
  <2>2. QED
    BY <2>1, <1>1, <1>2, <1>3, PartyAssumption DEF Companions
<1>5. \A a \in Address \ {q} : Companions(v, a) = Companions(w, a)
  BY <1>2, <1>3 DEF Companions
<1>6. Membership(v)
  <2>1. /\ Companions(v, q) = {y \in Player : v.party[y] = q}
        /\ IsInjective(v.members[q])
        /\ v.leader[q] # Nobody
    <3>1. IsInjective(v.members[q])
      BY <1>2 DEF Good, Agreed, Membership
    <3>2. QED
      BY <3>1, <1>1, <1>3, <1>4, PartyAssumption
  <2>2. ASSUME NEW a \in Address \ {q}
        PROVE  /\ Companions(v, a) = {y \in Player : v.party[y] = a}
               /\ v.leader[a] \notin ToSet(v.members[a])
               /\ IsInjective(v.members[a])
               /\ v.leader[a] = Nobody => v.members[a] = <<>>
    <3>1. \A y \in Player : v.party[y] = a <=> w.party[y] = a
      BY <1>3, PartyAssumption
    <3>2. QED
      BY <3>1, <1>2, <1>3, <1>5 DEF Good, Agreed, Membership
  <2>3. QED
    BY <1>4, <2>1, <2>2 DEF Membership
<1>7. Invited(v)
  <2>1. ASSUME NEW a \in Address, NEW y \in Player
        PROVE  /\ a \in v.invitations[y] <=> y \in v.invitees[a]
               /\ y \in v.invitees[a] => v.leader[a] # Nobody /\ y \notin Companions(v, a)
    <3>1. /\ a \in w.invitations[y] <=> y \in w.invitees[a]
          /\ y \in w.invitees[a] => w.leader[a] # Nobody /\ y \notin Companions(w, a)
      BY DEF Good, Agreed, Invited
    <3>2. CASE a = q
      BY <1>2, <3>1, <3>2
    <3>3. CASE a # q
      BY <1>2, <1>3, <1>5, <3>1, <3>3
    <3>4. QED
      BY <3>2, <3>3
  <2>2. QED
    BY <2>1 DEF Invited
<1>8. Fought(v)
  <2>1. w.ticks[q] = {}
    <3>1. Companions(w, q) = {}
      BY <1>1 DEF Good, Agreed, Membership
    <3>2. QED
      BY <3>1 DEF Good, Agreed, Fought
  <2>2. QED
    BY <2>1, <1>2, <1>5 DEF Good, Agreed, Fought
<1>9. ASSUME NEW a \in Address
      PROVE  SharesWell(v, a)
  <2>1. SharesWell(w, a)
    BY DEF Good
  <2>2. CASE a = q
    BY <2>1, <2>2, <1>1, <1>2 DEF SharesWell, CanEnableSharedExperience
  <2>3. CASE a # q
    <3>1. CanEnableSharedExperience(v, a, TRUE) = CanEnableSharedExperience(w, a, TRUE)
      <4>1. /\ v.members[a] = w.members[a] /\ v.leader[a] = w.leader[a]
            /\ v.ticks[a] = w.ticks[a]
        BY <2>3, <1>2, <1>3
      <4>2. QED
        BY <4>1, CanFields
    <3>2. QED
      BY <2>1, <3>1, <1>2 DEF SharesWell
  <2>4. QED
    BY <2>2, <2>3
<1>10. ASSUME NEW a \in Address \ {q}
       PROVE  Accompanied(v, a)
  <2>1. Accompanied(w, a)
    BY DEF Good
  <2>2. QED
    BY <2>1, <1>2, <1>3 DEF Accompanied, IsEmpty
<1>11. QED
  BY <1>2, <1>3, <1>4, <1>5, <1>6, <1>7, <1>8, <1>9, <1>10 DEF v, Agreed

-----------------------------------------------------------------------------
(* Every step keeps the invariant, and the parties that must survive.        *)

(* The parties are the same; who hears their channels may not be.            *)
LEMMA ChannelsGood ==
  ASSUME NEW w \in World, NEW v \in World, SameParties(w, v), Good(w),
         v.ticks = w.ticks, v.active = w.active, v.enabled = w.enabled
  PROVE  /\ Good(v)
         /\ \A a \in Address : Companions(v, a) = Companions(w, a)
         /\ LeadersStay(w, v)
<1>1. Agreed(v) /\ \A a \in Address : Companions(v, a) = Companions(w, a)
  BY AgreedSame DEF Good
<1>2. ASSUME NEW a \in Address
      PROVE  SharesWell(v, a) /\ Accompanied(v, a)
  <2>1. CanEnableSharedExperience(v, a, TRUE) = CanEnableSharedExperience(w, a, TRUE)
    BY CanFields DEF SameParties
  <2>2. SharesWell(w, a) /\ Accompanied(w, a)
    BY DEF Good
  <2>3. QED
    BY <2>1, <2>2 DEF SharesWell, Accompanied, IsEmpty, SameParties
<1>3. LeadersStay(w, v)
  BY DEF SameParties, LeadersStay
<1>4. QED
  BY <1>1, <1>2, <1>3 DEF Good

(* Whom a smaller world knows the larger one knew.                           *)
LEMMA ShrunkWithin ==
  ASSUME NEW w, NEW v, NEW S, Within(w, S), Shrunk(w, v)
  PROVE  Within(v, S)
BY DEF Within, Shrunk

(* What every step does.                                                     *)
Kept == IInv' /\ Survives(world, world')

(* An invitation, to a new party or to the leader's own.                     *)
LEMMA InviteStep ==
  ASSUME IInv, NEW p \in Player, NEW x \in Player, PlayerInviteToParty(p, x)
  PROVE  Kept
<1>1. /\ world \in World /\ Good(world) /\ Within(world, online)
      /\ online \subseteq Player /\ online' = online
      /\ p # x /\ p \in online /\ x \in online /\ world.party[x] = NoParty
  BY DEF IInv, Good, Agreed, PlayerInviteToParty
<1>2. ASSUME NEW q \in Address, world.party[p] = NoParty, world.leader[q] = Nobody,
             world' = InviteToParty(NewParty(world, p, q), x, q)
      PROVE  Kept
  <2> DEFINE u == NewParty(world, p, q)
  <2>1. /\ Agreed(u)
        /\ \A a \in Address : SharesWell(u, a)
        /\ \A a \in Address \ {q} : Accompanied(u, a)
        /\ u.leader[q] = p
        /\ \A a \in Address \ {q} : u.leader[a] = world.leader[a]
        /\ Companions(u, q) = {p}
        /\ \A a \in Address \ {q} : Companions(u, a) = Companions(world, a)
        /\ u.invitees = world.invitees
        /\ u.users = world.users
    BY <1>1, <1>2, NewPartyAgreed
  <2> HIDE DEF u
  <2>2. Invites(u, world', x, q)
    <3>1. u \in World /\ u.leader[q] # Nobody /\ x \notin Companions(u, q)
      BY <1>1, <2>1, PartyAssumption DEF Agreed
    <3>2. Invites(u, InviteToParty(u, x, q), x, q)
      BY <2>1, <3>1, InviteGood
    <3>3. QED
      BY <3>2, <1>2 DEF u
  <2>3. Within(world', online)
    <3>1. ASSUME NEW a \in Address
          PROVE  /\ Companions(world', a) \subseteq Companions(world, a) \cup {p}
                 /\ world'.invitees[a] \subseteq world.invitees[a] \cup {x}
                 /\ world'.users[a] = world.users[a]
      BY <2>1, <2>2 DEF Invites
    <3>2. QED
      BY <3>1, <1>1 DEF Within
  <2>4. LeadersStay(world, world')
    BY <1>2, <2>1, <2>2 DEF LeadersStay, Invites
  <2>5. QED
    BY <1>1, <2>2, <2>3, <2>4, StaySurvives DEF Kept, IInv, Invites
<1>3. ASSUME world.party[p] # NoParty, world.leader[world.party[p]] = p,
             world' = InviteToParty(world, x, world.party[p])
      PROVE  Kept
  <2> DEFINE q == world.party[p]
  <2>1. q \in Address
    BY <1>1, <1>3 DEF World
  <2>2. world.leader[q] # Nobody /\ x \notin Companions(world, q)
    BY <1>1, <1>3, <2>1, PartyAssumption DEF Good, Agreed, Membership
  <2>3. Invites(world, world', x, q)
    BY <1>1, <1>3, <2>1, <2>2, InviteGood DEF Good
  <2>4. Within(world', online)
    BY <1>1, <2>3 DEF Within, Invites
  <2>5. LeadersStay(world, world')
    BY <2>3 DEF LeadersStay, Invites
  <2>6. QED
    BY <1>1, <2>3, <2>4, <2>5, StaySurvives DEF Kept, IInv, Invites
<1>4. QED
  BY <1>2, <1>3 DEF PlayerInviteToParty

(* An invitee joins.                                                         *)
LEMMA JoinStep ==
  ASSUME IInv, NEW p \in Player, NEW x \in Player, PlayerJoinParty(p, x)
  PROVE  Kept
<1> DEFINE q == world.party[x]
<1>1. /\ world \in World /\ Good(world) /\ Within(world, online)
      /\ online \subseteq Player /\ online' = online
      /\ p \in online /\ world.party[p] = NoParty
      /\ q # NoParty /\ p \in world.invitees[q]
  BY DEF IInv, Good, Agreed, PlayerJoinParty, IsInviting
<1>2. q \in Address
  BY <1>1 DEF World
<1>3. PICK fit \in BOOLEAN : world' = JoinParty(world, p, q, fit)
  BY DEF PlayerJoinParty
<1> HIDE DEF q
<1>4. /\ Good(world')
      /\ LeadersStay(world, world')
      /\ \A a \in Address : Companions(world', a) \subseteq Companions(world, a) \cup {p}
      /\ \A a \in Address : world'.invitees[a] \subseteq world.invitees[a]
      /\ world'.users = world.users
  BY <1>1, <1>2, <1>3, JoinGood
<1>5. Within(world', online)
  BY <1>1, <1>4 DEF Within
<1>6. QED
  BY <1>1, <1>4, <1>5, StaySurvives DEF Kept, IInv

(* The leader withdraws an invitation, which may end the party.              *)
LEMMA RevokeStep ==
  ASSUME IInv, NEW p \in Player, NEW x \in Player, PlayerRevokePartyInvitation(p, x)
  PROVE  Kept
<1>1. /\ world \in World /\ Good(world) /\ Within(world, online)
      /\ online \subseteq Player /\ online' = online
      /\ world.party[p] # NoParty
      /\ world' = RemoveInvites(world, x, {world.party[p]}, TRUE)
  BY DEF IInv, Good, Agreed, PlayerRevokePartyInvitation, IsInviting
<1>2. {world.party[p]} \in SUBSET Address
  BY <1>1 DEF World
<1>3. /\ Good(world')
      /\ Shrunk(world, world')
      /\ \A a \in Address : world.members[a] # <<>> => world'.leader[a] = world.leader[a]
  BY <1>1, <1>2, RemoveInvitesGood
<1>4. Survives(world, world')
  BY <1>1, <1>3 DEF Survives, Good, Agreed, Membership
<1>5. QED
  BY <1>1, <1>3, <1>4, ShrunkWithin DEF Kept, IInv

(* The leader makes a member the leader.                                     *)
LEMMA PassStep ==
  ASSUME IInv, NEW p \in Player, NEW x \in Player, PlayerPassPartyLeadership(p, x)
  PROVE  Kept
<1> DEFINE q == world.party[p]
<1>1. /\ world \in World /\ Good(world) /\ Within(world, online)
      /\ online \subseteq Player /\ online' = online
      /\ p # x /\ q # NoParty /\ world.leader[q] = p /\ world.party[x] = q
  BY DEF IInv, Good, Agreed, PlayerPassPartyLeadership
<1>2. q \in Address
  BY <1>1 DEF World
<1>3. PICK fit \in BOOLEAN : world' = PassPartyLeadership(world, x, q, fit)
  BY DEF PlayerPassPartyLeadership
<1> HIDE DEF q
<1>4. x \in ToSet(world.members[q])
  BY <1>1, <1>2 DEF Good, Agreed, Membership, Companions
<1>5. Passed(world, world', x, q)
  BY <1>1, <1>2, <1>3, <1>4, PassGood
<1>6. Shrunk(world, world') /\ LeadersStay(world, world')
  <2>1. LeadersStay(world, world')
    BY <1>1, <1>2, <1>5, PartyAssumption DEF Passed, LeadersStay, World
  <2>2. QED
    BY <1>5, <2>1 DEF Passed, Shrunk
<1>7. QED
  BY <1>1, <1>5, <1>6, StaySurvives, ShrunkWithin DEF Kept, IInv, Passed

(* A player leaves its party.                                                *)
LEMMA LeaveStep ==
  ASSUME IInv, NEW p \in Player, PlayerLeaveParty(p)
  PROVE  Kept
<1> DEFINE q == world.party[p]
<1>1. /\ world \in World /\ Good(world) /\ Within(world, online)
      /\ online \subseteq Player /\ online' = online
      /\ q # NoParty
  BY DEF IInv, Good, Agreed, PlayerLeaveParty
<1>2. q \in Address
  BY <1>1 DEF World
<1>3. PICK fit \in BOOLEAN : world' = LeaveParty(world, p, q, fit)
  BY DEF PlayerLeaveParty
<1>4. Left(world, world', p, q) /\ Survives(world, world')
  BY <1>1, <1>2, <1>3, LeaveGood
<1>5. QED
  BY <1>1, <1>4, ShrunkWithin DEF Kept, IInv, Left

(* Sharing on or off, a fight, a move: only what follows from who fought.    *)
LEMMA SharingStep ==
  ASSUME IInv, NEW p \in Player,
         \/ \E on \in BOOLEAN : PlayerEnableSharedPartyExperience(p, on)
         \/ PlayerFights(p)
         \/ PlayerMoves(p)
  PROVE  Kept
<1> DEFINE q == world.party[p]
<1>1. /\ world \in World /\ Good(world) /\ Within(world, online)
      /\ online \subseteq Player /\ online' = online
      /\ q # NoParty
  BY DEF IInv, Good, Agreed, PlayerEnableSharedPartyExperience, PlayerFights, PlayerMoves
<1>2. q \in Address
  BY <1>1 DEF World
<1>3. Good(world') /\ Shrunk(world, world') /\ LeadersStay(world, world')
  <2>1. ASSUME NEW on \in BOOLEAN, PlayerEnableSharedPartyExperience(p, on)
        PROVE  Good(world') /\ Shrunk(world, world') /\ LeadersStay(world, world')
    <3>1. PICK fit \in BOOLEAN : world' = SetSharedExperience(world, p, q, on, fit)
      BY <2>1 DEF PlayerEnableSharedPartyExperience
    <3>2. QED
      BY <1>1, <1>2, <3>1, SetSharedGood
  <2>2. ASSUME PlayerFights(p)
        PROVE  Good(world') /\ Shrunk(world, world') /\ LeadersStay(world, world')
    <3>1. PICK fit \in BOOLEAN : world' = UpdatePlayerTicks(world, p, q, fit)
      BY <2>2 DEF PlayerFights
    <3>2. QED
      BY <1>1, <1>2, <3>1, TicksGood
  <2>3. ASSUME PlayerMoves(p)
        PROVE  Good(world') /\ Shrunk(world, world') /\ LeadersStay(world, world')
    <3>1. PICK fit \in BOOLEAN : world' = UpdateSharedExperience(world, q, fit)
      BY <2>3 DEF PlayerMoves
    <3>2. QED
      BY <1>1, <1>2, <3>1, UpdateKeeps
  <2>4. QED
    BY <2>1, <2>2, <2>3
<1>4. QED
  BY <1>1, <1>3, StaySurvives, ShrunkWithin DEF Kept, IInv

(* The party's channel is asked for, opened or closed.                       *)
LEMMA ChannelStep ==
  ASSUME IInv, NEW p \in Player,
         RequestChannels(p) \/ OpenPartyChannel(p) \/ ClosePartyChannel(p)
  PROVE  Kept
<1>1. /\ world \in World /\ Good(world) /\ Within(world, online)
      /\ online \subseteq Player /\ online' = online /\ p \in online
  BY DEF IInv, Good, Agreed, RequestChannels, OpenPartyChannel, ClosePartyChannel
<1>2. /\ world' \in World
      /\ SameParties(world, world')
      /\ world'.ticks = world.ticks
      /\ world'.active = world.active
      /\ world'.enabled = world.enabled
      /\ \A a \in Address : world'.users[a] \subseteq world.users[a] \cup {p}
  <2>1. CASE RequestChannels(p)
    <3>1. world.party[p] \in Address
      BY <1>1, <2>1 DEF RequestChannels, World
    <3>2. world' = [world EXCEPT !.channels = @ \cup {world.party[p]}]
      BY <2>1 DEF RequestChannels
    <3>3. QED
      BY <1>1, <3>1, <3>2 DEF World, SameParties
  <2>2. CASE OpenPartyChannel(p)
    <3> DEFINE q == world.party[p]
    <3>1. q \in Address
      BY <1>1, <2>2 DEF OpenPartyChannel, World
    <3>2. world' = [world EXCEPT !.users[q] = @ \cup {p}]
      BY <2>2 DEF OpenPartyChannel
    <3> HIDE DEF q
    <3>3. QED
      BY <1>1, <3>1, <3>2 DEF World, SameParties
  <2>3. CASE ClosePartyChannel(p)
    <3>1. world' = ClosePrivate(world, {p})
      BY <2>3 DEF ClosePartyChannel
    <3>2. QED
      BY <1>1, <3>1, ClosePrivateFields
  <2>4. QED
    BY <2>1, <2>2, <2>3
<1>3. /\ Good(world')
      /\ \A a \in Address : Companions(world', a) = Companions(world, a)
      /\ LeadersStay(world, world')
  BY <1>1, <1>2, ChannelsGood
<1>4. Within(world', online)
  BY <1>1, <1>2, <1>3 DEF Within, SameParties
<1>5. QED
  BY <1>1, <1>3, <1>4, StaySurvives DEF Kept, IInv

(* Whoever is offline is in no party and has no invitation, so that the new  *)
(* Player object of a login knows what the old one knew: nothing.            *)
LEMMA LoginStep ==
  ASSUME IInv, NEW p \in Player, PlayerLogin(p)
  PROVE  Kept
<1>1. /\ world \in World /\ Good(world) /\ Within(world, online)
      /\ online \subseteq Player /\ online' = online \cup {p} /\ p \notin online
      /\ world' = [world EXCEPT !.party[p] = NoParty, !.invitations[p] = {}]
  BY DEF IInv, Good, Agreed, PlayerLogin
<1>2. world.party[p] = NoParty
  <2>1. \A q \in Address : p \notin Companions(world, q)
    BY <1>1 DEF Within
  <2>2. QED
    BY <1>1, <2>1 DEF Good, Agreed, Membership, World
<1>3. world.invitations[p] = {}
  <2>1. \A q \in Address : p \notin world.invitees[q]
    BY <1>1 DEF Within
  <2>2. QED
    BY <1>1, <2>1 DEF Good, Agreed, Invited, World
<1>4. /\ world' \in World
      /\ SameParties(world, world')
      /\ world'.ticks = world.ticks
      /\ world'.active = world.active
      /\ world'.enabled = world.enabled
      /\ world'.users = world.users
  BY <1>1, <1>2, <1>3 DEF World, SameParties
<1>5. /\ Good(world')
      /\ \A a \in Address : Companions(world', a) = Companions(world, a)
      /\ LeadersStay(world, world')
  BY <1>1, <1>4, ChannelsGood
<1>6. Within(world', online')
  BY <1>1, <1>4, <1>5 DEF Within, SameParties
<1>7. QED
  BY <1>1, <1>5, <1>6, StaySurvives DEF Kept, IInv

(* A logout clears the invitations, leaves the party and forgets the player. *)
LEMMA LogoutStep ==
  ASSUME IInv, NEW p \in Player, PlayerLogout(p)
  PROVE  Kept
<1> DEFINE found == {a \in Address : p \in world.invitees[a]}
           w2 == [RemoveInvites(world, p, world.invitations[p], FALSE)
                    EXCEPT !.invitations[p] = {}]
           w3(fit) == IF w2.party[p] = NoParty THEN w2
                      ELSE LeaveParty(w2, p, w2.party[p], fit)
           v(fit) == [w3(fit) EXCEPT !.users = [q \in Address |-> @[q] \ {p}]]
<1>1. /\ world \in World /\ Good(world) /\ Within(world, online)
      /\ online \subseteq Player /\ online' = online \ {p}
  BY DEF IInv, Good, Agreed, PlayerLogout
<1>2. PICK fit \in BOOLEAN : world' = v(fit)
  BY DEF PlayerLogout
<1>3. Cleared(world, w2, p, found)
  BY <1>1, ClearInvitationsGood
<1> HIDE DEF w2
<1>4. w2 \in World /\ Good(w2) /\ \A a \in Address : p \notin w2.invitees[a]
  <2>1. \A a \in Address \ found : p \notin w2.invitees[a]
    BY <1>3 DEF Cleared
  <2>2. QED
    BY <1>3, <2>1 DEF Cleared, Good, Agreed
<1> DEFINE u == w3(fit)
<1>5. Good(u) /\ u.party[p] = NoParty /\ Shrunk(w2, u)
  <2>1. CASE w2.party[p] = NoParty
    BY <1>4, <2>1 DEF Shrunk
  <2>2. CASE w2.party[p] # NoParty
    <3> DEFINE q == w2.party[p]
    <3>1. q \in Address
      BY <1>4, <2>2 DEF World
    <3>2. Left(w2, LeaveParty(w2, p, q, fit), p, q)
      BY <1>4, <3>1, LeaveGood
    <3>3. QED
      BY <2>2, <3>2 DEF Left
  <2>3. QED
    BY <2>1, <2>2
<1>6. Survives(world, u)
  <2>1. SUFFICES ASSUME NEW a \in Address, world.members[a] # <<>>,
                        Cardinality(Crowd(world, a)) > 2
                 PROVE  u.leader[a] # Nobody
    BY DEF Survives
  <2>2. w2.leader[a] = world.leader[a] /\ world.leader[a] # Nobody
    BY <1>1, <1>3, <2>1 DEF Cleared, Good, Agreed, Membership
  <2>3. CASE w2.party[p] # a
    <3>1. CASE w2.party[p] = NoParty
      BY <2>2, <3>1
    <3>2. CASE w2.party[p] # NoParty
      <4> DEFINE q == w2.party[p]
      <4>1. q \in Address
        BY <1>4, <3>2 DEF World
      <4>2. Left(w2, LeaveParty(w2, p, q, fit), p, q)
        BY <1>4, <4>1, LeaveGood
      <4>3. LeaveParty(w2, p, q, fit).leader[a] = w2.leader[a]
        BY <2>3, <4>2 DEF Left
      <4>4. QED
        BY <2>2, <3>2, <4>3
    <3>3. QED
      BY <3>1, <3>2
  <2>4. CASE w2.party[p] = a
    <3>1. world.party[p] = a
      BY <1>3, <2>4, PartyAssumption DEF Cleared
    <3>2. p \notin world.invitees[a]
      BY <1>1, <3>1 DEF Good, Agreed, Membership, Invited
    <3>3. /\ w2.members[a] = world.members[a]
          /\ w2.invitees[a] = world.invitees[a]
          /\ w2.leader[a] = world.leader[a]
      BY <1>3, <3>2 DEF Cleared
    <3>4. Crowd(w2, a) = Crowd(world, a)
      BY <3>3 DEF Crowd, Companions
    <3>5. Survives(w2, LeaveParty(w2, p, a, fit))
      BY <1>4, <2>4, LeaveGood
    <3>6. LeaveParty(w2, p, a, fit).leader[a] # Nobody
      BY <2>1, <3>3, <3>4, <3>5 DEF Survives
    <3>7. QED
      BY <2>4, <3>6, PartyAssumption
  <2>5. QED
    BY <2>3, <2>4
<1> HIDE DEF u
<1>7. /\ world' \in World
      /\ SameParties(u, world')
      /\ world'.ticks = u.ticks
      /\ world'.active = u.active
      /\ world'.enabled = u.enabled
      /\ \A a \in Address : world'.users[a] = u.users[a] \ {p}
  <2>1. u \in World
    BY <1>5 DEF Good, Agreed
  <2>2. world' = [u EXCEPT !.users = [q \in Address |-> u.users[q] \ {p}]]
    BY <1>2 DEF u
  <2>3. QED
    BY <2>1, <2>2 DEF World, SameParties
<1>8. /\ Good(world')
      /\ \A a \in Address : Companions(world', a) = Companions(u, a)
  <2>1. u \in World
    BY <1>5 DEF Good, Agreed
  <2>2. QED
    BY <1>5, <1>7, <2>1, ChannelsGood
<1>9. Within(world', online')
  <2>1. ASSUME NEW a \in Address
        PROVE  /\ p \notin Companions(world', a)
               /\ p \notin world'.invitees[a]
               /\ p \notin world'.users[a]
    <3>1. p \notin Companions(world', a)
      <4>1. world'.party[p] = NoParty
        BY <1>5, <1>7 DEF SameParties
      <4>2. QED
        BY <1>8, <4>1, PartyAssumption DEF Good, Agreed, Membership
    <3>2. p \notin world'.invitees[a]
      BY <1>4, <1>5, <1>7 DEF Shrunk, SameParties
    <3>3. QED
      BY <3>1, <3>2, <1>7
  <2>2. Within(u, online)
    <3>1. Within(w2, online)
      BY <1>1, <1>3, ShrunkWithin DEF Cleared
    <3>2. QED
      BY <1>5, <3>1, ShrunkWithin
  <2>3. Within(world', online)
    BY <2>2, <1>7, <1>8 DEF Within, SameParties
  <2>4. QED
    BY <1>1, <2>1, <2>3 DEF Within
<1>10. Survives(world, world')
  BY <1>6, <1>7 DEF Survives, SameParties
<1>11. QED
  BY <1>1, <1>8, <1>9, <1>10 DEF Kept, IInv

(* Every step of the system.                                                 *)
LEMMA NextStep ==
  ASSUME IInv, Next
  PROVE  Kept
<1>1. PICK p \in Player :
        \/ \E x \in Player :
             \/ PlayerInviteToParty(p, x)
             \/ PlayerJoinParty(p, x)
             \/ PlayerRevokePartyInvitation(p, x)
             \/ PlayerPassPartyLeadership(p, x)
        \/ PlayerLeaveParty(p)
        \/ \E on \in BOOLEAN : PlayerEnableSharedPartyExperience(p, on)
        \/ PlayerFights(p)
        \/ PlayerMoves(p)
        \/ RequestChannels(p)
        \/ OpenPartyChannel(p)
        \/ ClosePartyChannel(p)
        \/ PlayerLogin(p)
        \/ PlayerLogout(p)
  BY DEF Next
<1>2. QED
  BY <1>1, InviteStep, JoinStep, RevokeStep, PassStep, LeaveStep, SharingStep,
     ChannelStep, LoginStep, LogoutStep

(* Nobody is online and every address is free.                               *)
LEMMA InitGood == Init => IInv
<1>1. ASSUME Init
      PROVE  IInv
  <2>1. <<>> \in Seq(Player) /\ ToSet(<<>>) = {} /\ IsInjective(<<>>)
    BY DEF ToSet, IsInjective
  <2>2. world \in World
    BY <1>1, <2>1 DEF Init, World
  <2>3. /\ world.party = [p \in Player |-> NoParty]
        /\ world.invitations = [p \in Player |-> {}]
        /\ world.leader = [q \in Address |-> Nobody]
        /\ world.members = [q \in Address |-> <<>>]
        /\ world.invitees = [q \in Address |-> {}]
        /\ world.ticks = [q \in Address |-> {}]
        /\ world.active = [q \in Address |-> FALSE]
        /\ world.users = [q \in Address |-> {}]
    BY <1>1 DEF Init
  <2>4. \A q \in Address : Companions(world, q) = {}
    BY <2>1, <2>3 DEF Companions
  <2>5. Membership(world)
    BY <2>1, <2>3, <2>4, PartyAssumption DEF Membership
  <2>6. Invited(world) /\ Fought(world)
    BY <2>3, <2>4 DEF Invited, Fought
  <2>7. \A q \in Address : SharesWell(world, q) /\ Accompanied(world, q)
    BY <2>3 DEF SharesWell, Accompanied
  <2>8. Within(world, online)
    BY <2>3, <2>4 DEF Within
  <2>9. QED
    BY <1>1, <2>2, <2>5, <2>6, <2>7, <2>8 DEF IInv, Good, Agreed, Init
<1>2. QED
  BY <1>1

(* Players and parties agree, and know nobody who is offline, whatever the handlers do. *)
THEOREM Invariance == Spec => []IInv
<1>1. IInv /\ [Next]_vars => IInv'
  <2>1. ASSUME IInv, Next
        PROVE  IInv'
    BY <2>1, NextStep DEF Kept
  <2>2. ASSUME IInv, UNCHANGED vars
        PROVE  IInv'
    BY <2>2 DEF IInv, vars, Good, Agreed, Membership, Invited, Fought, SharesWell,
                Accompanied, Within
  <2>3. QED
    BY <2>1, <2>2
<1>2. QED
  BY InitGood, <1>1, PTL DEF Spec

-----------------------------------------------------------------------------
(* The theorems.                                                             *)

(* Players and parties agree on who is in which party, after every history of *)
(* handlers: party.cpp changes the two sides in different places.            *)
THEOREM MembershipHolds == Spec => []MembershipAgrees
<1>1. IInv => MembershipAgrees
  BY DEF IInv, Good, Agreed, Membership, MembershipAgrees, TypeOK
<1>2. QED
  BY Invariance, <1>1, PTL

(* Invitations are known on both sides or on none, and a deleted party has   *)
(* revoked its own.                                                          *)
THEOREM InvitationsHold == Spec => []InvitationsAgree
<1>1. IInv => InvitationsAgree
  BY DEF IInv, Good, Agreed, Invited, InvitationsAgree
<1>2. QED
  BY Invariance, <1>1, PTL

(* No party and no party channel keeps a pointer to a player who logged out. *)
THEOREM NobodyGoneHolds == Spec => []NobodyGone
<1>1. IInv => NobodyGone
  BY DEF IInv, Within, NobodyGone
<1>2. QED
  BY Invariance, <1>1, PTL

(* After every handler a leader has a member or an invitee.                  *)
THEOREM NoLonelyPartyHolds == Spec => []NoLonelyParty
<1>1. IInv => NoLonelyParty
  BY DEF IInv, Good, Accompanied, NoLonelyParty
<1>2. QED
  BY Invariance, <1>1, PTL

(* Experience is shared only while everybody in the party has fought since   *)
(* joining it.                                                               *)
THEOREM SharingIsEarnedHolds == Spec => []SharingIsEarned
<1>1. IInv => SharingIsEarned
  BY DEF IInv, Good, Agreed, Fought, SharesWell, SharingIsEarned
<1>2. QED
  BY Invariance, <1>1, PTL

(* A party with a member and more than two players, invitees included,       *)
(* survives whoever leaves it.                                               *)
THEOREM PartySurvivesHolds == Spec => PartySurvives
<1>1. ASSUME IInv, Next
      PROVE  \A q \in Address :
               /\ world.members[q] # <<>>
               /\ Cardinality(Companions(world, q) \cup world.invitees[q]) > 2
               => world'.leader[q] # Nobody
  BY <1>1, NextStep DEF Kept, Survives, Crowd
<1>2. IInv /\ [Next]_vars => [\A q \in Address :
               /\ world.members[q] # <<>>
               /\ Cardinality(Companions(world, q) \cup world.invitees[q]) > 2
               => world'.leader[q] # Nobody]_vars
  BY <1>1
<1>3. QED
  BY Invariance, <1>2, PTL DEF Spec, PartySurvives

=============================================================================
