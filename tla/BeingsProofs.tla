----------------------------- MODULE BeingsProofs -----------------------------
(***************************************************************************)
(* Proofs about who plays with or against whom: parties, chat channels,    *)
(* speech, spawns, raids, houses and the windows of containers, for any    *)
(* players, parties, channels, monsters, raids, houses, beds, containers   *)
(* and cells. An inductive invariant of each, that it holds at first and   *)
(* every step keeps it; then the theorems about MCSpec, in which each      *)
(* behaviour is one of a single component and leaves the others as they    *)
(* began.                                                                  *)
(***************************************************************************)
EXTENDS MCBeings, SequenceTheorems, FiniteSetTheorems, WellFoundedInduction,
        TLAPS
-----------------------------------------------------------------------------
(***************************************************************************)
(* Parties (see Party). A handler calls others that change the lists of    *)
(* players and of parties one after the other: the lemmas follow these     *)
(* calls and say what each leaves in agreement.                            *)
(***************************************************************************)
(* push_back keeps the elements where they are and adds one at the end.    *)
LEMMA PushBack ==
  ASSUME NEW S, NEW s \in Seq(S), NEW e \in S
  PROVE  /\ Append(s, e) \in Seq(S)
         /\ Len(Append(s, e)) = Len(s) + 1
         /\ \A i \in 1..Len(s) : Append(s, e)[i] = s[i]
         /\ Append(s, e)[Len(s) + 1] = e
         /\ Append(s, e) # <<>>
  OBVIOUS

(* push_front moves every element one place back.                          *)
LEMMA PushFront ==
  ASSUME NEW S, NEW s \in Seq(S), NEW e \in S
  PROVE  /\ <<e>> \o s \in Seq(S)
         /\ Len(<<e>> \o s) = Len(s) + 1
         /\ (<<e>> \o s)[1] = e
         /\ \A i \in 1..Len(s) : (<<e>> \o s)[i + 1] = s[i]
         /\ <<e>> \o s # <<>>
  OBVIOUS

(* Removing from a list without doubles removes one player, and no other.  *)
LEMMA Erase ==
  ASSUME NEW S, NEW s \in Seq(S), IsInjective(s), NEW e
  PROVE  /\ RemoveFirst(s, e) \in Seq(S)
         /\ IsInjective(RemoveFirst(s, e))
         /\ ToSet(RemoveFirst(s, e)) = ToSet(s) \ {e}
  <1>1. CASE ~ \E i \in 1..Len(s) : s[i] = e
    <2>1. RemoveFirst(s, e) = s
      BY <1>1 DEF RemoveFirst
    <2> QED BY <1>1, <2>1 DEF ToSet
  <1>2. ASSUME NEW k \in 1..Len(s), s[k] = e
        PROVE  /\ RemoveFirst(s, e) \in Seq(S)
               /\ IsInjective(RemoveFirst(s, e))
               /\ ToSet(RemoveFirst(s, e)) = ToSet(s) \ {e}
    <2> DEFINE t == RemoveAt(s, k)
    <2>1. {i \in 1..Len(s) : s[i] = e} = {k}
      BY <1>2 DEF IsInjective
    <2>2. Min({k}) = k
      BY DEF Min
    <2>3. RemoveFirst(s, e) = t
      BY <1>2, <2>1, <2>2 DEF RemoveFirst, SelectInSeq
    <2>4. /\ t \in Seq(S) /\ Len(t) = Len(s) - 1
          /\ \A i \in 1..Len(t) : t[i] = IF i < k THEN s[i] ELSE s[i + 1]
      <3> DEFINE a == SubSeq(s, 1, k - 1)
                 b == SubSeq(s, k + 1, Len(s))
      <3>1. /\ a \in Seq(S) /\ Len(a) = k - 1
            /\ \A i \in 1..(k - 1) : a[i] = s[i]
        BY <1>2
      <3>2. /\ b \in Seq(S) /\ Len(b) = Len(s) - k
            /\ \A i \in 1..(Len(s) - k) : b[i] = s[i + k]
        BY <1>2
      <3>3. t = a \o b
        BY DEF RemoveAt
      <3> HIDE DEF a, b, t
      <3>4. /\ t \in Seq(S) /\ Len(t) = Len(a) + Len(b)
            /\ \A i \in 1..(Len(a) + Len(b)) :
                 t[i] = IF i <= Len(a) THEN a[i] ELSE b[i - Len(a)]
        <4>1. a \o b \in Seq(S) /\ Len(a \o b) = Len(a) + Len(b)
          BY <3>1, <3>2, ConcatProperties
        <4>2. \A i \in 1..(Len(a) + Len(b)) :
                (a \o b)[i] = IF i <= Len(a) THEN a[i] ELSE b[i - Len(a)]
          BY <3>1, <3>2, ConcatProperties
        <4> QED BY <4>1, <4>2, <3>3
      <3>5. Len(t) = Len(s) - 1
        BY <1>2, <3>1, <3>2, <3>4
      <3>6. ASSUME NEW i \in 1..Len(t)
            PROVE  t[i] = IF i < k THEN s[i] ELSE s[i + 1]
        <4>1. CASE i < k
          BY <4>1, <1>2, <3>1, <3>2, <3>4
        <4>2. CASE i >= k
          <5>1. i - (k - 1) \in 1..(Len(s) - k)
            BY <4>2, <1>2, <3>5
          <5>2. b[i - (k - 1)] = s[(i - (k - 1)) + k]
            BY <5>1, <3>2
          <5>3. (i - (k - 1)) + k = i + 1
            BY <1>2
          <5> QED BY <5>2, <5>3, <4>2, <1>2, <3>1, <3>2, <3>4
        <4> QED BY <4>1, <4>2, <1>2
      <3> QED BY <3>4, <3>5, <3>6
    <2> HIDE DEF t
    <2>5. IsInjective(t)
      <3> SUFFICES ASSUME NEW i \in 1..Len(t), NEW j \in 1..Len(t), t[i] = t[j]
                   PROVE  i = j
        BY <2>4 DEF IsInjective
      <3>1. \A m, n \in 1..Len(s) : s[m] = s[n] => m = n
        BY DEF IsInjective
      <3> QED BY <1>2, <2>4, <3>1
    <2>6. ToSet(t) \subseteq ToSet(s) \ {e}
      BY <1>2, <2>4 DEF IsInjective, ToSet
    <2>7. ToSet(s) \ {e} \subseteq ToSet(t)
      <3> SUFFICES ASSUME NEW i \in 1..Len(s), s[i] # e
                   PROVE  s[i] \in ToSet(t)
        BY DEF ToSet
      <3>1. CASE i < k
        <4>1. i \in 1..Len(t) /\ t[i] = s[i]
          BY <1>2, <2>4, <3>1
        <4> QED BY <4>1, <2>4 DEF ToSet
      <3>2. CASE i > k
        <4>1. i - 1 \in 1..Len(t) /\ t[i - 1] = s[i]
          BY <1>2, <2>4, <3>2
        <4> QED BY <4>1, <2>4 DEF ToSet
      <3> QED BY <1>2, <3>1, <3>2
    <2> QED BY <2>3, <2>4, <2>5, <2>6, <2>7
  <1> QED BY <1>1, <1>2

(* What a list becomes whose first is a newcomer, and, next, its last.     *)
LEMMA FrontOf ==
  ASSUME NEW S, NEW s \in Seq(S), NEW e \in S
  PROVE  /\ <<e>> \o s \in Seq(S)
         /\ ToSet(<<e>> \o s) = ToSet(s) \union {e}
         /\ IsInjective(s) /\ e \notin ToSet(s) => IsInjective(<<e>> \o s)
         /\ <<e>> \o s # <<>>
  <1>1. /\ <<e>> \o s \in Seq(S) /\ Len(<<e>> \o s) = Len(s) + 1
        /\ (<<e>> \o s)[1] = e /\ \A i \in 1..Len(s) : (<<e>> \o s)[i + 1] = s[i]
        /\ <<e>> \o s # <<>>
    BY PushFront
  <1> DEFINE t == <<e>> \o s
  <1> HIDE DEF t
  <1>2. /\ t \in Seq(S) /\ Len(t) = Len(s) + 1 /\ t[1] = e
        /\ \A i \in 1..Len(s) : t[i + 1] = s[i]
    BY <1>1 DEF t
  <1>4. \A i \in 1..Len(t) : t[i] = IF i = 1 THEN e ELSE s[i - 1]
    <2> TAKE i \in 1..Len(t)
    <2>1. CASE i # 1
      <3>1. i - 1 \in 1..Len(s) /\ (i - 1) + 1 = i
        BY <1>2, <2>1
      <3> QED BY <3>1, <1>2, <2>1
    <2> QED BY <1>2, <2>1
  <1>3. ToSet(t) = ToSet(s) \union {e}
    <2>1. ToSet(t) \subseteq ToSet(s) \union {e}
      BY <1>2, <1>4 DEF ToSet
    <2>2. ToSet(s) \subseteq ToSet(t)
      <3> SUFFICES ASSUME NEW i \in 1..Len(s) PROVE s[i] \in ToSet(t)
        BY DEF ToSet
      <3>1. i + 1 \in 1..Len(t) /\ t[i + 1] = s[i]
        BY <1>2
      <3> QED BY <3>1, <1>2 DEF ToSet
    <2>3. e \in ToSet(t)
      BY <1>2 DEF ToSet
    <2> QED BY <2>1, <2>2, <2>3
  <1>5. ASSUME IsInjective(s), e \notin ToSet(s) PROVE IsInjective(t)
    <2> SUFFICES ASSUME NEW i \in 1..Len(t), NEW j \in 1..Len(t), t[i] = t[j] PROVE i = j
      BY <1>2 DEF IsInjective
    <2>1. i # 1 => i - 1 \in 1..Len(s) /\ t[i] \in ToSet(s)
      BY <1>2, <1>4 DEF ToSet
    <2>2. j # 1 => j - 1 \in 1..Len(s) /\ t[j] \in ToSet(s)
      BY <1>2, <1>4 DEF ToSet
    <2>3. i # 1 /\ j # 1 => i - 1 = j - 1
      BY <1>4, <1>5, <2>1, <2>2 DEF IsInjective
    <2> QED BY <1>2, <1>5, <2>1, <2>2, <2>3
  <1> QED BY <1>1, <1>3, <1>5 DEF t

LEMMA BackOf ==
  ASSUME NEW S, NEW s \in Seq(S), NEW e \in S
  PROVE  /\ Append(s, e) \in Seq(S)
         /\ ToSet(Append(s, e)) = ToSet(s) \union {e}
         /\ IsInjective(s) /\ e \notin ToSet(s) => IsInjective(Append(s, e))
         /\ Append(s, e) # <<>>
  <1> DEFINE t == Append(s, e)
  <1>1. /\ t \in Seq(S) /\ Len(t) = Len(s) + 1 /\ t[Len(s) + 1] = e
        /\ \A i \in 1..Len(s) : t[i] = s[i]
        /\ t # <<>>
    BY PushBack
  <1> HIDE DEF t
  <1>2. ToSet(t) = ToSet(s) \union {e}
    BY <1>1 DEF ToSet
  <1>3. ASSUME IsInjective(s), e \notin ToSet(s) PROVE IsInjective(t)
    BY <1>1, <1>3 DEF IsInjective, ToSet
  <1> QED BY <1>1, <1>2, <1>3 DEF t

(* A party, and what the handlers pass on: all parties, and of each player *)
(* its party and who invited it.                                           *)
PartyRecord ==
  [leader : Players \union {None}, memberList : Seq(Players),
   inviteList : SUBSET Players, ticksMap : [Players -> Ticks],
   sharedExpActive : BOOLEAN, sharedExpEnabled : BOOLEAN]

Worlds ==
  [parties : [Parties -> PartyRecord], party : [Players -> Parties \union {None}],
   invites : [Players -> SUBSET Parties]]

(* The pointers from and to the party P agree.                             *)
WellFormed(r) ==
  /\ r.leader \notin ToSet(r.memberList)
  /\ IsInjective(r.memberList)
  /\ r.leader = None => r = NoParty
(* The party P and the players agree on who is in it and who is invited.   *)
AgreeAt(w, P) ==
  /\ WellFormed(w.parties[P])
  /\ \A p \in Players :
       /\ w.party[p] = P <=> w.parties[P].leader # None /\ p \in Company(w.parties[P])
       /\ P \in w.invites[p] <=> p \in w.parties[P].inviteList

(* Whoever has P for a party is of its company, but not all of these need  *)
(* to know it any more.                                                    *)
NearlyAt(w, P) ==
  \A p \in Players :
    /\ w.party[p] = P => p \in Company(w.parties[P])
    /\ p \in Company(w.parties[P]) => w.party[p] \in {P, None}
    /\ P \in w.invites[p] <=> p \in w.parties[P].inviteList

(* An object that is no party has nobody.                                  *)
LEMMA NoPartyRecord ==
  /\ NoParty \in PartyRecord /\ WellFormed(NoParty)
  /\ NoParty.leader = None /\ NoParty.inviteList = {} /\ NoParty.memberList = <<>>
  /\ NoParty.sharedExpActive = FALSE
  /\ ToSet(NoParty.memberList) = {}
  BY PartyAssumption DEF NoParty, PartyRecord, WellFormed, Ticks, ToSet, IsInjective

LEMMA AgreeingIsNearly ==
  ASSUME NEW w \in Worlds, NEW P \in Parties, AgreeAt(w, P)
  PROVE  NearlyAt(w, P)
  <1>1. CASE w.parties[P].leader = None
    <2>1. Company(w.parties[P]) = {None}
      BY <1>1, NoPartyRecord DEF AgreeAt, WellFormed, Company
    <2> QED BY <1>1, <2>1, PartyAssumption DEF AgreeAt, NearlyAt
  <1> QED BY <1>1 DEF AgreeAt, NearlyAt

(* disband: whatever the order, the objects of D are no parties            *)
(* afterwards, and everybody knows.                                        *)
LEMMA DisbandLeavesNone ==
  ASSUME NEW w \in Worlds, NEW D \in SUBSET Parties,
         \A P \in Parties \ D : AgreeAt(w, P),
         \A P \in D : NearlyAt(w, P)
  PROVE  /\ Disbanded(w, D) \in Worlds
         /\ \A P \in Parties : AgreeAt(Disbanded(w, D), P)
         /\ \A P \in Parties : Disbanded(w, D).parties[P] =
                                IF P \in D THEN NoParty ELSE w.parties[P]
         /\ \A p \in Players : Disbanded(w, D).party[p] \in {w.party[p], None}
  <1> DEFINE v == Disbanded(w, D)
  <1>1. /\ v.parties = [P \in Parties |-> IF P \in D THEN NoParty ELSE w.parties[P]]
        /\ v.party = [p \in Players |-> IF \E P \in D : p \in Company(w.parties[P])
                                      THEN None ELSE w.party[p]]
        /\ v.invites = [p \in Players |->
                          w.invites[p] \ {P \in D : p \in w.parties[P].inviteList}]
    BY DEF Disbanded, Worlds
  <1>2. v \in Worlds
    <2> DEFINE ps == [P \in Parties |-> IF P \in D THEN NoParty ELSE w.parties[P]]
               pt == [p \in Players |-> IF \E P \in D : p \in Company(w.parties[P])
                                      THEN None ELSE w.party[p]]
               vs == [p \in Players |->
                        w.invites[p] \ {P \in D : p \in w.parties[P].inviteList}]
    <2>1. v = [w EXCEPT !.parties = ps, !.party = pt, !.invites = vs]
      BY DEF Disbanded, Worlds
    <2>2. /\ ps \in [Parties -> PartyRecord] /\ pt \in [Players -> Parties \union {None}]
          /\ vs \in [Players -> SUBSET Parties]
      BY NoPartyRecord DEF Worlds
    <2> HIDE DEF ps, pt, vs, v
    <2> QED BY <2>1, <2>2 DEF Worlds
  <1> HIDE DEF v
  <1>3. ASSUME NEW P \in Parties
        PROVE  AgreeAt(v, P)
    <2>1. CASE P \in D
      BY <1>1, <2>1, NoPartyRecord, PartyAssumption DEF AgreeAt, NearlyAt, Company, Worlds
    <2>2. CASE P \notin D
      <3>1. v.parties[P] = w.parties[P] /\ AgreeAt(w, P)
        BY <1>1, <2>2
      <3>2. \A p \in Players : v.party[p] = P <=> w.party[p] = P
        BY <1>1, <2>2, PartyAssumption DEF NearlyAt, Worlds
      <3>3. \A p \in Players : P \in v.invites[p] <=> P \in w.invites[p]
        BY <1>1, <2>2
      <3> QED BY <3>1, <3>2, <3>3 DEF AgreeAt
    <2> QED BY <2>1, <2>2
  <1> QED BY <1>1, <1>2, <1>3 DEF v

(* A leader is not alone: it has a member, or it waits for one.            *)
Peopled(r) == r.leader # None => r.memberList # <<>> \/ r.inviteList # {}

(* The party of r is gone, or has other invitations.                       *)
Reinvited(r, s) == s = NoParty \/ s = [r EXCEPT !.inviteList = s.inviteList]

(* removeInvite of p by the parties of S, which disbands the ones that are *)
(* left without anybody.                                                   *)
LEMMA UninvitedAgrees ==
  ASSUME NEW w \in Worlds, NEW S \in SUBSET Parties, NEW p \in Players,
         \A P \in Parties : AgreeAt(w, P) /\ Peopled(w.parties[P])
  PROVE  LET v == Uninvited(w, S, p) IN
         /\ v \in Worlds
         /\ \A P \in Parties : AgreeAt(v, P) /\ Peopled(v.parties[P])
         /\ \A P \in Parties : Reinvited(w.parties[P], v.parties[P])
  <1> DEFINE asking == {P \in S : p \in w.parties[P].inviteList}
             ps == [P \in Parties |-> IF P \in asking THEN NotInviting(w.parties[P], p)
                                     ELSE w.parties[P]]
             vs == [q \in Players |-> IF q = p THEN w.invites[q] \ asking ELSE w.invites[q]]
             gone == [w EXCEPT !.parties = ps, !.invites = vs]
             D == {P \in asking : Empty(gone.parties[P])}
  <1>1. Uninvited(w, S, p) = Disbanded(gone, D)
    BY DEF Uninvited
  <1>2. /\ gone \in Worlds /\ gone.parties = ps /\ gone.party = w.party /\ gone.invites = vs
    <2>1. ps \in [Parties -> PartyRecord]
      <3>1. ASSUME NEW P \in Parties
            PROVE  /\ w.parties[P] \in PartyRecord
                   /\ NotInviting(w.parties[P], p) \in PartyRecord
        <4> DEFINE r == w.parties[P]
        <4>1. r \in PartyRecord
          BY DEF Worlds
        <4> HIDE DEF r
        <4>2. NotInviting(r, p) \in PartyRecord
          BY <4>1 DEF PartyRecord, NotInviting
        <4> QED BY <4>1, <4>2 DEF r
      <3> QED BY <3>1
    <2>2. vs \in [Players -> SUBSET Parties]
      BY DEF Worlds
    <2> HIDE DEF ps, vs
    <2> QED BY <2>1, <2>2 DEF Worlds
  <1>3. ASSUME NEW P \in Parties
        PROVE  /\ P \in asking => ps[P].inviteList = w.parties[P].inviteList \ {p}
               /\ P \notin asking => ps[P] = w.parties[P]
               /\ ps[P].leader = w.parties[P].leader
               /\ ps[P].memberList = w.parties[P].memberList
               /\ Company(ps[P]) = Company(w.parties[P])
               /\ ps[P] = [w.parties[P] EXCEPT !.inviteList = ps[P].inviteList]
    <2>1. w.parties[P] \in PartyRecord
      BY DEF Worlds
    <2> QED BY <2>1 DEF PartyRecord, Company, NotInviting
  <1>4. ASSUME NEW P \in Parties, NEW q \in Players
        PROVE  P \in vs[q] <=> q \in ps[P].inviteList
    <2>1. w.parties[P] \in PartyRecord /\ w.invites \in [Players -> SUBSET Parties]
      BY DEF Worlds
    <2>2. P \in w.invites[q] <=> q \in w.parties[P].inviteList
      BY DEF AgreeAt
    <2>3. CASE P \in asking /\ q = p
      BY <2>1, <2>2, <2>3, <1>3 DEF PartyRecord
    <2>4. CASE P \notin asking \/ q # p
      BY <2>1, <2>2, <2>4, <1>3 DEF PartyRecord
    <2> QED BY <2>3, <2>4
  <1>5. ASSUME NEW P \in Parties
        PROVE  AgreeAt(gone, P)
    <2>1. WellFormed(ps[P])
      <3>1. CASE P \in asking
        <4>1. w.parties[P].leader # None
          BY <3>1, NoPartyRecord DEF AgreeAt, WellFormed
        <4> QED BY <4>1, <1>3 DEF AgreeAt, WellFormed
      <3> QED BY <1>3, <3>1 DEF AgreeAt
    <2> HIDE DEF ps, vs, gone
    <2>2. ASSUME NEW q \in Players
          PROVE  gone.party[q] = P <=> ps[P].leader # None /\ q \in Company(ps[P])
      <3>1. w.party[q] = P <=> w.parties[P].leader # None /\ q \in Company(w.parties[P])
        BY DEF AgreeAt
      <3> QED BY <1>2, <1>3, <3>1
    <2> QED BY <1>2, <1>4, <2>1, <2>2 DEF AgreeAt
  <1> HIDE DEF gone, ps, vs
  <1>6. D \in SUBSET Parties /\ \A P \in D : NearlyAt(gone, P)
    BY <1>2, <1>5, AgreeingIsNearly
  <1>7. /\ Disbanded(gone, D) \in Worlds
        /\ \A P \in Parties : AgreeAt(Disbanded(gone, D), P)
        /\ \A P \in Parties :
             Disbanded(gone, D).parties[P] = IF P \in D THEN NoParty ELSE ps[P]
    BY <1>2, <1>5, <1>6, DisbandLeavesNone
  <1>8. ASSUME NEW P \in Parties
        PROVE  P \notin D => Peopled(ps[P])
    <2>1. CASE P \in asking
      BY <1>2, <2>1 DEF Peopled, Empty
    <2>2. CASE P \notin asking
      BY <1>3, <2>2
    <2> QED BY <2>1, <2>2
  <1>9. Peopled(NoParty)
    BY NoPartyRecord DEF Peopled
  <1> HIDE DEF D
  <1>10. ASSUME NEW P \in Parties
         PROVE  LET v == Disbanded(gone, D) IN
                Peopled(v.parties[P]) /\ Reinvited(w.parties[P], v.parties[P])
    <2>1. CASE P \in D
      BY <1>7, <1>9, <2>1 DEF Reinvited
    <2>2. CASE P \notin D
      BY <1>3, <1>7, <1>8, <2>2 DEF Reinvited
    <2> QED BY <2>1, <2>2
  <1> QED BY <1>1, <1>7, <1>10

(* Shared experience is on when it must be and off when it must not,       *)
(* whatever is done with those who fought long ago.                        *)
Current(r, lv, ar) ==
  r.sharedExpActive =>
    /\ CanEnable(r, lv, ar, {"recent"}) => r.sharedExpEnabled
    /\ r.sharedExpEnabled => CanEnable(r, lv, ar, {"recent", "old"})

(* Whoever counts as having fought, the answer depends on the company      *)
(* only.                                                                   *)
LEMMA LongerAgo ==
  ASSUME NEW r, NEW lv, NEW ar, CanEnable(r, lv, ar, {"recent"})
  PROVE  CanEnable(r, lv, ar, {"recent", "old"})
  BY DEF CanEnable, CanUse

LEMMA SameAnswer ==
  ASSUME NEW r, NEW s, NEW lv, NEW lw, NEW ar, NEW aw, NEW T, NEW U,
         r.leader = s.leader, r.memberList = s.memberList,
         \A q \in Company(r) : lv[q] = lw[q],
         \A q \in Company(r) : ar[q] = aw[q],
         \A q \in Company(r) : r.ticksMap[q] \in T => s.ticksMap[q] \in U
  PROVE  CanEnable(r, lv, ar, T) => CanEnable(s, lw, aw, U)
  <1>1. Company(r) = Company(s) /\ r.leader \in Company(r)
    BY DEF Company
  <1>2. {lv[q] : q \in Company(r)} = {lw[q] : q \in Company(s)}
    <2>1. \A q \in Company(r) : lv[q] = lw[q]
      OBVIOUS
    <2>2. {lv[q] : q \in Company(r)} = {lw[q] : q \in Company(r)}
      BY <2>1
    <2> QED BY <2>2, <1>1
  <1>3. Max({lv[q] : q \in Company(r)}) = Max({lw[q] : q \in Company(s)})
    BY <1>2
  <1>4. ASSUME NEW q \in Company(s), CanUse(r, q, lv, ar, T)
        PROVE  CanUse(s, q, lw, aw, U)
    <2>1. q \in Company(r)
      BY <1>1
    <2>3. lv[q] = lw[q] /\ ar[q] = aw[q]
      BY <2>1
    <2>4. ar[r.leader] = aw[s.leader]
      <3>1. ar[r.leader] = aw[r.leader]
        BY <1>1
      <3> QED BY <3>1
    <2>2. s.ticksMap[q] \in U /\ s.memberList # <<>>
      BY <2>1, <1>4 DEF CanUse
    <2> QED BY <1>3, <1>4, <2>2, <2>3, <2>4 DEF CanUse
  <1> QED BY <1>1, <1>4 DEF CanEnable

(* updateSharedExperience brings the party up to date.                     *)
LEMMA UpdatedIsCurrent ==
  ASSUME NEW r \in PartyRecord, NEW lv, NEW ar
  PROVE  LET u == Updated(r, lv, ar) IN
         /\ u \in PartyRecord /\ Current(u, lv, ar)
         /\ u.leader = r.leader /\ u.memberList = r.memberList
         /\ u.inviteList = r.inviteList /\ u.ticksMap = r.ticksMap
         /\ u.sharedExpActive = r.sharedExpActive
  <1> DEFINE u == Updated(r, lv, ar)
             e == CanEnable(r, lv, ar, {"recent"})
  <1>1. e \in BOOLEAN
    BY DEF CanEnable
  <1>2. CASE r.sharedExpActive
    <2>1. u = [r EXCEPT !.sharedExpEnabled = e]
      BY <1>2 DEF Updated
    <2> HIDE DEF e, u
    <2>2. /\ u \in PartyRecord /\ u.sharedExpEnabled = e
          /\ u.leader = r.leader /\ u.memberList = r.memberList
          /\ u.inviteList = r.inviteList /\ u.ticksMap = r.ticksMap
          /\ u.sharedExpActive = r.sharedExpActive
      BY <1>1, <2>1 DEF PartyRecord
    <2>3. CanEnable(u, lv, ar, {"recent"}) <=> e
      BY <2>2, SameAnswer DEF e
    <2>4. e => CanEnable(u, lv, ar, {"recent", "old"})
      BY <2>3, LongerAgo
    <2> QED BY <2>2, <2>3, <2>4 DEF Current, u
  <1>3. CASE ~r.sharedExpActive
    BY <1>3 DEF Updated, Current
  <1> QED BY <1>2, <1>3

(* Two ways in which the list of a company changes.                        *)
LEMMA LedByAnother ==
  ASSUME NEW r \in PartyRecord, WellFormed(r), NEW p \in ToSet(r.memberList),
         r.leader \in Players
  PROVE  LET u == LedBy(r, p) IN
         /\ u \in PartyRecord /\ WellFormed(u) /\ u.leader = p
         /\ Company(u) = Company(r) /\ u.inviteList = r.inviteList
         /\ u.memberList # <<>> /\ u.ticksMap = r.ticksMap
         /\ u.sharedExpActive = r.sharedExpActive
  <1> DEFINE rest == RemoveFirst(r.memberList, p)
             list == <<r.leader>> \o rest
             u == LedBy(r, p)
  <1>1. r.memberList \in Seq(Players) /\ p \in Players /\ IsInjective(r.memberList)
        /\ r.leader \notin ToSet(r.memberList)
    BY DEF PartyRecord, ToSet, WellFormed
  <1>2. /\ rest \in Seq(Players) /\ IsInjective(rest)
        /\ ToSet(rest) = ToSet(r.memberList) \ {p}
    BY <1>1, Erase
  <1> HIDE DEF rest
  <1>3. /\ list \in Seq(Players) /\ IsInjective(list) /\ list # <<>>
        /\ ToSet(list) = (ToSet(r.memberList) \ {p}) \union {r.leader}
    BY <1>1, <1>2, FrontOf
  <1>4. u = [r EXCEPT !.leader = p, !.memberList = list]
    BY DEF LedBy, rest
  <1> HIDE DEF list, u
  <1>5. /\ u \in PartyRecord /\ u.leader = p /\ u.memberList = list
        /\ u.inviteList = r.inviteList /\ u.ticksMap = r.ticksMap
        /\ u.sharedExpActive = r.sharedExpActive
    BY <1>1, <1>3, <1>4 DEF PartyRecord
  <1>6. Company(u) = Company(r)
    BY <1>3, <1>5 DEF Company
  <1>7. WellFormed(u)
    BY <1>1, <1>3, <1>5, PartyAssumption DEF WellFormed
  <1> QED BY <1>3, <1>5, <1>6, <1>7 DEF u

(* A member leaves the list, and nobody else does.                         *)
LEMMA WithoutOne ==
  ASSUME NEW r \in PartyRecord, WellFormed(r), r.leader # None, NEW p
  PROVE  LET u == Without(r, p) IN
         /\ u \in PartyRecord /\ WellFormed(u) /\ u.leader = r.leader
         /\ ToSet(u.memberList) = ToSet(r.memberList) \ {p}
         /\ u.inviteList = r.inviteList
         /\ u.sharedExpActive = r.sharedExpActive
  <1> DEFINE rest == RemoveFirst(r.memberList, p)
             u == Without(r, p)
  <1>1. r.memberList \in Seq(Players) /\ IsInjective(r.memberList)
        /\ r.leader \notin ToSet(r.memberList)
    BY DEF PartyRecord, WellFormed
  <1>2. /\ rest \in Seq(Players) /\ IsInjective(rest)
        /\ ToSet(rest) = ToSet(r.memberList) \ {p}
    BY <1>1, Erase
  <1>3. u = [r EXCEPT !.memberList = rest]
    BY DEF Without
  <1> HIDE DEF rest, u
  <1>4. /\ u \in PartyRecord /\ u.leader = r.leader /\ u.memberList = rest
        /\ u.inviteList = r.inviteList /\ u.sharedExpActive = r.sharedExpActive
    BY <1>2, <1>3 DEF PartyRecord
  <1>5. WellFormed(u)
    BY <1>1, <1>2, <1>4 DEF WellFormed
  <1> QED BY <1>2, <1>4, <1>5 DEF u

(* clearPlayerPoints brings the party up to date.                          *)
LEMMA ClearedIsCurrent ==
  ASSUME NEW r \in PartyRecord, NEW p \in Players, NEW ar, Current(r, level, ar)
  PROVE  LET u == Cleared(r, p, ar) IN
         /\ u \in PartyRecord /\ Current(u, level, ar)
         /\ u.leader = r.leader /\ u.memberList = r.memberList
         /\ u.inviteList = r.inviteList
  <1> DEFINE v == [r EXCEPT !.ticksMap[p] = "none"]
  <1>1. CASE r.ticksMap[p] = "none"
    BY <1>1 DEF Cleared
  <1>2. CASE r.ticksMap[p] # "none"
    <2>1. Cleared(r, p, ar) = Updated(v, level, ar)
      BY <1>2 DEF Cleared
    <2>2. /\ v \in PartyRecord /\ v.leader = r.leader /\ v.memberList = r.memberList
          /\ v.inviteList = r.inviteList
      BY DEF PartyRecord, Ticks
    <2> HIDE DEF v
    <2> QED BY <2>1, <2>2, UpdatedIsCurrent
  <1> QED BY <1>1, <1>2

(* leaveParty: of a member, and of a leader who passes the party on or is  *)
(* the last.                                                               *)
LEMMA LeftAgrees ==
  ASSUME NEW w \in Worlds, NEW P \in Parties, NEW p \in Players, w.party[p] = P,
         \A Q \in Parties : /\ AgreeAt(w, Q) /\ Peopled(w.parties[Q])
                            /\ Current(w.parties[Q], level, area)
  PROVE  LET v == Left(w, P, p) IN
         /\ v \in Worlds /\ v.party[p] = None
         /\ \A Q \in Parties : /\ AgreeAt(v, Q) /\ Peopled(v.parties[Q])
                               /\ Current(v.parties[Q], level, area)
  <1> DEFINE r == w.parties[P]
             last == r.leader = p /\ LastToLead(r)
             led == IF r.leader = p /\ ~last
                    THEN Passed(r, Head(r.memberList)) ELSE r
             out == Updated(Without(led, p), level, area)
             after == Cleared(out, p, area)
             ps == [w.parties EXCEPT ![P] = after]
             pt == [w.party EXCEPT ![p] = None]
             gone == [w EXCEPT !.parties = ps, !.party = pt]
  <1>1. /\ r \in PartyRecord /\ WellFormed(r) /\ r.leader \in Players
        /\ p \in Company(r)
    <2>1. r \in PartyRecord /\ AgreeAt(w, P)
      BY DEF Worlds
    <2>2. r.leader # None /\ p \in Company(r) /\ WellFormed(r)
      BY <2>1 DEF AgreeAt
    <2> QED BY <2>1, <2>2 DEF PartyRecord
  <1>2. /\ led \in PartyRecord /\ WellFormed(led) /\ led.leader \in Players
        /\ Company(led) = Company(r) /\ led.inviteList = r.inviteList
        /\ ~last => led.leader # p
        /\ last => led = r
    <2>1. CASE r.leader = p /\ ~last
      <3> DEFINE h == Head(r.memberList)
                 u == LedBy(r, h)
      <3>1. r.memberList \in Seq(Players) /\ r.memberList # <<>>
        BY <1>1, <2>1 DEF PartyRecord, LastToLead
      <3>2. h \in ToSet(r.memberList) /\ h \in Players
        BY <3>1 DEF ToSet
      <3>3. h # p
        BY <1>1, <2>1, <3>2 DEF WellFormed
      <3> HIDE DEF h
      <3>4. /\ u \in PartyRecord /\ WellFormed(u) /\ u.leader = h
            /\ Company(u) = Company(r) /\ u.inviteList = r.inviteList
        BY <1>1, <3>2, LedByAnother
      <3>5. led = Updated(u, level, area)
        BY <2>1 DEF Passed, h
      <3> HIDE DEF u, led
      <3>6. /\ led \in PartyRecord /\ led.leader = u.leader /\ led.inviteList = u.inviteList
            /\ led.memberList = u.memberList
        BY <3>4, <3>5, UpdatedIsCurrent
      <3>7. WellFormed(led) /\ Company(led) = Company(u)
        BY <3>2, <3>4, <3>6, PartyAssumption DEF WellFormed, Company
      <3> QED BY <2>1, <3>2, <3>3, <3>4, <3>6, <3>7
    <2>2. CASE ~(r.leader = p /\ ~last)
      BY <1>1, <2>2
    <2> QED BY <2>1, <2>2
  <1> HIDE DEF led
  <1>3. /\ after \in PartyRecord /\ after.leader = led.leader
        /\ ToSet(after.memberList) = ToSet(led.memberList) \ {p}
        /\ after.inviteList = r.inviteList
        /\ WellFormed(after) /\ Current(after, level, area)
    <2> DEFINE u == Without(led, p)
    <2>1. /\ u \in PartyRecord /\ WellFormed(u) /\ u.leader = led.leader
          /\ ToSet(u.memberList) = ToSet(led.memberList) \ {p}
          /\ u.inviteList = led.inviteList
      BY <1>2, WithoutOne, PartyAssumption
    <2> HIDE DEF u
    <2>2. /\ out \in PartyRecord /\ Current(out, level, area)
          /\ out.leader = u.leader /\ out.memberList = u.memberList
          /\ out.inviteList = u.inviteList
      BY <2>1, UpdatedIsCurrent DEF u
    <2> HIDE DEF out
    <2>3. /\ after \in PartyRecord /\ Current(after, level, area)
          /\ after.leader = out.leader /\ after.memberList = out.memberList
          /\ after.inviteList = out.inviteList
      BY <2>2, ClearedIsCurrent
    <2> HIDE DEF after
    <2>4. WellFormed(after)
      BY <1>2, <2>1, <2>2, <2>3, PartyAssumption DEF WellFormed
    <2> QED BY <1>2, <2>1, <2>2, <2>3, <2>4
  <1>4. Left(w, P, p) = IF last \/ Empty(after) THEN Disbanded(gone, {P}) ELSE gone
    <2>1. [w EXCEPT !.parties[P] = after, !.party[p] = None] = gone
      BY DEF Worlds
    <2> QED BY <2>1 DEF Left, led
  <1> HIDE DEF after
  <1>5. gone \in Worlds /\ gone.parties = ps /\ gone.party = pt /\ gone.invites = w.invites
    <2>1. ps \in [Parties -> PartyRecord] /\ pt \in [Players -> Parties \union {None}]
      BY <1>3 DEF Worlds
    <2> HIDE DEF ps, pt
    <2> QED BY <2>1 DEF Worlds
  <1>6. /\ ps[P] = after /\ \A Q \in Parties \ {P} : ps[Q] = w.parties[Q]
        /\ pt[p] = None /\ \A q \in Players \ {p} : pt[q] = w.party[q]
    BY DEF Worlds
  <1> HIDE DEF gone, ps, pt, r, last
  <1>7. ASSUME NEW Q \in Parties \ {P}
        PROVE  AgreeAt(gone, Q)
    <2>1. AgreeAt(w, Q)
      OBVIOUS
    <2>2. \A q \in Players : pt[q] = Q <=> w.party[q] = Q
      BY <1>6, PartyAssumption
    <2> QED BY <1>5, <1>6, <2>1, <2>2 DEF AgreeAt
  <1>8. NearlyAt(gone, P)
    <2>1. ASSUME NEW q \in Players PROVE
            /\ w.party[q] = P <=> q \in Company(r)
            /\ P \in w.invites[q] <=> q \in r.inviteList
      BY <1>1, PartyAssumption DEF AgreeAt, r
    <2>2. Company(after) \subseteq Company(r)
      BY <1>2, <1>3 DEF Company
    <2>3. Company(r) \ {p} \subseteq Company(after)
      BY <1>2, <1>3 DEF Company
    <2> QED BY <1>3, <1>5, <1>6, <2>1, <2>2, <2>3, PartyAssumption DEF NearlyAt
  <1>9. ASSUME ~last PROVE AgreeAt(gone, P)
    <2>1. Company(after) = Company(r) \ {p}
      BY <1>2, <1>3, <1>9 DEF Company
    <2>2. ASSUME NEW q \in Players PROVE
            /\ w.party[q] = P <=> q \in Company(r)
            /\ P \in w.invites[q] <=> q \in r.inviteList
      BY <1>1, PartyAssumption DEF AgreeAt, r
    <2>3. after.leader # None
      BY <1>2, <1>3, PartyAssumption
    <2> QED BY <1>3, <1>5, <1>6, <2>1, <2>2, <2>3, PartyAssumption DEF AgreeAt
  <1>10. Peopled(NoParty) /\ Current(NoParty, level, area)
    BY NoPartyRecord DEF Peopled, Current
  <1>11. CASE last \/ Empty(after)
    <2> DEFINE v == Disbanded(gone, {P})
    <2>1. /\ v \in Worlds
          /\ \A Q \in Parties : AgreeAt(v, Q)
          /\ \A Q \in Parties : v.parties[Q] = IF Q = P THEN NoParty ELSE gone.parties[Q]
          /\ v.party[p] \in {gone.party[p], None}
      <3>1. {P} \in SUBSET Parties /\ \A Q \in {P} : NearlyAt(gone, Q)
        BY <1>8
      <3>2. \A Q \in Parties \ {P} : AgreeAt(gone, Q)
        BY <1>7
      <3> QED BY <1>5, <3>1, <3>2, DisbandLeavesNone
    <2> HIDE DEF v
    <2> QED BY <1>4, <1>5, <1>6, <1>10, <1>11, <2>1 DEF v
  <1>12. CASE ~(last \/ Empty(after))
    <2>1. Peopled(after)
      BY <1>12 DEF Peopled, Empty
    <2> QED BY <1>3, <1>4, <1>5, <1>6, <1>7, <1>9, <1>12, <2>1
  <1> QED BY <1>11, <1>12

(* The inductive invariant: parties and players agree, no party is empty,  *)
(* and shared experience is up to date.                                    *)
PartyInv ==
  /\ TypeOK
  /\ \A P \in Parties : AgreeAt(Now, P) /\ Peopled(parties[P])
  /\ \A P \in Parties : Current(parties[P], level, area)

LEMMA NowIsAWorld == TypeOK => Now \in Worlds
  BY DEF TypeOK, Now, Worlds, PartyRecord

(* Invitations are nothing to shared experience, ...                       *)
LEMMA OnlyInvitations ==
  ASSUME NEW r \in PartyRecord, NEW I \in SUBSET Players, NEW lv, NEW ar,
         Current(r, lv, ar)
  PROVE  Current([r EXCEPT !.inviteList = I], lv, ar)
  <1> DEFINE u == [r EXCEPT !.inviteList = I]
  <1>1. /\ u.leader = r.leader /\ u.memberList = r.memberList
        /\ u.ticksMap = r.ticksMap /\ u.sharedExpActive = r.sharedExpActive
        /\ u.sharedExpEnabled = r.sharedExpEnabled
    BY DEF PartyRecord
  <1> HIDE DEF u
  <1>2. CanEnable(u, lv, ar, {"recent"}) => CanEnable(r, lv, ar, {"recent"})
    BY <1>1, SameAnswer
  <1>3. CanEnable(r, lv, ar, {"recent", "old"}) => CanEnable(u, lv, ar, {"recent", "old"})
    BY <1>1, SameAnswer
  <1>4. Current(u, lv, ar)
    BY <1>1, <1>2, <1>3 DEF Current
  <1> QED BY <1>4 DEF u

(* ... nor is a player who is not in the party.                            *)
LEMMA Stranger ==
  ASSUME NEW w \in Worlds, NEW P \in Parties, AgreeAt(w, P),
         NEW p \in Players, w.party[p] # P,
         NEW lv, NEW ar, NEW lw, NEW aw,
         \A q \in Players \ {p} : lv[q] = lw[q] /\ ar[q] = aw[q],
         Current(w.parties[P], lv, ar)
  PROVE  Current(w.parties[P], lw, aw)
  <1> DEFINE r == w.parties[P]
  <1>1. r \in PartyRecord
    BY DEF Worlds
  <1>2. CASE r.leader = None
    <2>1. r.sharedExpActive = FALSE
      BY <1>2, NoPartyRecord DEF AgreeAt, WellFormed
    <2> QED BY <2>1 DEF Current
  <1>3. CASE r.leader # None
    <2>1. Company(r) \subseteq Players \ {p}
      <3>1. r.leader \in Players /\ ToSet(r.memberList) \subseteq Players
        BY <1>1, <1>3 DEF PartyRecord, ToSet
      <3> QED BY <1>3, <3>1 DEF AgreeAt, Company
    <2> HIDE DEF r
    <2>2. /\ \A q \in Company(r) : lv[q] = lw[q]
          /\ \A q \in Company(r) : ar[q] = aw[q]
      BY <2>1
    <2>3. CanEnable(r, lw, aw, {"recent"}) => CanEnable(r, lv, ar, {"recent"})
      BY <2>2, SameAnswer
    <2>4. CanEnable(r, lv, ar, {"recent", "old"}) => CanEnable(r, lw, aw, {"recent", "old"})
      BY <2>2, SameAnswer
    <2> QED BY <2>3, <2>4 DEF Current, r
  <1> QED BY <1>2, <1>3

(* A party that changes its leader, its list or its points, but not its    *)
(* company, leaves all in agreement.                                       *)
LEMMA Replaced ==
  ASSUME PartyInv, NEW P \in Parties, parties[P].leader # None,
         NEW u \in PartyRecord, u.leader \in Players, WellFormed(u),
         Company(u) = Company(parties[P]), u.inviteList = parties[P].inviteList,
         u.memberList = <<>> => parties[P].memberList = <<>>,
         parties' = [parties EXCEPT ![P] = u],
         UNCHANGED <<party, invitePartyList>>
  PROVE  /\ Now' \in Worlds
         /\ \A Q \in Parties : AgreeAt(Now', Q) /\ Peopled(parties'[Q])
         /\ parties'[P] = u
         /\ \A Q \in Parties \ {P} : parties'[Q] = parties[Q]
  <1>1. Now \in Worlds
    BY NowIsAWorld DEF PartyInv
  <1>2. /\ Now.parties = parties /\ Now.party = party /\ Now.invites = invitePartyList
        /\ Now'.parties = parties' /\ Now'.party = party /\ Now'.invites = invitePartyList
    BY DEF Now
  <1>3. parties'[P] = u /\ \A Q \in Parties \ {P} : parties'[Q] = parties[Q]
    BY <1>1, <1>2 DEF Worlds
  <1>4. Now' \in Worlds
    <2>1. parties' \in [Parties -> PartyRecord]
      BY <1>1, <1>2 DEF Worlds
    <2> QED BY <1>1, <1>2, <2>1 DEF Worlds, Now
  <1>5. ASSUME NEW Q \in Parties PROVE AgreeAt(Now', Q) /\ Peopled(parties'[Q])
    <2>1. AgreeAt(Now, Q) /\ Peopled(parties[Q])
      BY DEF PartyInv
    <2>2. CASE Q # P
      BY <1>2, <1>3, <2>1, <2>2 DEF AgreeAt
    <2>3. CASE Q = P
      <3>1. u.leader # None
        BY PartyAssumption
      <3>2. Peopled(u)
        BY <2>1, <2>3 DEF Peopled
      <3> QED BY <1>2, <1>3, <2>1, <2>3, <3>1, <3>2 DEF AgreeAt
    <2> QED BY <2>2, <2>3
  <1> QED BY <1>3, <1>4, <1>5

(* The invariant holds at first, ...                                       *)
LEMMA PartyBegins == Init => PartyInv
  <1> SUFFICES ASSUME Init PROVE PartyInv
    OBVIOUS
  <1>1. TypeOK
    <2>1. NoParty \in PartyRecord
      BY NoPartyRecord
    <2> QED BY <2>1, PartyAssumption DEF Init, TypeOK, PartyRecord
  <1>2. ASSUME NEW P \in Parties
        PROVE  AgreeAt(Now, P) /\ Peopled(parties[P]) /\ Current(parties[P], level, area)
    <2>1. parties[P] = NoParty
      BY DEF Init
    <2> QED BY <2>1, NoPartyRecord, PartyAssumption
            DEF Init, Now, AgreeAt, Peopled, Current
  <1> QED BY <1>1, <1>2 DEF PartyInv

(* It is enough to look at the world of the next state.                    *)
LEMMA PartyStays ==
  ASSUME PartyInv, Now' \in Worlds,
         level' \in [Players -> Levels], area' \in [Players -> Areas],
         \A P \in Parties : /\ AgreeAt(Now', P) /\ Peopled(parties'[P])
                            /\ Current(parties'[P], level', area')
  PROVE  PartyInv'
  <1>1. TypeOK'
    BY DEF TypeOK, Now, Worlds, PartyRecord
  <1>2. \A P \in Parties : AgreeAt(Now, P)'
    BY DEF AgreeAt
  <1>3. \A P \in Parties : Peopled(parties[P])' /\ Current(parties[P], level, area)'
    BY DEF Peopled, Current
  <1> QED BY <1>1, <1>2, <1>3 DEF PartyInv

(* What every party of a world in order knows: it exists when somebody is  *)
(* in it.                                                                  *)
LEMMA Belonging ==
  ASSUME PartyInv, NEW p \in Players, party[p] # None
  PROVE  /\ party[p] \in Parties
         /\ parties[party[p]] \in PartyRecord
         /\ WellFormed(parties[party[p]])
         /\ parties[party[p]].leader \in Players
         /\ p \in Company(parties[party[p]])
         /\ Current(parties[party[p]], level, area)
  <1>1. party[p] \in Parties /\ parties[party[p]] \in PartyRecord
    BY DEF PartyInv, TypeOK, PartyRecord
  <1>2. AgreeAt(Now, party[p])
    BY <1>1 DEF PartyInv
  <1>3. /\ WellFormed(parties[party[p]]) /\ parties[party[p]].leader # None
        /\ p \in Company(parties[party[p]])
    BY <1>1, <1>2 DEF AgreeAt, Now
  <1> QED BY <1>1, <1>3 DEF PartyInv, PartyRecord

(* A step that only replaces the record of the party of p, and may change  *)
(* the level or the place of p.                                            *)
LEMMA OneParty ==
  ASSUME PartyInv, NEW p \in Players, party[p] # None,
         NEW u \in PartyRecord, u.leader \in Players, WellFormed(u),
         Company(u) = Company(parties[party[p]]),
         u.inviteList = parties[party[p]].inviteList,
         u.memberList = <<>> => parties[party[p]].memberList = <<>>,
         parties' = [parties EXCEPT ![party[p]] = u],
         UNCHANGED <<party, invitePartyList>>,
         level' \in [Players -> Levels], area' \in [Players -> Areas],
         \A q \in Players \ {p} : level'[q] = level[q] /\ area'[q] = area[q],
         Current(u, level', area')
  PROVE  PartyInv'
  <1> DEFINE P == party[p]
  <1>1. P \in Parties /\ parties[P].leader # None
    BY Belonging, PartyAssumption
  <1>2. /\ Now' \in Worlds
        /\ \A Q \in Parties : AgreeAt(Now', Q) /\ Peopled(parties'[Q])
        /\ parties'[P] = u
        /\ \A Q \in Parties \ {P} : parties'[Q] = parties[Q]
    BY <1>1, Replaced
  <1>3. ASSUME NEW Q \in Parties \ {P}
        PROVE  Current(parties'[Q], level', area')
    <2>1. /\ Now \in Worlds /\ AgreeAt(Now, Q) /\ Now.party[p] # Q
          /\ Now.parties[Q] = parties[Q] /\ Current(parties[Q], level, area)
      BY NowIsAWorld DEF PartyInv, Now
    <2>2. \A q \in Players \ {p} : level[q] = level'[q] /\ area[q] = area'[q]
      OBVIOUS
    <2>3. Current(Now.parties[Q], level', area')
      BY <2>1, <2>2, Stranger
    <2> QED BY <1>2, <2>1, <2>3
  <1> HIDE DEF P
  <1>4. \A Q \in Parties : Current(parties'[Q], level', area')
    BY <1>2, <1>3
  <1> QED BY <1>2, <1>4, PartyStays

(* A step from one world in order to another.                              *)
LEMMA OtherWorld ==
  ASSUME PartyInv, NEW w \in Worlds, Becomes(w), UNCHANGED <<level, area>>,
         \A P \in Parties : /\ AgreeAt(w, P) /\ Peopled(w.parties[P])
                            /\ Current(w.parties[P], level, area)
  PROVE  PartyInv'
  <1>1. Now' = w /\ parties' = w.parties
    BY DEF Becomes, Now, Worlds
  <1>2. level' \in [Players -> Levels] /\ area' \in [Players -> Areas]
    BY DEF PartyInv, TypeOK
  <1>3. \A P \in Parties : Current(parties'[P], level', area')
    BY <1>1
  <1> QED BY <1>1, <1>2, <1>3, PartyStays

(* removeInvite leaves shared experience as it was.                        *)
LEMMA StillCurrent ==
  ASSUME PartyInv, NEW S \in SUBSET Parties, NEW p \in Players
  PROVE  LET v == Uninvited(Now, S, p) IN
         /\ v \in Worlds
         /\ \A P \in Parties : /\ AgreeAt(v, P) /\ Peopled(v.parties[P])
                               /\ Current(v.parties[P], level, area)
  <1> DEFINE v == Uninvited(Now, S, p)
  <1>1. Now \in Worlds /\ Now.parties = parties
    BY NowIsAWorld DEF PartyInv, Now
  <1>2. \A P \in Parties : AgreeAt(Now, P) /\ Peopled(Now.parties[P])
    BY <1>1 DEF PartyInv
  <1>3. /\ v \in Worlds
        /\ \A P \in Parties : AgreeAt(v, P) /\ Peopled(v.parties[P])
        /\ \A P \in Parties : Reinvited(Now.parties[P], v.parties[P])
    BY <1>1, <1>2, UninvitedAgrees
  <1> HIDE DEF v
  <1>4. ASSUME NEW P \in Parties
        PROVE  Current(v.parties[P], level, area)
    <2>1. CASE v.parties[P] = NoParty
      BY <2>1, NoPartyRecord DEF Current
    <2>2. CASE v.parties[P] = [Now.parties[P] EXCEPT !.inviteList = v.parties[P].inviteList]
      <3>1. /\ parties[P] \in PartyRecord /\ Current(parties[P], level, area)
            /\ v.parties[P].inviteList \in SUBSET Players
        BY <1>1, <1>3 DEF PartyInv, Worlds, PartyRecord
      <3> QED BY <1>1, <2>2, <3>1, OnlyInvitations
    <2> QED BY <1>3, <2>1, <2>2 DEF Reinvited
  <1> QED BY <1>3, <1>4 DEF v

(* ... every handler keeps it, ...                                         *)
LEMMA PartyStep ==
  ASSUME PartyInv, [Next]_vars
  PROVE  PartyInv'
  <1>0. /\ parties \in [Parties -> PartyRecord]
        /\ party \in [Players -> Parties \union {None}]
        /\ invitePartyList \in [Players -> SUBSET Parties]
        /\ level \in [Players -> Levels] /\ area \in [Players -> Areas]
        /\ Now \in Worlds
        /\ Now.parties = parties /\ Now.party = party /\ Now.invites = invitePartyList
    BY NowIsAWorld DEF PartyInv, TypeOK, PartyRecord, Now
  <1>1. ASSUME NEW p \in Players, NEW q \in Players, InviteFirst(p, q)
        PROVE  PartyInv'
    <2>1. PICK P \in {Q \in Parties : parties[Q].leader = None} :
            /\ parties' = [parties EXCEPT ![P].leader = p, ![P].inviteList = {q}]
            /\ party' = [party EXCEPT ![p] = P]
            /\ invitePartyList' = [invitePartyList EXCEPT ![q] = @ \union {P}]
      BY <1>1 DEF InviteFirst
    <2>2. party[p] = None /\ party[q] = None /\ UNCHANGED <<level, area>>
      BY <1>1 DEF InviteFirst
    <2> DEFINE u == [NoParty EXCEPT !.leader = p, !.inviteList = {q}]
    <2>3. parties[P] = NoParty
      <3>1. AgreeAt(Now, P)
        BY DEF PartyInv
      <3> QED BY <1>0, <2>1, <3>1 DEF AgreeAt, WellFormed
    <2>4. /\ u \in PartyRecord /\ u.leader = p /\ u.memberList = <<>>
          /\ u.inviteList = {q} /\ u.sharedExpActive = FALSE
      BY NoPartyRecord DEF PartyRecord
    <2>5. parties' = [parties EXCEPT ![P] = u]
      BY <1>0, <2>1, <2>3 DEF PartyRecord
    <2> HIDE DEF u
    <2>6. /\ Now' \in Worlds /\ Now'.parties = parties' /\ Now'.party = party'
          /\ Now'.invites = invitePartyList'
      <3>1. parties' \in [Parties -> PartyRecord]
        BY <1>0, <2>4, <2>5
      <3>2. party' \in [Players -> Parties \union {None}]
        BY <1>0, <2>1
      <3>3. invitePartyList' \in [Players -> SUBSET Parties]
        BY <1>0, <2>1
      <3> QED BY <3>1, <3>2, <3>3 DEF Now, Worlds
    <2>7. ASSUME NEW Q \in Parties \ {P}
          PROVE  /\ AgreeAt(Now', Q) /\ Peopled(parties'[Q])
                 /\ Current(parties'[Q], level', area')
      <3>1. parties'[Q] = parties[Q]
        BY <1>0, <2>5
      <3>2. AgreeAt(Now, Q) /\ Peopled(parties[Q]) /\ Current(parties[Q], level, area)
        BY DEF PartyInv
      <3>3. \A x \in Players : /\ party'[x] = Q <=> party[x] = Q
                               /\ Q \in invitePartyList'[x] <=> Q \in invitePartyList[x]
        BY <1>0, <2>1, <2>2, PartyAssumption
      <3> QED BY <1>0, <2>2, <2>6, <3>1, <3>2, <3>3 DEF AgreeAt
    <2>8. /\ AgreeAt(Now', P) /\ Peopled(parties'[P])
          /\ Current(parties'[P], level', area')
      <3>1. parties'[P] = u
        BY <1>0, <2>5
      <3>2. AgreeAt(Now, P)
        BY DEF PartyInv
      <3>3. Company(u) = {p}
        BY <2>4 DEF Company, ToSet
      <3>4. WellFormed(u)
        BY <2>4, PartyAssumption DEF WellFormed, ToSet, IsInjective
      <3>5. \A x \in Players : /\ party'[x] = P <=> x = p
                               /\ P \in invitePartyList'[x] <=> x = q
        BY <1>0, <2>1, <2>2, <2>3, <3>2, NoPartyRecord, PartyAssumption DEF AgreeAt
      <3> QED BY <2>4, <2>6, <3>1, <3>3, <3>4, <3>5, PartyAssumption
              DEF AgreeAt, Peopled, Current
    <2>9. level' \in [Players -> Levels] /\ area' \in [Players -> Areas]
      BY <1>0, <2>2
    <2> QED BY <2>6, <2>7, <2>8, <2>9, PartyStays
  <1>2. ASSUME NEW p \in Players, NEW q \in Players, Invite(p, q)
        PROVE  PartyInv'
    <2> DEFINE P == party[p]
               u == [parties[P] EXCEPT !.inviteList = @ \union {q}]
    <2>1. /\ P # None /\ parties' = [parties EXCEPT ![P].inviteList = @ \union {q}]
          /\ invitePartyList' = [invitePartyList EXCEPT ![q] = @ \union {P}]
          /\ UNCHANGED <<party, level, area>>
      BY <1>2 DEF Invite, Leads
    <2>2. /\ P \in Parties /\ parties[P] \in PartyRecord /\ WellFormed(parties[P])
          /\ parties[P].leader # None /\ Current(parties[P], level, area)
      BY <2>1, Belonging, PartyAssumption
    <2>3. /\ u \in PartyRecord /\ u.leader = parties[P].leader
          /\ u.memberList = parties[P].memberList
          /\ u.inviteList = parties[P].inviteList \union {q}
      BY <2>2 DEF PartyRecord
    <2>4. Current(u, level, area)
      <3>1. parties[P].inviteList \union {q} \in SUBSET Players
        BY <2>2 DEF PartyRecord
      <3> QED BY <2>2, <3>1, OnlyInvitations
    <2>5. parties' = [parties EXCEPT ![P] = u]
      BY <1>0, <2>1
    <2> HIDE DEF u, P
    <2>6. /\ Now' \in Worlds /\ Now'.parties = parties' /\ Now'.party = party'
          /\ Now'.invites = invitePartyList'
      <3>1. parties' \in [Parties -> PartyRecord]
        BY <1>0, <2>3, <2>5
      <3>2. party' \in [Players -> Parties \union {None}]
        BY <1>0, <2>1
      <3>3. invitePartyList' \in [Players -> SUBSET Parties]
        BY <1>0, <2>1, <2>2
      <3> QED BY <3>1, <3>2, <3>3 DEF Now, Worlds
    <2>7. ASSUME NEW Q \in Parties
          PROVE  /\ AgreeAt(Now', Q) /\ Peopled(parties'[Q])
                 /\ Current(parties'[Q], level', area')
      <3>1. AgreeAt(Now, Q) /\ Peopled(parties[Q]) /\ Current(parties[Q], level, area)
        BY DEF PartyInv
      <3>2. CASE Q # P
        <4>1. parties'[Q] = parties[Q]
          BY <1>0, <2>5, <3>2
        <4>2. \A x \in Players : Q \in invitePartyList'[x] <=> Q \in invitePartyList[x]
          BY <1>0, <2>1, <3>2
        <4>3. AgreeAt(Now', Q)
          <5>1. /\ Now'.parties[Q] = Now.parties[Q] /\ Now'.party = Now.party
                /\ \A x \in Players : Q \in Now'.invites[x] <=> Q \in Now.invites[x]
            BY <2>1, <2>6, <4>1, <4>2 DEF Now
          <5> QED BY <3>1, <5>1 DEF AgreeAt
        <4>4. level' = level /\ area' = area
          BY <2>1
        <4> QED BY <3>1, <4>1, <4>3, <4>4
      <3>3. CASE Q = P
        <4>1. parties'[Q] = u /\ Company(u) = Company(parties[P])
          BY <1>0, <2>2, <2>3, <2>5, <3>3 DEF Company
        <4>2. WellFormed(u) /\ Peopled(u)
          BY <2>2, <2>3 DEF WellFormed, Peopled
        <4>3. \A x \in Players : Q \in invitePartyList'[x] <=>
                                   x = q \/ Q \in invitePartyList[x]
          BY <1>0, <2>1, <2>2, <3>3
        <4>4. \A x \in Players :
                /\ party[x] = Q <=> x \in Company(parties[P])
                /\ Q \in invitePartyList[x] <=> x \in parties[P].inviteList
          BY <1>0, <2>2, <3>1, <3>3 DEF AgreeAt
        <4>5. AgreeAt(Now', Q)
          BY <2>1, <2>2, <2>3, <2>6, <4>1, <4>2, <4>3, <4>4 DEF AgreeAt
        <4> QED BY <2>1, <2>4, <4>1, <4>2, <4>5
      <3> QED BY <3>2, <3>3
    <2>8. level' \in [Players -> Levels] /\ area' \in [Players -> Areas]
      BY <1>0, <2>1
    <2> QED BY <2>6, <2>7, <2>8, PartyStays
  <1>3. ASSUME NEW p \in Players, NEW leader \in Players, Join(p, leader)
        PROVE  PartyInv'
    <2> DEFINE P == party[leader]
               r == parties[P]
               list == Append(r.memberList, p)
               j == [r EXCEPT !.inviteList = @ \ {p}, !.memberList = Append(@, p)]
               u == Updated(j, level, area)
    <2>1. /\ P # None /\ party[p] = None
          /\ parties' = [parties EXCEPT ![P] = u]
          /\ party' = [party EXCEPT ![p] = P]
          /\ invitePartyList' = [invitePartyList EXCEPT ![p] = @ \ {P}]
          /\ UNCHANGED <<level, area>>
      BY <1>3 DEF Join, IsInviting
    <2>2. /\ P \in Parties /\ r \in PartyRecord /\ WellFormed(r)
          /\ r.leader \in Players /\ AgreeAt(Now, P)
      <3>1. P \in Parties /\ r \in PartyRecord /\ WellFormed(r) /\ r.leader \in Players
        BY <2>1, Belonging
      <3> QED BY <3>1 DEF PartyInv
    <2>3. p \notin Company(r)
      BY <1>0, <2>1, <2>2, PartyAssumption DEF AgreeAt
    <2>4. /\ list \in Seq(Players) /\ IsInjective(list) /\ list # <<>>
          /\ ToSet(list) = ToSet(r.memberList) \union {p}
      <3>1. /\ r.memberList \in Seq(Players) /\ IsInjective(r.memberList)
            /\ p \notin ToSet(r.memberList)
        BY <2>2, <2>3 DEF PartyRecord, WellFormed, Company
      <3> QED BY <3>1, BackOf
    <2>5. /\ j \in PartyRecord /\ j.leader = r.leader /\ j.memberList = list
          /\ j.inviteList = r.inviteList \ {p}
      <3>1. j = [r EXCEPT !.inviteList = r.inviteList \ {p}, !.memberList = list]
        BY <2>2 DEF PartyRecord
      <3> HIDE DEF list, j, r
      <3> QED BY <2>2, <2>4, <3>1 DEF PartyRecord
    <2> HIDE DEF j, list
    <2>6. /\ u \in PartyRecord /\ u.leader = r.leader /\ u.memberList = list
          /\ u.inviteList = r.inviteList \ {p} /\ Current(u, level, area)
      BY <2>5, UpdatedIsCurrent
    <2> HIDE DEF u, r, P
    <2>7. /\ Now' \in Worlds /\ Now'.parties = parties' /\ Now'.party = party'
          /\ Now'.invites = invitePartyList'
      <3>1. /\ parties' \in [Parties -> PartyRecord]
            /\ party' \in [Players -> Parties \union {None}]
            /\ invitePartyList' \in [Players -> SUBSET Parties]
        BY <1>0, <2>1, <2>2, <2>6
      <3> QED BY <3>1 DEF Now, Worlds
    <2>8. ASSUME NEW Q \in Parties
          PROVE  /\ AgreeAt(Now', Q) /\ Peopled(parties'[Q])
                 /\ Current(parties'[Q], level', area')
      <3>1. AgreeAt(Now, Q) /\ Peopled(parties[Q]) /\ Current(parties[Q], level, area)
        BY DEF PartyInv
      <3>2. CASE Q # P
        <4>1. parties'[Q] = parties[Q]
          BY <1>0, <2>1, <3>2
        <4>2. \A x \in Players : /\ Q \in invitePartyList'[x] <=> Q \in invitePartyList[x]
                                 /\ party'[x] = Q <=> party[x] = Q
          BY <1>0, <2>1, <2>2, <3>2, PartyAssumption
        <4> QED BY <1>0, <2>1, <2>7, <3>1, <4>1, <4>2 DEF AgreeAt
      <3>3. CASE Q = P
        <4>1. parties'[Q] = u /\ Company(u) = Company(r) \union {p}
          BY <1>0, <2>2, <2>4, <2>6, <2>1, <3>3 DEF Company
        <4>2. WellFormed(u) /\ Peopled(u)
          BY <2>2, <2>3, <2>4, <2>6, PartyAssumption DEF WellFormed, Peopled, Company
        <4>3. \A x \in Players : /\ Q \in invitePartyList'[x] <=>
                                      x # p /\ Q \in invitePartyList[x]
                                 /\ party'[x] = Q <=> x = p \/ party[x] = Q
          BY <1>0, <2>1, <2>2, <3>3, PartyAssumption
        <4>4. u.leader # None /\ r.leader # None
          BY <2>2, <2>6, PartyAssumption
        <4>5. \A x \in Players :
                /\ party[x] = Q <=> x \in Company(r)
                /\ Q \in invitePartyList[x] <=> x \in r.inviteList
          BY <1>0, <2>2, <3>1, <3>3, <4>4 DEF AgreeAt, r
        <4>6. AgreeAt(Now', Q)
          BY <2>6, <2>7, <4>1, <4>2, <4>3, <4>4, <4>5 DEF AgreeAt
        <4>7. Current(parties'[Q], level', area')
          BY <2>1, <2>6, <4>1
        <4> QED BY <4>1, <4>2, <4>6, <4>7
      <3> QED BY <3>2, <3>3
    <2>9. level' \in [Players -> Levels] /\ area' \in [Players -> Areas]
      BY <1>0, <2>1
    <2> QED BY <2>7, <2>8, <2>9, PartyStays
  <1>4. ASSUME NEW p \in Players, NEW q \in Players, Revoke(p, q)
        PROVE  PartyInv'
    <2>1. {party[p]} \in SUBSET Parties
      BY <1>0, <1>4 DEF Revoke, IsInviting
    <2>2. Becomes(Uninvited(Now, {party[p]}, q)) /\ UNCHANGED <<level, area>>
      BY <1>4 DEF Revoke
    <2> QED BY <2>1, <2>2, StillCurrent, OtherWorld
  <1>5. ASSUME NEW p \in Players, NEW q \in Players, PassLeadership(p, q)
        PROVE  PartyInv'
    <2> DEFINE r == parties[party[p]]
               v == LedBy(r, q)
               u == Updated(v, level, area)
    <2>1. /\ party[p] # None /\ r.leader = p /\ q # p /\ party[q] = party[p]
          /\ parties' = [parties EXCEPT ![party[p]] = u]
          /\ UNCHANGED <<party, invitePartyList, level, area>>
      <3>1. parties' = [parties EXCEPT ![party[p]] = Passed(parties[party[p]], q)]
        BY <1>0, <1>5 DEF PassLeadership
      <3> QED BY <1>5, <3>1 DEF PassLeadership, Leads, Passed
    <2>2. /\ party[p] \in Parties /\ r \in PartyRecord /\ WellFormed(r) /\ r.leader \in Players
          /\ q \in ToSet(r.memberList)
      <3>1. q \in Company(r)
        BY <2>1, Belonging
      <3>2. party[p] \in Parties /\ r \in PartyRecord /\ WellFormed(r) /\ r.leader \in Players
        BY <2>1, Belonging
      <3> QED BY <2>1, <3>1, <3>2 DEF Company
    <2>3. /\ v \in PartyRecord /\ WellFormed(v) /\ v.leader = q
          /\ Company(v) = Company(r) /\ v.inviteList = r.inviteList
          /\ v.memberList # <<>>
      BY <2>2, LedByAnother
    <2> HIDE DEF v
    <2>4. /\ u \in PartyRecord /\ u.leader = q /\ u.memberList = v.memberList
          /\ u.inviteList = v.inviteList /\ Current(u, level, area)
      BY <2>3, UpdatedIsCurrent
    <2> HIDE DEF u
    <2>5. WellFormed(u) /\ Company(u) = Company(r)
      BY <2>3, <2>4, PartyAssumption DEF WellFormed, Company
    <2>6. Current(u, level', area')
      BY <2>1, <2>4
    <2> QED BY <1>0, <2>1, <2>3, <2>4, <2>5, <2>6, OneParty
  <1>6. ASSUME NEW p \in Players, Leave(p)
        PROVE  PartyInv'
    <2> DEFINE w == Left(Now, party[p], p)
    <2>1. /\ party[p] \in Parties /\ Becomes(w) /\ UNCHANGED <<level, area>>
      BY <1>0, <1>6 DEF Leave
    <2>2. \A Q \in Parties : /\ AgreeAt(Now, Q) /\ Peopled(Now.parties[Q])
                             /\ Current(Now.parties[Q], level, area)
      BY <1>0 DEF PartyInv
    <2>3. /\ w \in Worlds
          /\ \A Q \in Parties : /\ AgreeAt(w, Q) /\ Peopled(w.parties[Q])
                                /\ Current(w.parties[Q], level, area)
      BY <1>0, <2>1, <2>2, LeftAgrees
    <2> HIDE DEF w
    <2> QED BY <2>1, <2>3, OtherWorld
  <1>7. ASSUME NEW p \in Players, LeaveGame(p)
        PROVE  PartyInv'
    <2> DEFINE w == UninvitedByAll(Now, p)
               v == IF w.party[p] = None THEN w ELSE Left(w, w.party[p], p)
    <2>1. /\ Becomes(v) /\ UNCHANGED area
          /\ level' \in {[level EXCEPT ![p] = l] : l \in Levels}
      BY <1>7 DEF LeaveGame
    <2>2. /\ w \in Worlds
          /\ \A Q \in Parties : /\ AgreeAt(w, Q) /\ Peopled(w.parties[Q])
                                /\ Current(w.parties[Q], level, area)
      <3>1. invitePartyList[p] \in SUBSET Parties
        BY <1>0
      <3> QED BY <1>0, <3>1, StillCurrent DEF UninvitedByAll
    <2> HIDE DEF w
    <2>3. /\ v \in Worlds /\ v.party[p] = None
          /\ \A Q \in Parties : /\ AgreeAt(v, Q) /\ Peopled(v.parties[Q])
                                /\ Current(v.parties[Q], level, area)
      <3>1. CASE w.party[p] = None
        BY <2>2, <3>1
      <3>2. CASE w.party[p] # None
        <4>1. w.party[p] \in Parties
          BY <2>2, <3>2 DEF Worlds
        <4> QED BY <2>2, <3>2, <4>1, LeftAgrees
      <3> QED BY <3>1, <3>2
    <2> HIDE DEF v
    <2>4. Now' = v /\ parties' = v.parties
      BY <2>1, <2>3 DEF Becomes, Now, Worlds
    <2>5. \A q \in Players \ {p} : level[q] = level'[q]
      BY <1>0, <2>1
    <2>6. ASSUME NEW Q \in Parties PROVE Current(v.parties[Q], level', area')
      <3>1. v.party[p] # Q
        BY <2>3, PartyAssumption
      <3>2. \A q \in Players \ {p} : level[q] = level'[q] /\ area[q] = area'[q]
        BY <2>1, <2>5
      <3> QED BY <2>3, <3>1, <3>2, Stranger
    <2>7. level' \in [Players -> Levels] /\ area' \in [Players -> Areas]
      BY <1>0, <2>1
    <2> QED BY <2>3, <2>4, <2>6, <2>7, PartyStays
  <1>8. ASSUME NEW p \in Players, NEW on \in BOOLEAN, SetSharedExperience(p, on)
        PROVE  PartyInv'
    <2> DEFINE r == parties[party[p]]
               v == [r EXCEPT !.sharedExpActive = on]
               u == Updated(v, level, area)
    <2>1. /\ party[p] # None /\ parties' = [parties EXCEPT ![party[p]] = u]
          /\ UNCHANGED <<party, invitePartyList, level, area>>
      BY <1>8 DEF SetSharedExperience, Leads
    <2>2. r \in PartyRecord /\ WellFormed(r) /\ r.leader \in Players
      BY <2>1, Belonging
    <2>3. /\ v \in PartyRecord /\ v.leader = r.leader /\ v.memberList = r.memberList
          /\ v.inviteList = r.inviteList
      BY <2>2 DEF PartyRecord
    <2> HIDE DEF v, r
    <2>4. /\ u \in PartyRecord /\ u.leader = v.leader /\ u.memberList = v.memberList
          /\ u.inviteList = v.inviteList /\ Current(u, level, area)
      BY <2>3, UpdatedIsCurrent
    <2> HIDE DEF u
    <2>5. WellFormed(u) /\ Company(u) = Company(r)
      BY <2>2, <2>3, <2>4, PartyAssumption DEF WellFormed, Company
    <2>6. Current(u, level', area')
      BY <2>1, <2>4
    <2> QED BY <1>0, <2>1, <2>2, <2>3, <2>4, <2>5, <2>6, OneParty DEF r
  <1>9. ASSUME NEW p \in Players, Fight(p)
        PROVE  PartyInv'
    <2> DEFINE r == parties[party[p]]
               v == [r EXCEPT !.ticksMap[p] = "recent"]
               u == Updated(v, level, area)
    <2>1. /\ party[p] # None /\ parties' = [parties EXCEPT ![party[p]] = u]
          /\ UNCHANGED <<party, invitePartyList, level, area>>
      BY <1>0, <1>9 DEF Fight
    <2>2. r \in PartyRecord /\ WellFormed(r) /\ r.leader \in Players
      BY <2>1, Belonging
    <2>3. /\ v \in PartyRecord /\ v.leader = r.leader /\ v.memberList = r.memberList
          /\ v.inviteList = r.inviteList
      BY <2>2 DEF PartyRecord, Ticks
    <2> HIDE DEF v, r
    <2>4. /\ u \in PartyRecord /\ u.leader = v.leader /\ u.memberList = v.memberList
          /\ u.inviteList = v.inviteList /\ Current(u, level, area)
      BY <2>3, UpdatedIsCurrent
    <2> HIDE DEF u
    <2>5. WellFormed(u) /\ Company(u) = Company(r)
      BY <2>2, <2>3, <2>4, PartyAssumption DEF WellFormed, Company
    <2>6. Current(u, level', area')
      BY <2>1, <2>4
    <2> QED BY <1>0, <2>1, <2>2, <2>3, <2>4, <2>5, <2>6, OneParty DEF r
  <1>10. ASSUME NEW p \in Players, Idle(p)
         PROVE  PartyInv'
    <2> DEFINE r == parties[party[p]]
               u == Cleared(r, p, area)
    <2>1. /\ party[p] # None /\ parties' = [parties EXCEPT ![party[p]] = u]
          /\ UNCHANGED <<party, invitePartyList, level, area>>
      BY <1>0, <1>10 DEF Idle
    <2>2. /\ r \in PartyRecord /\ WellFormed(r) /\ r.leader \in Players
          /\ Current(r, level, area)
      BY <2>1, Belonging
    <2> HIDE DEF r
    <2>3. /\ u \in PartyRecord /\ u.leader = r.leader /\ u.memberList = r.memberList
          /\ u.inviteList = r.inviteList /\ Current(u, level, area)
      BY <2>2, ClearedIsCurrent
    <2> HIDE DEF u
    <2>4. WellFormed(u) /\ Company(u) = Company(r)
      BY <2>2, <2>3, PartyAssumption DEF WellFormed, Company
    <2>5. Current(u, level', area')
      BY <2>1, <2>3
    <2> QED BY <1>0, <2>1, <2>2, <2>3, <2>4, <2>5, OneParty DEF r
  <1>11. ASSUME NEW p \in Players, TimePasses(p)
         PROVE  PartyInv'
    <2> DEFINE r == parties[party[p]]
               u == [r EXCEPT !.ticksMap[p] = "old"]
    <2>1. /\ party[p] # None /\ parties' = [parties EXCEPT ![party[p]] = u]
          /\ r.ticksMap[p] = "recent"
          /\ UNCHANGED <<party, invitePartyList, level, area>>
      BY <1>0, <1>11 DEF TimePasses
    <2>2. /\ r \in PartyRecord /\ WellFormed(r) /\ r.leader \in Players
          /\ Current(r, level, area)
      BY <2>1, Belonging
    <2>3. /\ u \in PartyRecord /\ u.leader = r.leader /\ u.memberList = r.memberList
          /\ u.inviteList = r.inviteList /\ u.sharedExpActive = r.sharedExpActive
          /\ u.sharedExpEnabled = r.sharedExpEnabled
          /\ u.ticksMap = [r.ticksMap EXCEPT ![p] = "old"]
          /\ r.ticksMap \in [Players -> Ticks]
      BY <2>2 DEF PartyRecord, Ticks
    <2> HIDE DEF u, r
    <2>4. WellFormed(u) /\ Company(u) = Company(r)
      BY <2>2, <2>3, PartyAssumption DEF WellFormed, Company
    <2>5. Company(r) \subseteq Players
      BY <2>2 DEF Company, PartyRecord, ToSet
    <2>6. CanEnable(u, level, area, {"recent"}) => CanEnable(r, level, area, {"recent"})
      <3>1. \A x \in Company(u) :
              u.ticksMap[x] \in {"recent"} => r.ticksMap[x] \in {"recent"}
        BY <2>1, <2>3, <2>4, <2>5
      <3> QED BY <2>3, <3>1, SameAnswer
    <2>7. CanEnable(r, level, area, {"recent", "old"}) =>
            CanEnable(u, level, area, {"recent", "old"})
      <3>1. \A x \in Company(r) :
              r.ticksMap[x] \in {"recent", "old"} => u.ticksMap[x] \in {"recent", "old"}
        BY <2>1, <2>3, <2>5
      <3> QED BY <2>3, <3>1, SameAnswer
    <2>8. Current(u, level', area')
      BY <2>1, <2>2, <2>3, <2>6, <2>7 DEF Current
    <2> QED BY <1>0, <2>1, <2>2, <2>3, <2>4, <2>8, OneParty DEF r
  <1>12. ASSUME NEW p \in Players, UNCHANGED <<party, invitePartyList>>,
                level' \in [Players -> Levels], area' \in [Players -> Areas],
                \A q \in Players \ {p} : level'[q] = level[q] /\ area'[q] = area[q],
                parties' = PartyUpdated(p, level', area')
         PROVE  PartyInv'
    <2>1. CASE party[p] = None
      <3>1. parties' = parties /\ Now' = Now
        BY <1>12, <2>1 DEF PartyUpdated, Now
      <3>2. ASSUME NEW Q \in Parties
            PROVE  Current(parties'[Q], level', area')
        <4>1. /\ Now \in Worlds /\ AgreeAt(Now, Q) /\ Now.party[p] # Q
              /\ Current(Now.parties[Q], level, area)
          BY <1>0, <2>1, PartyAssumption DEF PartyInv
        <4>2. \A q \in Players \ {p} : level[q] = level'[q] /\ area[q] = area'[q]
          BY <1>12
        <4>3. Current(Now.parties[Q], level', area')
          BY <4>1, <4>2, Stranger
        <4> QED BY <1>0, <3>1, <4>3
      <3>3. \A Q \in Parties : AgreeAt(Now', Q) /\ Peopled(parties'[Q])
        BY <3>1 DEF PartyInv
      <3> QED BY <1>0, <1>12, <3>1, <3>2, <3>3, PartyStays
    <2>2. CASE party[p] # None
      <3> DEFINE r == parties[party[p]]
                 u == Updated(r, level', area')
      <3>1. parties' = [parties EXCEPT ![party[p]] = u]
        BY <1>0, <1>12, <2>2 DEF PartyUpdated
      <3>2. r \in PartyRecord /\ WellFormed(r) /\ r.leader \in Players
        BY <2>2, Belonging
      <3> HIDE DEF r
      <3>3. /\ u \in PartyRecord /\ u.leader = r.leader /\ u.memberList = r.memberList
            /\ u.inviteList = r.inviteList /\ Current(u, level', area')
        BY <3>2, UpdatedIsCurrent
      <3> HIDE DEF u
      <3>4. WellFormed(u) /\ Company(u) = Company(r)
        BY <3>2, <3>3, PartyAssumption DEF WellFormed, Company
      <3> QED BY <1>12, <2>2, <3>1, <3>2, <3>3, <3>4, OneParty DEF r
    <2> QED BY <2>1, <2>2
  <1>13. ASSUME NEW p \in Players, NEW a \in Areas, Move(p, a)
         PROVE  PartyInv'
    <2>1. /\ UNCHANGED <<party, invitePartyList, level>>
          /\ area' = [area EXCEPT ![p] = a]
          /\ parties' = PartyUpdated(p, level, area')
      BY <1>13 DEF Move
    <2>2. level' \in [Players -> Levels] /\ area' \in [Players -> Areas]
      BY <1>0, <2>1
    <2>3. \A q \in Players \ {p} : level'[q] = level[q] /\ area'[q] = area[q]
      BY <1>0, <2>1
    <2>4. parties' = PartyUpdated(p, level', area')
      BY <2>1
    <2> QED BY <1>12, <2>1, <2>2, <2>3, <2>4
  <1>14. ASSUME NEW p \in Players, NEW l \in Levels, ChangeLevel(p, l)
         PROVE  PartyInv'
    <2>1. /\ UNCHANGED <<party, invitePartyList, area>>
          /\ level' = [level EXCEPT ![p] = l]
          /\ parties' = PartyUpdated(p, level', area)
      BY <1>14 DEF ChangeLevel
    <2>2. level' \in [Players -> Levels] /\ area' \in [Players -> Areas]
      BY <1>0, <2>1
    <2>3. \A q \in Players \ {p} : level'[q] = level[q] /\ area'[q] = area[q]
      BY <1>0, <2>1
    <2>4. parties' = PartyUpdated(p, level', area')
      BY <2>1
    <2> QED BY <1>12, <2>1, <2>2, <2>3, <2>4
  <1>15. ASSUME UNCHANGED vars PROVE PartyInv'
    <2>1. Now' = Now /\ parties' = parties /\ level' = level /\ area' = area
      BY <1>15 DEF vars, Now
    <2>2. \A Q \in Parties : /\ AgreeAt(Now', Q) /\ Peopled(parties'[Q])
                             /\ Current(parties'[Q], level', area')
      BY <2>1 DEF PartyInv
    <2> QED BY <1>0, <2>1, <2>2, PartyStays
  <1> QED BY <1>1, <1>2, <1>3, <1>4, <1>5, <1>6, <1>7, <1>8, <1>9, <1>10,
             <1>11, <1>13, <1>14, <1>15 DEF Next

(* ... and it implies what the run checks.                                 *)
LEMMA PartyInvSuffices == PartyInv => TypeOK /\ PartiesAreSound
  <1> SUFFICES ASSUME PartyInv PROVE TypeOK /\ PartiesAreSound
    OBVIOUS
  <1>1. TypeOK
    BY DEF PartyInv
  <1>2. PointersAgree
    BY DEF PartyInv, AgreeAt, Now, WellFormed, PointersAgree, Existing
  <1>3. NobodyIsAlone
    <2> SUFFICES ASSUME NEW P \in Existing
                 PROVE  ToSet(parties[P].memberList) \union parties[P].inviteList # {}
      BY DEF NobodyIsAlone
    <2>1. /\ parties[P].memberList \in Seq(Players)
          /\ parties[P].memberList # <<>> \/ parties[P].inviteList # {}
      BY DEF PartyInv, TypeOK, Peopled, Existing
    <2>2. parties[P].memberList # <<>> =>
            parties[P].memberList[1] \in ToSet(parties[P].memberList)
      BY <2>1 DEF ToSet
    <2> QED BY <2>1, <2>2
  <1>4. SharingIsCurrent
    BY DEF PartyInv, Current, SharingIsCurrent, Existing
  <1> QED BY <1>1, <1>2, <1>3, <1>4 DEF PartiesAreSound
-----------------------------------------------------------------------------
(***************************************************************************)
(* Chat channels (see Talk).                                               *)
(***************************************************************************)
(* A player who is out of the game is in no party, and one who is in it    *)
(* has been in the guild and in the party that it is in.                   *)
BeenThere ==
  \A p \in Talkers :
    /\ p \notin inGame => partyOf[p] = Nobody
    /\ p \in inGame => {guildOf[p], partyOf[p]} \ {Nobody} \subseteq been[p]

(* A private channel exists while it is owned, its owner has no other and  *)
(* hears it, and nobody does who is not invited.                           *)
OwnedAt(i) ==
  /\ <<"private", i>> \in DOMAIN users <=> owner[i] # Nobody
  /\ owner[i] # Nobody =>
       /\ owner[i] \in users[<<"private", i>>]
       /\ users[<<"private", i>>] \subseteq {owner[i]} \union invites[i]
       /\ \A j \in PrivateNumbers : owner[j] = owner[i] => j = i
Owned == \A i \in PrivateNumbers : OwnedAt(i)

(* Channels hold pointers to players in the game only, and so do guilds.   *)
Hearers ==
  /\ \A k \in DOMAIN users : users[k] \subseteq inGame
  /\ \A i \in PrivateNumbers : invites[i] \subseteq inGame

(* A guild knows those of its members who are in the game; others, and     *)
(* those who are gone, only if a player has deserted it.                   *)
MembersOf(g) ==
  /\ \A p \in inGame : guildOf[p] = g => p \in membersOnline[g]
  /\ \A p \in membersOnline[g] : p \in inGame /\ (guildOf[p] = g \/ g \in deserted)
  /\ g \in dangling => g \in deserted
  /\ membersOnline[g] # {} \/ g \in dangling => g \in guilds
Members == \A g \in Brotherhoods : MembersOf(g)

(* The inductive invariant: whoever hears a private channel owns it or was *)
(* invited, and no pointer outlives its player.                            *)
ChatInv ==
  /\ Ta!ChatTypeOK /\ BeenThere /\ Owned /\ Hearers /\ Members
  /\ Ta!OnlyFormerMembers

(* The invariant holds at first, ...                                       *)
LEMMA ChatBegins == Ta!ChatInit => ChatInv
  <1> SUFFICES ASSUME Ta!ChatInit PROVE ChatInv
    OBVIOUS
  <1> USE DEF Ta!ChatInit
  <1>1. Ta!ChatTypeOK
    BY DEF Ta!ChatTypeOK, Ta!Kinds, Ta!Names, Ta!Existing
  <1>2. BeenThere /\ Hearers /\ Members
    BY DEF BeenThere, Hearers, Members, MembersOf
  <1>3. Owned
    BY DEF Owned, OwnedAt
  <1>4. Ta!OnlyFormerMembers
    BY DEF Ta!OnlyFormerMembers, Ta!Existing
  <1> QED BY <1>1, <1>2, <1>3, <1>4 DEF ChatInv

(* ... every operation keeps it, ...                                       *)
LEMMA ChatStep ==
  ASSUME ChatInv, [Ta!ChatNext]_chatVars
  PROVE  ChatInv'
  <1> USE TalkAssumption DEF ChatInv, Ta!Existing, Ta!ChatTypeOK, Ta!guildVars
  <1>1. ASSUME NEW p \in Talkers, Ta!RequestChannels(p)
       PROVE  ChatInv'
    <2> USE <1>1 DEF Ta!RequestChannels, Ta!Opened
    <2>1. Ta!ChatTypeOK'
      BY DEF Ta!ChatTypeOK, Ta!Kinds, Ta!Names
    <2>2. BeenThere'
      BY DEF BeenThere
    <2>3. Owned'
      <3> SUFFICES ASSUME NEW i \in PrivateNumbers PROVE OwnedAt(i)'
        BY DEF Owned
      <3> USE DEF OwnedAt
      <3>0. OwnedAt(i)
        BY DEF Owned
      <3>1. (<<"private", i>> \in DOMAIN users' <=> <<"private", i>> \in DOMAIN users)
        OBVIOUS
      <3>2. <<"private", i>> \in DOMAIN users =>
              users'[<<"private", i>>] = users[<<"private", i>>]
        OBVIOUS
      <3> QED BY <3>0, <3>1, <3>2 DEF Owned
    <2>4. Hearers'
      BY DEF Hearers
    <2>5. Members'
      BY DEF Members, MembersOf
    <2>6. Ta!OnlyFormerMembers'
      BY DEF Ta!OnlyFormerMembers
    <2> QED BY <2>1, <2>2, <2>3, <2>4, <2>5, <2>6
  <1>2. ASSUME NEW p \in Talkers, Ta!CreatePrivateChannel(p)
       PROVE  ChatInv'
    <2> USE <1>2 DEF Ta!CreatePrivateChannel, Ta!Private, Ta!OwnChannels,
            Ta!Opened
    <2>1. Ta!ChatTypeOK'
      BY DEF Ta!ChatTypeOK, Ta!Kinds, Ta!Names
    <2>2. BeenThere'
      BY DEF BeenThere
    <2>3. Owned'
      <3> SUFFICES ASSUME NEW i \in PrivateNumbers PROVE OwnedAt(i)'
        BY DEF Owned
      <3> USE DEF OwnedAt
      <3>0. OwnedAt(i)
        BY DEF Owned
      <3>1. PICK m \in PrivateNumbers :
              /\ <<"private", m>> \notin DOMAIN users
              /\ owner' = [owner EXCEPT ![m] = p]
              /\ users' = [Ta!Opened(users, {Ta!Private(m)})
                             EXCEPT ![Ta!Private(m)] = {p}]
        OBVIOUS
      <3>2. \A j \in PrivateNumbers : owner[j] # p
        <4> SUFFICES ASSUME NEW j \in PrivateNumbers, owner[j] = p PROVE FALSE
          OBVIOUS
        <4>1. <<"private", j>> \in Ta!OwnChannels(p)
          OBVIOUS
        <4> QED BY <4>1
      <3>3. DOMAIN users' = DOMAIN users \union {<<"private", m>>}
        BY <3>1
      <3>4. \A c \in DOMAIN users' : users'[c] = IF c = <<"private", m>> THEN {p} ELSE users[c]
        BY <3>1, <3>3
      <3>5. \A j \in PrivateNumbers : owner'[j] = IF j = m THEN p ELSE owner[j]
        BY <3>1
      <3>6. (<<"private", i>> = <<"private", m>> <=> i = m)
        OBVIOUS
      <3>7. CASE i = m
        BY <3>1, <3>2, <3>3, <3>4, <3>5, <3>7
      <3>8. CASE i # m
        BY <3>0, <3>2, <3>3, <3>4, <3>5, <3>6, <3>8
      <3> QED BY <3>7, <3>8
    <2>4. Hearers'
      BY DEF Hearers
    <2>5. Members'
      BY DEF Members, MembersOf
    <2>6. Ta!OnlyFormerMembers'
      BY DEF Ta!OnlyFormerMembers
    <2> QED BY <2>1, <2>2, <2>3, <2>4, <2>5, <2>6
  <1>3. ASSUME NEW p \in Talkers, Ta!LogOut(p)
       PROVE  ChatInv'
    <2> USE <1>3 DEF Ta!LogOut, Ta!Private, Ta!OwnChannels, Ta!Disowned,
            Ta!WithoutAnywhere
    <2>1. Ta!ChatTypeOK'
      BY DEF Ta!ChatTypeOK, Ta!Kinds, Ta!Names, Ta!LeftBy
    <2>2. BeenThere'
      BY DEF BeenThere
    <2>3. Owned'
      <3> SUFFICES ASSUME NEW i \in PrivateNumbers PROVE OwnedAt(i)'
        BY DEF Owned
      <3> USE DEF OwnedAt
      <3>0. OwnedAt(i)
        BY DEF Owned
      <3>1. <<"private", i>> \in Ta!OwnChannels(p) <=> owner[i] = p
        OBVIOUS
      <3>2. <<"private", i>> \in DOMAIN users' <=>
              <<"private", i>> \in DOMAIN users /\ owner[i] # p
        BY <3>1
      <3>3. <<"private", i>> \in DOMAIN users' =>
              users'[<<"private", i>>] = users[<<"private", i>>] \ {p}
        OBVIOUS
      <3>4. \A j \in PrivateNumbers : owner'[j] = IF owner[j] = p THEN Nobody ELSE owner[j]
        OBVIOUS
      <3>5. invites'[i] = IF owner[i] = p THEN {} ELSE invites[i] \ {p}
        OBVIOUS
      <3> QED BY <3>0, <3>2, <3>3, <3>4, <3>5
    <2>4. Hearers'
      BY DEF Hearers
    <2>5. Members'
      <3> SUFFICES ASSUME NEW x \in Brotherhoods PROVE MembersOf(x)'
        BY DEF Members
      <3> USE DEF MembersOf, Ta!LeftBy, Ta!LastOf
      <3>0. MembersOf(x)
        BY DEF Members
      <3>1. membersOnline'[x] = membersOnline[x] \ {p}
        OBVIOUS
      <3>2. \A q \in inGame' : q # p /\ q \in inGame /\ guildOf'[q] = guildOf[q]
        OBVIOUS
      <3>3. CASE x \in Ta!LeftBy(p)
        <4>1. membersOnline'[x] = {} /\ x \notin dangling /\ x \notin dangling'
          BY <3>1, <3>3
        <4> QED BY <3>0, <3>2, <4>1
      <3>4. CASE x \notin Ta!LeftBy(p)
        <4>1. (x \in deserted' <=> x \in deserted) /\ (x \in guilds' <=> x \in guilds)
          BY <3>4
        <4>2. x \in dangling' => x \in dangling \/ (p \in membersOnline[x] /\ guildOf[p] # x)
          OBVIOUS
        <4> QED BY <3>0, <3>1, <3>2, <4>1, <4>2
      <3> QED BY <3>3, <3>4
    <2>6. Ta!OnlyFormerMembers'
      BY DEF Ta!OnlyFormerMembers
    <2> QED BY <2>1, <2>2, <2>3, <2>4, <2>5, <2>6
  <1>4. ASSUME NEW p \in Talkers, Ta!Connect(p)
       PROVE  ChatInv'
    <2> USE <1>4 DEF Ta!Connect, Ta!Private, Ta!OwnChannels, Ta!Disowned,
            Ta!WithoutAnywhere
    <2>1. Ta!ChatTypeOK'
      BY DEF Ta!ChatTypeOK, Ta!Kinds, Ta!Names
    <2>2. BeenThere'
      BY DEF BeenThere
    <2>3. Owned'
      <3> SUFFICES ASSUME NEW i \in PrivateNumbers PROVE OwnedAt(i)'
        BY DEF Owned
      <3> USE DEF OwnedAt
      <3>0. OwnedAt(i)
        BY DEF Owned
      <3>1. <<"private", i>> \in Ta!OwnChannels(p) <=> owner[i] = p
        OBVIOUS
      <3>2. <<"private", i>> \in DOMAIN users' <=>
              <<"private", i>> \in DOMAIN users /\ owner[i] # p
        BY <3>1
      <3>3. <<"private", i>> \in DOMAIN users' =>
              users'[<<"private", i>>] = users[<<"private", i>>] \ {p}
        OBVIOUS
      <3>4. \A j \in PrivateNumbers : owner'[j] = IF owner[j] = p THEN Nobody ELSE owner[j]
        OBVIOUS
      <3>5. invites'[i] = IF owner[i] = p THEN {} ELSE invites[i] \ {p}
        OBVIOUS
      <3> QED BY <3>0, <3>2, <3>3, <3>4, <3>5
    <2>4. Hearers'
      BY DEF Hearers
    <2>5. Members'
      BY DEF Members, MembersOf
    <2>6. Ta!OnlyFormerMembers'
      BY DEF Ta!OnlyFormerMembers
    <2> QED BY <2>1, <2>2, <2>3, <2>4, <2>5, <2>6
  <1>5. ASSUME NEW p \in Talkers, NEW k \in Ta!Existing, Ta!OpenChannel(p, k)
       PROVE  ChatInv'
    <2> USE <1>5 DEF Ta!OpenChannel, Ta!Visible, Ta!IsInvited
    <2>1. Ta!ChatTypeOK'
      BY DEF Ta!ChatTypeOK, Ta!Kinds, Ta!Names
    <2>2. BeenThere'
      BY DEF BeenThere
    <2>3. Owned'
      <3> SUFFICES ASSUME NEW i \in PrivateNumbers PROVE OwnedAt(i)'
        BY DEF Owned
      <3> USE DEF OwnedAt
      <3>0. OwnedAt(i)
        BY DEF Owned
      <3>1. DOMAIN users' = DOMAIN users
        OBVIOUS
      <3>2. k = <<"private", i>> => owner[i] = p \/ p \in invites[i]
        OBVIOUS
      <3>3. \/ users'[<<"private", i>>] = users[<<"private", i>>]
            \/ /\ k = <<"private", i>>
               /\ users'[<<"private", i>>] = users[<<"private", i>>] \union {p}
        OBVIOUS
      <3> QED BY <3>0, <3>1, <3>2, <3>3
    <2>4. Hearers'
      BY DEF Hearers
    <2>5. Members'
      BY DEF Members, MembersOf
    <2>6. Ta!OnlyFormerMembers'
      <3> SUFFICES ASSUME NEW c \in DOMAIN users', c[1] \in {"guild", "party"},
                          NEW q \in users'[c]
                   PROVE  c[2] \in been'[q]
        BY DEF Ta!OnlyFormerMembers
      <3>1. c \in DOMAIN users /\ (q \in users[c] \/ (c = k /\ q = p))
        OBVIOUS
      <3>2. CASE q \in users[c]
        BY <3>1, <3>2 DEF Ta!OnlyFormerMembers
      <3>3. CASE c = k /\ q = p
        <4>1. k[2] # Nobody
          BY DEF Ta!Names, Ta!Kinds
        <4>2. k[2] \in {guildOf[p], partyOf[p]}
          BY <3>3
        <4> QED BY <3>3, <4>1, <4>2 DEF BeenThere
      <3> QED BY <3>1, <3>2, <3>3
    <2> QED BY <2>1, <2>2, <2>3, <2>4, <2>5, <2>6
  <1>6. ASSUME NEW p \in Talkers, NEW k \in Ta!Existing, Ta!CloseChannel(p, k)
       PROVE  ChatInv'
    <2> USE <1>6 DEF Ta!CloseChannel, Ta!Visible, Ta!Private, Ta!OwnChannels,
            Ta!Without, Ta!Deleted, Ta!ClosedChannels
    <2>1. Ta!ChatTypeOK'
      BY DEF Ta!ChatTypeOK, Ta!Kinds, Ta!Names
    <2>2. BeenThere'
      BY DEF BeenThere
    <2>3. Owned'
      <3> SUFFICES ASSUME NEW i \in PrivateNumbers PROVE OwnedAt(i)'
        BY DEF Owned
      <3> USE DEF OwnedAt
      <3>0. OwnedAt(i)
        BY DEF Owned
      <3>1. <<"private", i>> \in Ta!OwnChannels(p) <=> owner[i] = p
        OBVIOUS
      <3>2. CASE k = <<"private", i>> /\ owner[i] = p
        BY <3>0, <3>1, <3>2
      <3>3. CASE k = <<"private", i>> /\ owner[i] # p
        <4>1. /\ UNCHANGED <<owner, invites>> /\ DOMAIN users' = DOMAIN users
              /\ users'[k] = users[k] \ {p}
          BY <3>1, <3>3
        <4> QED BY <3>0, <3>3, <4>1
      <3>4. CASE k # <<"private", i>>
        <4>1. /\ k \in DOMAIN users /\ DOMAIN users' \in {DOMAIN users, DOMAIN users \ {k}}
              /\ <<"private", i>> \in DOMAIN users =>
                   users'[<<"private", i>>] = users[<<"private", i>>]
          BY <3>4
        <4>2. /\ owner'[i] = owner[i] /\ invites'[i] = invites[i]
              /\ \A j \in PrivateNumbers : owner'[j] \in {owner[j], Nobody}
          BY <3>4
        <4> QED BY <3>0, <3>4, <4>1, <4>2
      <3> QED BY <3>2, <3>3, <3>4
    <2>4. Hearers'
      BY DEF Hearers
    <2>5. Members'
      BY DEF Members, MembersOf
    <2>6. Ta!OnlyFormerMembers'
      BY DEF Ta!OnlyFormerMembers
    <2> QED BY <2>1, <2>2, <2>3, <2>4, <2>5, <2>6
  <1>7. ASSUME NEW p \in Talkers, NEW q \in Talkers, Ta!ChannelInvite(p, q)
       PROVE  ChatInv'
    <2> USE <1>7 DEF Ta!ChannelInvite
    <2>1. Ta!ChatTypeOK'
      BY DEF Ta!ChatTypeOK, Ta!Kinds, Ta!Names
    <2>2. BeenThere'
      BY DEF BeenThere
    <2>3. Owned'
      <3> SUFFICES ASSUME NEW i \in PrivateNumbers PROVE OwnedAt(i)'
        BY DEF Owned
      <3> USE DEF OwnedAt
      <3>0. OwnedAt(i)
        BY DEF Owned
      <3>1. PICK m \in PrivateNumbers : invites' = [invites EXCEPT ![m] = @ \union {q}]
        OBVIOUS
      <3>2. invites[i] \subseteq invites'[i]
        BY <3>1
      <3> QED BY <3>0, <3>2
    <2>4. Hearers'
      <3>1. PICK m \in PrivateNumbers : invites' = [invites EXCEPT ![m] = @ \union {q}]
        OBVIOUS
      <3>2. \A i \in PrivateNumbers : invites'[i] \subseteq invites[i] \union {q}
        BY <3>1
      <3> QED BY <3>2 DEF Hearers
    <2>5. Members'
      BY DEF Members, MembersOf
    <2>6. Ta!OnlyFormerMembers'
      BY DEF Ta!OnlyFormerMembers
    <2> QED BY <2>1, <2>2, <2>3, <2>4, <2>5, <2>6
  <1>8. ASSUME NEW p \in Talkers, NEW q \in Talkers, Ta!ChannelExclude(p, q)
       PROVE  ChatInv'
    <2> USE <1>8 DEF Ta!ChannelExclude, Ta!Private
    <2>1. Ta!ChatTypeOK'
      <3>1. PICK m \in PrivateNumbers : /\ invites' = [invites EXCEPT ![m] = @ \ {q}]
                                        /\ users' =
                                             [users EXCEPT ![<<"private", m>>] = @ \ {q}]
        OBVIOUS
      <3>2. /\ DOMAIN users' = DOMAIN users
            /\ \A c \in DOMAIN users : users'[c] \subseteq users[c]
        BY <3>1
      <3> QED BY <3>1, <3>2 DEF Ta!ChatTypeOK, Ta!Kinds, Ta!Names
    <2>2. BeenThere'
      BY DEF BeenThere
    <2>3. Owned'
      <3> SUFFICES ASSUME NEW i \in PrivateNumbers PROVE OwnedAt(i)'
        BY DEF Owned
      <3>0. OwnedAt(i)
        BY DEF Owned
      <3>1. PICK m \in PrivateNumbers :
              /\ owner[m] = p /\ p # q /\ owner' = owner
              /\ invites' = [invites EXCEPT ![m] = @ \ {q}]
              /\ users' = [users EXCEPT ![<<"private", m>>] = @ \ {q}]
        OBVIOUS
      <3>2. /\ DOMAIN users' = DOMAIN users
            /\ i # m => /\ invites'[i] = invites[i]
                        /\ users'[<<"private", i>>] = users[<<"private", i>>]
        BY <3>1
      <3>3. CASE i # m
        BY <3>0, <3>1, <3>2, <3>3 DEF OwnedAt
      <3>4. CASE i = m
        BY <3>0, <3>1, <3>2, <3>4 DEF OwnedAt
      <3> QED BY <3>3, <3>4
    <2>4. Hearers'
      <3>1. PICK m \in PrivateNumbers : /\ invites' = [invites EXCEPT ![m] = @ \ {q}]
                                        /\ users' =
                                             [users EXCEPT ![<<"private", m>>] = @ \ {q}]
        OBVIOUS
      <3>2. \A i \in PrivateNumbers : invites'[i] \subseteq invites[i]
        BY <3>1
      <3>3. /\ DOMAIN users' = DOMAIN users
            /\ \A c \in DOMAIN users : users'[c] \subseteq users[c]
        BY <3>1
      <3> QED BY <3>2, <3>3 DEF Hearers
    <2>5. Members'
      BY DEF Members, MembersOf
    <2>6. Ta!OnlyFormerMembers'
      BY DEF Ta!OnlyFormerMembers
    <2> QED BY <2>1, <2>2, <2>3, <2>4, <2>5, <2>6
  <1>9. ASSUME NEW p \in Talkers, NEW g \in Brotherhoods \union {Nobody}, Ta!LogIn(p, g)
       PROVE  ChatInv'
    <2> USE <1>9 DEF Ta!LogIn
    <2>1. Ta!ChatTypeOK'
      BY DEF Ta!ChatTypeOK, Ta!Kinds, Ta!Names
    <2>2. BeenThere'
      BY DEF BeenThere
    <2>3. Owned'
      BY DEF Owned, OwnedAt
    <2>4. Hearers'
      BY DEF Hearers
    <2>5. Members'
      <3> SUFFICES ASSUME NEW x \in Brotherhoods PROVE MembersOf(x)'
        BY DEF Members
      <3> USE DEF MembersOf
      <3>0. MembersOf(x)
        BY DEF Members
      <3>1. \A q \in inGame : q # p /\ guildOf'[q] = guildOf[q]
        OBVIOUS
      <3>2. inGame' = inGame \union {p} /\ guildOf'[p] = g
        OBVIOUS
      <3>3. membersOnline'[x] = IF x = g THEN membersOnline[x] \union {p} ELSE membersOnline[x]
        OBVIOUS
      <3> QED BY <3>0, <3>1, <3>2, <3>3
    <2>6. Ta!OnlyFormerMembers'
      <3> SUFFICES ASSUME NEW c \in DOMAIN users', c[1] \in {"guild", "party"},
                          NEW q \in users'[c]
                   PROVE  c[2] \in been'[q]
        BY DEF Ta!OnlyFormerMembers
      <3>1. q \in inGame /\ q # p
        BY DEF Hearers
      <3>2. been'[q] = been[q]
        BY <3>1 DEF Hearers
      <3> QED BY <3>2 DEF Ta!OnlyFormerMembers
    <2> QED BY <2>1, <2>2, <2>3, <2>4, <2>5, <2>6
  <1>10. ASSUME NEW p \in Talkers, NEW g \in Brotherhoods \union {Nobody},
               Ta!SetGuild(p, g)
       PROVE  ChatInv'
    <2> USE <1>10 DEF Ta!SetGuild
    <2>1. Ta!ChatTypeOK'
      BY DEF Ta!ChatTypeOK, Ta!Kinds, Ta!Names, Ta!LeftBy
    <2>2. BeenThere'
      BY DEF BeenThere
    <2>3. Owned'
      BY DEF Owned, OwnedAt
    <2>4. Hearers'
      BY DEF Hearers
    <2>5. Members'
      <3> SUFFICES ASSUME NEW x \in Brotherhoods PROVE MembersOf(x)'
        BY DEF Members
      <3> USE DEF MembersOf, Ta!LeftBy, Ta!LastOf
      <3>0. MembersOf(x)
        BY DEF Members
      <3>1. \A q \in inGame : q # p => guildOf'[q] = guildOf[q]
        OBVIOUS
      <3>2. guildOf'[p] = g /\ inGame' = inGame /\ dangling' = dangling
        OBVIOUS
      <3>3. CASE x = g
        BY <3>0, <3>1, <3>2, <3>3
      <3>4. CASE x # g /\ x = guildOf[p]
        <4>1. membersOnline'[x] = membersOnline[x] \ {p}
          BY <3>4
        <4>2. CASE x \in Ta!LeftBy(p)
          BY <3>0, <3>1, <3>2, <3>4, <4>1, <4>2
        <4>3. CASE x \notin Ta!LeftBy(p)
          BY <3>0, <3>1, <3>2, <3>4, <4>1, <4>3
        <4> QED BY <4>2, <4>3
      <3>5. CASE x # g /\ x # guildOf[p]
        BY <3>0, <3>1, <3>2, <3>5
      <3> QED BY <3>3, <3>4, <3>5
    <2>6. Ta!OnlyFormerMembers'
      BY DEF Ta!OnlyFormerMembers
    <2> QED BY <2>1, <2>2, <2>3, <2>4, <2>5, <2>6
  <1>11. ASSUME NEW p \in Talkers, NEW P \in Troops \union {Nobody}, Ta!SetParty(p, P)
       PROVE  ChatInv'
    <2> USE <1>11 DEF Ta!SetParty, Ta!Visible
    <2>1. Ta!ChatTypeOK'
      BY DEF Ta!ChatTypeOK, Ta!Kinds, Ta!Names
    <2>2. BeenThere'
      BY DEF BeenThere
    <2>3. Owned'
      BY DEF Owned, OwnedAt
    <2>4. Hearers'
      BY DEF Hearers
    <2>5. Members'
      BY DEF Members, MembersOf
    <2>6. Ta!OnlyFormerMembers'
      BY DEF Ta!OnlyFormerMembers
    <2> QED BY <2>1, <2>2, <2>3, <2>4, <2>5, <2>6
  <1>12. ASSUME NEW ids \in SUBSET News, Ta!Load(ids)
       PROVE  ChatInv'
    <2> USE <1>12 DEF Ta!Load
    <2>1. Ta!ChatTypeOK'
      BY DEF Ta!ChatTypeOK, Ta!Kinds, Ta!Names
    <2>2. BeenThere'
      BY DEF BeenThere
    <2>3. Owned'
      BY DEF Owned, OwnedAt
    <2>4. Hearers'
      BY DEF Hearers
    <2>5. Members'
      BY DEF Members, MembersOf
    <2>6. Ta!OnlyFormerMembers'
      BY DEF Ta!OnlyFormerMembers
    <2> QED BY <2>1, <2>2, <2>3, <2>4, <2>5, <2>6
  <1>13. ASSUME NEW g \in Brotherhoods, Ta!LoadForAWhile(g)
       PROVE  ChatInv'
    <2> USE <1>13 DEF Ta!LoadForAWhile
    <2>1. Ta!ChatTypeOK'
      BY DEF Ta!ChatTypeOK, Ta!Kinds, Ta!Names
    <2>2. BeenThere'
      BY DEF BeenThere
    <2>3. Owned'
      BY DEF Owned, OwnedAt
    <2>4. Hearers'
      BY DEF Hearers
    <2>5. Members'
      BY DEF Members, MembersOf
    <2>6. Ta!OnlyFormerMembers'
      BY DEF Ta!OnlyFormerMembers
    <2> QED BY <2>1, <2>2, <2>3, <2>4, <2>5, <2>6
  <1>14. ASSUME NEW p \in Talkers, Ta!SetRanklessGuild(p)
       PROVE  ChatInv'
    <2> USE <1>14 DEF Ta!SetRanklessGuild
    <2>1. Ta!ChatTypeOK'
      BY DEF Ta!ChatTypeOK, Ta!Kinds, Ta!Names
    <2>2. BeenThere'
      BY DEF BeenThere
    <2>3. Owned'
      BY DEF Owned, OwnedAt
    <2>4. Hearers'
      BY DEF Hearers
    <2>5. Members'
      BY DEF Members, MembersOf
    <2>6. Ta!OnlyFormerMembers'
      BY DEF Ta!OnlyFormerMembers
    <2> QED BY <2>1, <2>2, <2>3, <2>4, <2>5, <2>6
  <1>15. CASE UNCHANGED chatVars
    <2> USE <1>15 DEF chatVars
    <2>1. Ta!ChatTypeOK'
      BY DEF Ta!ChatTypeOK, Ta!Kinds, Ta!Names
    <2>2. BeenThere'
      BY DEF BeenThere
    <2>3. Owned'
      BY DEF Owned, OwnedAt
    <2>4. Hearers'
      BY DEF Hearers
    <2>5. Members'
      BY DEF Members, MembersOf
    <2>6. Ta!OnlyFormerMembers'
      BY DEF Ta!OnlyFormerMembers
    <2> QED BY <2>1, <2>2, <2>3, <2>4, <2>5, <2>6
  <1> QED BY <1>1, <1>2, <1>3, <1>4, <1>5, <1>6, <1>7,
             <1>8, <1>9, <1>10, <1>11, <1>12, <1>13, <1>14, <1>15
         DEF Ta!ChatNext

(* ... and it implies what the run checks.                                 *)
LEMMA ChatInvSuffices == ChatInv => Ta!ChatTypeOK /\ Ta!ChannelsAreSound
  <1> SUFFICES ASSUME ChatInv PROVE Ta!ChatTypeOK /\ Ta!ChannelsAreSound
    OBVIOUS
  <1>1. Ta!NobodyDangles
    BY TalkAssumption
    DEF ChatInv, Hearers, Members, MembersOf, Ta!NobodyDangles, Ta!Existing, Ta!ChatTypeOK
  <1>2. Ta!PrivateIsPrivate
    <2> SUFFICES ASSUME NEW i \in PrivateNumbers
                 PROVE  /\ <<"private", i>> \in DOMAIN users <=> owner[i] # Nobody
                        /\ owner[i] # Nobody =>
                             /\ owner[i] \in users[<<"private", i>>]
                             /\ Ta!OwnChannels(owner[i]) = {<<"private", i>>}
                             /\ \A p \in inGame : Ta!Audience(p, <<"private", i>>)
                                                    \subseteq {owner[i]} \union invites[i]
      BY DEF Ta!PrivateIsPrivate, Ta!Private, Ta!Existing
    <2>1. OwnedAt(i)
      BY DEF ChatInv, Owned
    <2>2. ASSUME owner[i] # Nobody
          PROVE  Ta!OwnChannels(owner[i]) = {<<"private", i>>}
      BY <2>1, <2>2 DEF OwnedAt, Ta!OwnChannels, Ta!Private
    <2>3. \A p \in inGame : Ta!Audience(p, <<"private", i>>) \subseteq users[<<"private", i>>]
      BY DEF Ta!Audience
    <2> QED BY <2>1, <2>2, <2>3 DEF OwnedAt
  <1> QED BY <1>1, <1>2 DEF ChatInv, Ta!ChannelsAreSound
-----------------------------------------------------------------------------
(***************************************************************************)
(* Speech and mutes (see Talk).                                            *)
(***************************************************************************)
(* The mute of a player who said too much outlasts the surplus in its      *)
(* buffer, which loses one in two seconds.                                 *)
Drains ==
  \A p \in Talkers \ (Immune \union pardoned) :
    buffer[p] > MaxBuffer =>
      /\ buffer[p] = MaxBuffer + 1
      /\ muted[p] + ticks[p] >= 2 /\ muted[p] > 0

(* The counters, without the bounds of the model.                          *)
SpeechFunctions ==
  /\ buffer \in [Talkers -> Nat] /\ ticks \in [Talkers -> Nat]
  /\ muted \in [Talkers -> Nat] /\ muteCount \in [Talkers -> Nat]
  /\ exhausted \in [Talkers -> Nat] /\ served \in [Talkers -> Nat]

(* The inductive invariant: a mute does not end before the buffer lost its *)
(* surplus.                                                                *)
SpeechInv ==
  /\ SpeechFunctions /\ Ta!SpeechTypeOK /\ Drains /\ Ta!SpeechIsSound

(* The time of a mute grows with the number of mutes.                      *)
LEMMA MutesAreLonger ==
  ASSUME NEW n \in Nat, NEW m \in Nat, n <= m
  PROVE  /\ Ta!MuteTime(n) \in Nat
         /\ Ta!MuteTime(n) <= Ta!MuteTime(m)
         /\ n >= 1 => Ta!MuteTime(n) >= 2
  <1>1. MuteUnit \in Nat /\ MuteUnit >= 2
    BY TalkAssumption
  <1>2. n * n \in Nat /\ m * m \in Nat /\ n * n <= m * m /\ (n >= 1 => n * n >= 1)
    OBVIOUS
  <1>3. \A a, b \in Nat : a <= b => MuteUnit * a <= MuteUnit * b /\ MuteUnit * a \in Nat
    BY <1>1
  <1>5. Ta!MuteTime(n) = MuteUnit * (n * n) /\ Ta!MuteTime(m) = MuteUnit * (m * m)
    BY <1>1 DEF Ta!MuteTime
  <1>4. n >= 1 => MuteUnit * (n * n) >= 2
    BY <1>1, <1>2, <1>3
  <1> QED BY <1>2, <1>3, <1>4, <1>5 

(* The invariant holds at first, ...                                       *)
LEMMA SpeechBegins == Ta!SpeechInit => SpeechInv
  <1> SUFFICES ASSUME Ta!SpeechInit PROVE SpeechInv
    OBVIOUS
  <1>0. Ta!MuteTime(MaxMutes) \in Nat /\ Ta!MuteTime(0) = 0
    BY MutesAreLonger, TalkAssumption DEF Ta!MuteTime
  <1>1. SpeechFunctions
    BY DEF Ta!SpeechInit, SpeechFunctions
  <1>2. Ta!SpeechTypeOK
    BY <1>0, TalkAssumption DEF Ta!SpeechInit, Ta!SpeechTypeOK, Ta!Ways
  <1>3. Drains
    BY TalkAssumption DEF Ta!SpeechInit, Drains
  <1>4. Ta!SpeechIsSound
    BY <1>0, TalkAssumption
       DEF Ta!SpeechInit, Ta!SpeechIsSound, Ta!MutesAreServed, Ta!SecretsAreKept
  <1> QED BY <1>1, <1>2, <1>3, <1>4 DEF SpeechInv

(* What is understood of what was said does not depend on the buffer.      *)
LEMMA HeardIsRight ==
  ASSUME NEW p \in Talkers, NEW kind \in Ta!Ways, NEW to \in Talkers,
         Ta!Heard(p, kind, to), kind = "yell" => p \notin Novices
  PROVE  Ta!SecretsAreKept' /\ said' \in [by : Talkers, kind : Ta!Ways, to : Talkers,
                                       heard : SUBSET Ta!Listeners]
  <1>1. Ta!Understands(p, kind, to) \subseteq Ta!Listeners
    BY DEF Ta!Understands, Ta!CreatureSay, Ta!WhisperTo, Ta!SpeakToNpc, Ta!InRange,
           Ta!Listeners, Ta!Ways
  <1>2. said' \in [by : Talkers, kind : Ta!Ways, to : Talkers,
                   heard : SUBSET Ta!Listeners]
    BY <1>1 DEF Ta!Heard
  <1>3. ASSUME NEW q \in Ta!Understands(p, kind, to), q # p
        PROVE  /\ kind = "whisper" /\ q \in Talkers => Ta!Distance(p, q) <= Whisper
               /\ kind = "private" => q = to
               /\ kind = "toNpc" => q \in Merchants
               /\ kind # "command"
    BY <1>3, TalkAssumption DEF Ta!Understands, Ta!WhisperTo, Ta!SpeakToNpc, Ta!InRange
  <1>4. Ta!SecretsAreKept'
    BY <1>3 DEF Ta!SecretsAreKept, Ta!Heard, Ta!Distance
  <1> QED BY <1>2, <1>4

(* ... and every step keeps it.                                            *)
LEMMA SpeechStep ==
  ASSUME SpeechInv, [Ta!SpeechNext]_speechVars
  PROVE  SpeechInv'
  <1> USE DEF SpeechInv, Ta!SpeechIsSound
  <1>0. /\ MaxMutes \in Nat /\ MaxBuffer \in Nat /\ Exhaustion \in Nat
        /\ Ta!MuteTime(MaxMutes) \in Nat
    BY TalkAssumption, MutesAreLonger
  <1>1. ASSUME NEW p \in Talkers, NEW kind \in Ta!Ways, NEW to \in Talkers,
               Ta!PlayerSay(p, kind, to)
        PROVE  SpeechInv'
    <2>1. /\ ~Ta!IsMuted(p) /\ UNCHANGED <<ticks, pardoned>>
          /\ \/ UNCHANGED <<buffer, muted, muteCount, served>>
             \/ Ta!RemoveMessageBuffer(p)
      BY <1>1 DEF Ta!PlayerSay, Ta!SaysSpell, Ta!Speak
    <2>2. /\ \/ UNCHANGED exhausted
             \/ exhausted' = [exhausted EXCEPT ![p] = Exhaustion]
          /\ \/ UNCHANGED said
             \/ Ta!SecretsAreKept' /\ said' \in [by : Talkers, kind : Ta!Ways,
                                to : Talkers, heard : SUBSET Ta!Listeners]
      BY <1>1, HeardIsRight DEF Ta!PlayerSay, Ta!SaysSpell, Ta!Speak, Ta!Yell, Ta!Ways
    <2>3. Ta!SecretsAreKept'
      BY <2>2 DEF Ta!SecretsAreKept, Ta!Distance
    <2>4. CASE UNCHANGED <<buffer, muted, muteCount, served>>
      BY <1>0, <2>1, <2>2, <2>3, <2>4
      DEF SpeechFunctions, Ta!SpeechTypeOK, Drains, Ta!MutesAreServed, Ta!IsMuted
    <2>5. ASSUME buffer' = [buffer EXCEPT ![p] = @ + 1],
                 p \notin Immune, buffer[p] <= MaxBuffer + 1,
                 ~Ta!TooMuch(buffer[p] + 1), UNCHANGED <<muted, muteCount, served>>
          PROVE  SpeechInv'
      BY <1>0, <2>1, <2>2, <2>3, <2>5
      DEF SpeechFunctions, Ta!SpeechTypeOK, Drains, Ta!MutesAreServed, Ta!IsMuted, Ta!TooMuch
    <2>6. ASSUME buffer' = [buffer EXCEPT ![p] = @ + 1],
                 p \notin Immune, buffer[p] <= MaxBuffer + 1, 
                 Ta!TooMuch(buffer[p] + 1), muteCount[p] <= MaxMutes,
                 muted' = [muted EXCEPT ![p] = Ta!MuteTime(muteCount[p])],
                 muteCount' = [muteCount EXCEPT ![p] = @ + 1],
                 served' = [served EXCEPT ![p] = Ta!MuteTime(muteCount[p])]
          PROVE  SpeechInv'
      <3>1. /\ Ta!MuteTime(muteCount[p]) \in 2..Ta!MuteTime(MaxMutes)
            /\ Ta!MuteTime(MaxMutes) \in Nat
        BY <1>0, <2>6, MutesAreLonger DEF SpeechFunctions, Ta!SpeechTypeOK
      <3>2. SpeechFunctions'
        BY <2>1, <2>2, <2>6, <3>1, <1>0 DEF SpeechFunctions
      <3>3. Ta!SpeechTypeOK'
        BY <1>0, <2>1, <2>2, <2>6, <3>1 DEF SpeechFunctions, Ta!SpeechTypeOK
      <3>4. Drains'
        BY <1>0, <2>1, <2>6, <3>1
           DEF SpeechFunctions, Drains, Ta!MutesAreServed, Ta!IsMuted, Ta!SpeechTypeOK
      <3>5. Ta!MutesAreServed'
        BY <1>0, <2>1, <2>6, <3>1
        DEF SpeechFunctions, Drains, Ta!MutesAreServed, Ta!IsMuted, Ta!SpeechTypeOK
      <3> QED BY <2>3, <3>2, <3>3, <3>4, <3>5
    <2>7. CASE Ta!RemoveMessageBuffer(p)
      <3>1. buffer[p] \in Nat
        BY DEF SpeechFunctions
      <3>2. buffer[p] > MaxBuffer + 1 \/ buffer[p] <= MaxBuffer + 1
        BY <1>0, <3>1
      <3> QED BY <2>4, <2>5, <2>6, <2>7, <3>2 DEF Ta!RemoveMessageBuffer
    <2> QED BY <2>1, <2>4, <2>7
  <1>2. ASSUME NEW p \in Talkers, Ta!Think(p)
        PROVE  SpeechInv'
    <2>1. SpeechFunctions'
      <3>1. ticks[p] \in 0..1
        BY DEF Ta!SpeechTypeOK
      <3> QED BY <3>1, <1>2 DEF Ta!Think, Ta!Less, SpeechFunctions
    <2>2. Ta!SpeechTypeOK'
      BY <1>0, <1>2 DEF Ta!Think, Ta!Less, SpeechFunctions, Ta!SpeechTypeOK
    <2>3. Ta!SecretsAreKept'
      BY <1>2 DEF Ta!Think, Ta!Less, Ta!SecretsAreKept, Ta!Distance
    <2>4. Drains' /\ Ta!MutesAreServed'
      BY <1>0, <1>2
      DEF Ta!Think, Ta!Less, SpeechFunctions, Ta!SpeechTypeOK, Drains,
          Ta!MutesAreServed, Ta!IsMuted
    <2> QED BY <2>1, <2>2, <2>3, <2>4
  <1>3. ASSUME NEW p \in Talkers, Ta!Relog(p) \/ Ta!Pardon(p)
        PROVE  SpeechInv'
    <2>1. SpeechFunctions'
      BY <1>0, <1>3 DEF Ta!Relog, Ta!Pardon, SpeechFunctions
    <2>2. Ta!SpeechTypeOK'
      BY <1>0, <1>3 DEF Ta!Relog, Ta!Pardon, SpeechFunctions, Ta!SpeechTypeOK
    <2>3. Ta!SecretsAreKept'
      BY <1>3 DEF Ta!Relog, Ta!Pardon, Ta!SecretsAreKept, Ta!Distance
    <2>4. Drains' /\ Ta!MutesAreServed'
      BY <1>0, <1>3
      DEF Ta!Relog, Ta!Pardon, SpeechFunctions, Ta!SpeechTypeOK, Drains,
          Ta!MutesAreServed, Ta!IsMuted
    <2> QED BY <2>1, <2>2, <2>3, <2>4
  <1>4. CASE UNCHANGED speechVars
    BY <1>4 DEF speechVars, SpeechFunctions, Ta!SpeechTypeOK, Drains, Ta!MutesAreServed,
                Ta!IsMuted, Ta!SecretsAreKept, Ta!Distance
  <1> QED BY <1>1, <1>2, <1>3, <1>4 DEF Ta!SpeechNext
-----------------------------------------------------------------------------
(***************************************************************************)
(* Spawns (see Wildlife).                                                  *)
(***************************************************************************)
(* A look, or the part of it that was done, and what is in order there: a  *)
(* monster that was never in the game is nowhere.                          *)
Looks == [map : SUBSET ((Blocks \union {0}) \X Brood), due : SUBSET Blocks,
          life : [Brood -> {"new", "placed", "removed"}], mine : SUBSET Brood,
          counter : [Brood -> Int]]

InMap(w, m) == \E e \in w.map : e[2] = m

InOrder(w) ==
  /\ w \in Looks
  /\ \A e, f \in w.map : e # f => e[2] # f[2] /\ (e[1] = f[1] => e[1] = 0)
  /\ \A m \in Brood :
       /\ w.counter[m] = (IF w.life[m] = "placed" THEN 1 ELSE 0)
                           + (IF InMap(w, m) THEN 1 ELSE 0)
       /\ w.life[m] = "placed" => (InMap(w, m) <=> m \in w.mine)
       /\ w.life[m] = "new" => ~InMap(w, m) /\ m \notin w.mine

(* The inductive invariant: all is in order, and a spawn looks as long as  *)
(* it files a monster that is dead.                                        *)
SpawnsInv ==
  /\ InOrder(Wi!Now)
  /\ away \subseteq Brood
  /\ scheduled \in BOOLEAN /\ checkSpawnEvent = scheduled
  /\ started \in {"no", "yes", "cleared"}
  /\ Wi!DeadAreNoticed
  /\ started = "no" => spawnedMap = {} /\ ~scheduled

LEMMA NowLooks ==
  /\ Wi!Now.map = spawnedMap /\ Wi!Now.due = due /\ Wi!Now.life = life
  /\ Wi!Now.mine = mine /\ Wi!Now.counter = counter
  BY DEF Wi!Now

(* The invariant implies what the run checks, ...                          *)
LEMMA SpawnsInvSuffices == SpawnsInv => Wi!SpawnsTypeOK /\ Wi!SpawnsAreSound
  <1> SUFFICES ASSUME SpawnsInv PROVE Wi!SpawnsTypeOK /\ Wi!SpawnsAreSound
    OBVIOUS
  <1>1. Wi!SpawnsTypeOK
    <2>1. /\ spawnedMap \subseteq (Blocks \union {0}) \X Brood /\ due \subseteq Blocks
          /\ life \in [Brood -> {"new", "placed", "removed"}] /\ mine \subseteq Brood
          /\ counter \in [Brood -> Int]
      BY NowLooks DEF SpawnsInv, InOrder, Looks
    <2>2. \A m \in Brood : counter[m] \in 0..2
      BY NowLooks DEF SpawnsInv, InOrder
    <2> QED BY <2>1, <2>2 DEF SpawnsInv, Wi!SpawnsTypeOK
  <1>2. Wi!FiledOnce
    BY NowLooks DEF SpawnsInv, InOrder, InMap, Wi!FiledOnce
  <1> QED BY <1>1, <1>2 DEF SpawnsInv, Wi!SpawnsAreSound

(* ... holds at first, ...                                                 *)
LEMMA SpawnsBegin == Wi!SpawnsInit => SpawnsInv
  <1> SUFFICES ASSUME Wi!SpawnsInit PROVE SpawnsInv
    OBVIOUS
  <1>1. InOrder(Wi!Now)
    <2>1. Wi!Now \in Looks
      BY DEF Wi!SpawnsInit, Wi!Now, Looks
    <2> QED BY <2>1, NowLooks DEF Wi!SpawnsInit, InOrder, InMap
  <1> QED BY <1>1 DEF Wi!SpawnsInit, SpawnsInv, Wi!DeadAreNoticed

(* cleanup releases the dead, and loses nobody else.                       *)
LEMMA CleanedUpInOrder ==
  ASSUME NEW w, InOrder(w), NEW outside
  PROVE  LET v == Wi!CleanedUp(w, outside) IN
         /\ InOrder(v) /\ v.life = w.life
         /\ \A e \in v.map : w.life[e[2]] # "removed"
  <1> DEFINE dead == {e \in w.map : w.life[e[2]] = "removed"}
             stray == {e \in w.map \ dead : e[2] \in outside}
             map == ((w.map \ dead) \ stray) \union {<<0, e[2]>> : e \in stray}
             blocks == w.due \ {e[1] : e \in dead}
             refs == [m \in Brood |->
                        w.counter[m] - (IF \E e \in dead : e[2] = m THEN 1 ELSE 0)]
             v == [w EXCEPT !.map = map, !.due = blocks, !.counter = refs]
  <1>0. w \in Looks
    BY DEF InOrder
  <1>1. Wi!CleanedUp(w, outside) = v
    BY <1>0 DEF Wi!CleanedUp, Looks
  <1>2. map \subseteq (Blocks \union {0}) \X Brood
    BY <1>0 DEF Looks
  <1>3. blocks \in SUBSET Blocks /\ refs \in [Brood -> Int]
    BY <1>0 DEF Looks
  <1>4. \A e \in map : \E g \in w.map \ dead :
          e = IF g \in stray THEN <<0, g[2]>> ELSE g
    OBVIOUS
  <1>5. \A g \in w.map \ dead : \E e \in map : e[2] = g[2]
    <2> SUFFICES ASSUME NEW g \in w.map \ dead PROVE \E e \in map : e[2] = g[2]
      OBVIOUS
    <2>1. CASE g \in stray
      <3>1. <<0, g[2]>> \in map
        BY <2>1
      <3> QED BY <3>1
    <2>2. CASE g \notin stray
      <3>1. g \in map
        BY <2>2
      <3> QED BY <3>1
    <2> QED BY <2>1, <2>2
  <1>6. \A e, f \in w.map : e # f => e[2] # f[2] /\ (e[1] = f[1] => e[1] = 0)
    BY DEF InOrder
  <1>8. \A e, f \in map : e # f => e[2] # f[2] /\ (e[1] = f[1] => e[1] = 0)
    <2> SUFFICES ASSUME NEW e \in map, NEW f \in map, e # f
                 PROVE  e[2] # f[2] /\ (e[1] = f[1] => e[1] = 0)
      OBVIOUS
    <2>1. PICK g \in w.map \ dead : e = IF g \in stray THEN <<0, g[2]>> ELSE g
      BY <1>4
    <2>2. PICK h \in w.map \ dead : f = IF h \in stray THEN <<0, h[2]>> ELSE h
      BY <1>4
    <2>3. g # h /\ e[2] = g[2] /\ f[2] = h[2]
      BY <2>1, <2>2
    <2> QED BY <1>6, <2>1, <2>2, <2>3
  <1>9. \A m \in Brood : refs[m] = w.counter[m] - (IF \E e \in dead : e[2] = m THEN 1 ELSE 0)
    OBVIOUS
  <1>10. \A e \in w.map : e \in dead <=> w.life[e[2]] = "removed"
    OBVIOUS
  <1>11. dead \subseteq w.map
    OBVIOUS
  <1>12. \A e \in map : w.life[e[2]] # "removed"
    <2> TAKE e \in map
    <2>1. PICK g \in w.map \ dead : e = IF g \in stray THEN <<0, g[2]>> ELSE g
      BY <1>4
    <2> QED BY <1>10, <2>1
  <1>13. ASSUME NEW m \in Brood
         PROVE  (\E e \in map : e[2] = m) <=> InMap(w, m) /\ w.life[m] # "removed"
    <2>1. ASSUME NEW e \in map, e[2] = m
          PROVE  InMap(w, m) /\ w.life[m] # "removed"
      <3>1. PICK g \in w.map \ dead : e = IF g \in stray THEN <<0, g[2]>> ELSE g
        BY <1>4
      <3>2. g[2] = m
        BY <2>1, <3>1
      <3> QED BY <1>10, <3>2 DEF InMap
    <2>2. ASSUME NEW e \in w.map, e[2] = m, w.life[m] # "removed"
          PROVE  \E f \in map : f[2] = m
      BY <1>5, <1>10, <2>2
    <2> QED BY <2>1, <2>2 DEF InMap
  <1>14. ASSUME NEW m \in Brood
         PROVE  (\E e \in dead : e[2] = m) <=> InMap(w, m) /\ w.life[m] = "removed"
    BY <1>10, <1>11 DEF InMap
  <1> HIDE DEF map, blocks, refs, dead
  <1>15. /\ v \in Looks /\ v.map = map /\ v.due = blocks /\ v.counter = refs
         /\ v.life = w.life /\ v.mine = w.mine
    BY <1>0, <1>2, <1>3 DEF Looks
  <1> HIDE DEF v
  <1>16. ASSUME NEW m \in Brood
         PROVE  /\ v.counter[m] = (IF v.life[m] = "placed" THEN 1 ELSE 0)
                                    + (IF InMap(v, m) THEN 1 ELSE 0)
                /\ v.life[m] = "placed" => (InMap(v, m) <=> m \in v.mine)
                /\ v.life[m] = "new" => ~InMap(v, m) /\ m \notin v.mine
    <2>1. InMap(v, m) <=> InMap(w, m) /\ w.life[m] # "removed"
      BY <1>13, <1>15 DEF InMap
    <2>2. v.counter[m] = w.counter[m] -
            (IF InMap(w, m) /\ w.life[m] = "removed" THEN 1 ELSE 0)
      BY <1>9, <1>14, <1>15
    <2> QED BY <1>15, <2>1, <2>2 DEF InOrder
  <1>17. InOrder(v)
    BY <1>8, <1>15, <1>16 DEF InOrder
  <1> QED BY <1>1, <1>12, <1>15, <1>17

(* A brood is of monsters that were never in the game, one for each block. *)
LEMMA BroodsAreNew ==
  ASSUME NEW w, NEW S \in SUBSET Blocks, NEW put \in Wi!Broods(w, S)
  PROVE  /\ DOMAIN put \subseteq S
         /\ \A j \in DOMAIN put : put[j] \in Brood /\ w.life[put[j]] = "new"
         /\ \A j, k \in DOMAIN put : put[j] = put[k] => j = k
         /\ \A m \in Wi!Range(put) : \E j \in DOMAIN put : m = put[j]
         /\ \A j \in DOMAIN put : put[j] \in Wi!Range(put)
  <1>1. PICK T \in SUBSET S : put \in [T -> Wi!Unused(w)]
    BY DEF Wi!Broods
  <1>2. \A j, k \in DOMAIN put : j < k => put[j] < put[k]
    BY DEF Wi!Broods
  <1>3. \A j \in DOMAIN put : put[j] \in Brood /\ w.life[put[j]] = "new"
    BY <1>1 DEF Wi!Unused
  <1>4. ASSUME NEW j \in DOMAIN put, NEW k \in DOMAIN put, put[j] = put[k]
        PROVE  j = k
    <2>1. j \in Nat /\ k \in Nat /\ put[j] \in Nat /\ put[k] \in Nat
      BY <1>1, <1>3, WildlifeAssumption
    <2>2. ~(j < k) /\ ~(k < j)
      BY <1>2, <1>4, <2>1
    <2> QED BY <2>1, <2>2
  <1> QED BY <1>1, <1>3, <1>4 DEF Wi!Range

(* The game and the spawn hold what was put into the blocks.               *)
LEMMA SpawnedInOrder ==
  ASSUME NEW w, InOrder(w), NEW S \in SUBSET Blocks,
         \A id \in S : Wi!Filed(w, id) = {},
         NEW put \in Wi!Broods(w, S)
  PROVE  LET v == Wi!Spawned(w, put) IN
         /\ InOrder(v)
         /\ \A e \in v.map : e \in w.map \/ v.life[e[2]] = "placed"
         /\ \A m \in Brood : w.life[m] # "new" => v.life[m] = w.life[m]
  <1> DEFINE new == {<<id, put[id]>> : id \in DOMAIN put}
             born == Wi!Range(put)
             map == w.map \union new
             blocks == w.due \ DOMAIN put
             lives == [m \in Brood |-> IF m \in born THEN "placed" ELSE w.life[m]]
             ours == w.mine \union born
             refs == [m \in Brood |-> IF m \in born THEN 2 ELSE w.counter[m]]
             v == [w EXCEPT !.map = map, !.due = blocks, !.life = lives,
                            !.mine = ours, !.counter = refs]
  <1>0. w \in Looks
    BY DEF InOrder
  <1>1. Wi!Spawned(w, put) = v
    BY <1>0 DEF Wi!Spawned, Looks
  <1>2. /\ DOMAIN put \subseteq S
        /\ \A j \in DOMAIN put : put[j] \in Brood /\ w.life[put[j]] = "new"
        /\ \A j, k \in DOMAIN put : put[j] = put[k] => j = k
        /\ \A m \in born : \E j \in DOMAIN put : m = put[j]
        /\ \A j \in DOMAIN put : put[j] \in born
    BY BroodsAreNew
  <1>3. \A e \in new : \E j \in DOMAIN put : e = <<j, put[j]>>
    OBVIOUS
  <1>4. \A j \in DOMAIN put : <<j, put[j]>> \in new
    OBVIOUS
  <1> HIDE DEF new, born
  <1>5. /\ map \subseteq (Blocks \union {0}) \X Brood /\ blocks \in SUBSET Blocks
        /\ lives \in [Brood -> {"new", "placed", "removed"}]
        /\ ours \in SUBSET Brood /\ refs \in [Brood -> Int]
    <2>1. map \subseteq (Blocks \union {0}) \X Brood
      BY <1>0, <1>2, <1>3 DEF Looks
    <2>2. born \subseteq Brood
      BY <1>2
    <2>3. lives \in [Brood -> {"new", "placed", "removed"}]
      BY <1>0 DEF Looks
    <2>4. refs \in [Brood -> Int]
      BY <1>0 DEF Looks
    <2> QED BY <1>0, <2>1, <2>2, <2>3, <2>4 DEF Looks
  <1>6. \A m \in Brood : /\ lives[m] = IF m \in born THEN "placed" ELSE w.life[m]
                         /\ refs[m] = IF m \in born THEN 2 ELSE w.counter[m]
    OBVIOUS
  <1> HIDE DEF lives, refs, blocks
  <1>7. /\ v \in Looks /\ v.map = map /\ v.life = lives /\ v.mine = ours
        /\ v.counter = refs
    BY <1>0, <1>5 DEF Looks
  <1> HIDE DEF v
  <1>8. \A m \in born : m \in Brood /\ w.life[m] = "new" /\ ~InMap(w, m)
    BY <1>2 DEF InOrder
  <1>9. ASSUME NEW e \in map, NEW f \in map, e # f
        PROVE  e[2] # f[2] /\ (e[1] = f[1] => e[1] = 0)
    <2>1. CASE e \in w.map /\ f \in w.map
      BY <2>1, <1>9 DEF InOrder
    <2>2. ASSUME NEW g \in w.map, NEW h \in new
          PROVE  g[2] # h[2] /\ g[1] # h[1]
      <3>1. PICK j \in DOMAIN put : h = <<j, put[j]>>
        BY <1>3
      <3>2. g[2] # put[j]
        BY <1>2, <1>8 DEF InMap
      <3>3. g[1] # j
        <4>1. Wi!Filed(w, j) = {}
          BY <1>2
        <4>2. g[2] \in Brood /\ g = <<g[1], g[2]>>
          BY <1>0 DEF Looks
        <4> QED BY <4>1, <4>2 DEF Wi!Filed
      <3> QED BY <3>1, <3>2, <3>3
    <2>3. CASE e \in new /\ f \in new
      <3>1. PICK j \in DOMAIN put, k \in DOMAIN put : e = <<j, put[j]>> /\ f = <<k, put[k]>>
        BY <1>3, <2>3
      <3> QED BY <1>2, <1>9, <3>1
    <2> QED BY <1>9, <2>1, <2>2, <2>3
  <1>10. ASSUME NEW m \in Brood
         PROVE  InMap(v, m) <=> InMap(w, m) \/ m \in born
    <2>1. ASSUME m \in born PROVE \E e \in new : e[2] = m
      <3>1. PICK j \in DOMAIN put : m = put[j]
        BY <1>2, <2>1
      <3>2. <<j, put[j]>> \in new /\ <<j, put[j]>>[2] = m
        BY <1>4, <3>1
      <3> QED BY <3>2
    <2>2. ASSUME NEW e \in new, e[2] = m PROVE m \in born
      BY <1>2, <1>3, <2>2
    <2> QED BY <1>7, <2>1, <2>2 DEF InMap
  <1>11. ASSUME NEW m \in Brood
         PROVE  /\ v.counter[m] = (IF v.life[m] = "placed" THEN 1 ELSE 0)
                                    + (IF InMap(v, m) THEN 1 ELSE 0)
                /\ v.life[m] = "placed" => (InMap(v, m) <=> m \in v.mine)
                /\ v.life[m] = "new" => ~InMap(v, m) /\ m \notin v.mine
    <2>1. CASE m \in born
      BY <1>6, <1>7, <1>10, <2>1
    <2>2. CASE m \notin born
      BY <1>6, <1>7, <1>10, <2>2 DEF InOrder
    <2> QED BY <2>1, <2>2
  <1>12. InOrder(v)
    BY <1>7, <1>9, <1>11 DEF InOrder
  <1>13. \A e \in v.map : e \in w.map \/ v.life[e[2]] = "placed"
    <2> TAKE e \in v.map
    <2>1. CASE e \in new
      <3>1. PICK j \in DOMAIN put : e = <<j, put[j]>>
        BY <1>3, <2>1
      <3> QED BY <1>2, <1>6, <1>7, <3>1
    <2> QED BY <1>7, <2>1
  <1>14. \A m \in Brood : w.life[m] # "new" => v.life[m] = w.life[m]
    BY <1>6, <1>7, <1>8
  <1> QED BY <1>1, <1>12, <1>13, <1>14

(* Spent: the interval of some blocks begins again.                        *)
LEMMA LaterInOrder ==
  ASSUME NEW w, InOrder(w), NEW D
  PROVE  LET v == [w EXCEPT !.due = @ \ D] IN
         /\ InOrder(v) /\ v.map = w.map /\ v.life = w.life
         /\ \A id : Wi!Filed(v, id) = Wi!Filed(w, id)
         /\ \A S : Wi!Broods(v, S) = Wi!Broods(w, S)
  <1> DEFINE v == [w EXCEPT !.due = w.due \ D]
  <1>0. w \in Looks
    BY DEF InOrder
  <1>1. [w EXCEPT !.due = @ \ D] = v
    BY <1>0 DEF Looks
  <1>2. /\ v \in Looks /\ v.map = w.map /\ v.life = w.life /\ v.mine = w.mine
        /\ v.counter = w.counter
    BY <1>0 DEF Looks
  <1> HIDE DEF v
  <1>3. InOrder(v)
    BY <1>2 DEF InOrder, InMap
  <1>4. Wi!Unused(v) = Wi!Unused(w) /\ \A id : Wi!Filed(v, id) = Wi!Filed(w, id)
    BY <1>2 DEF Wi!Unused, Wi!Filed
  <1>5. \A S : Wi!Broods(v, S) = Wi!Broods(w, S)
    BY <1>4 DEF Wi!Broods
  <1> QED BY <1>1, <1>2, <1>3, <1>4, <1>5

(* ... and every step keeps it.                                            *)
LEMMA SpawnsStep ==
  ASSUME SpawnsInv, [Wi!SpawnsNext]_spawnVars
  PROVE  SpawnsInv'
  <1>0. /\ InOrder(Wi!Now) /\ Wi!Now \in Looks
        /\ \A m \in Brood :
             /\ counter[m] = (IF life[m] = "placed" THEN 1 ELSE 0)
                               + (IF InMap(Wi!Now, m) THEN 1 ELSE 0)
             /\ life[m] = "placed" => (InMap(Wi!Now, m) <=> m \in mine)
             /\ life[m] = "new" => ~InMap(Wi!Now, m) /\ m \notin mine
        /\ \A e, f \in spawnedMap : e # f => e[2] # f[2] /\ (e[1] = f[1] => e[1] = 0)
        /\ spawnedMap \in SUBSET ((Blocks \union {0}) \X Brood)
        /\ due \in SUBSET Blocks
        /\ life \in [Brood -> {"new", "placed", "removed"}]
        /\ mine \in SUBSET Brood /\ counter \in [Brood -> Int]
    BY NowLooks DEF SpawnsInv, InOrder, Looks
  <1>1. ASSUME NEW crowded \in SUBSET Blocks, NEW blocked \in SUBSET Blocks,
               Wi!CheckSpawn(crowded, blocked)
        PROVE  SpawnsInv'
    <2> DEFINE v == Wi!CleanedUp(Wi!Now, away)
               S == Wi!Reached(v, crowded) \ (crowded \union blocked)
               D == Wi!Reached(v, crowded) \intersect crowded
               l == [v EXCEPT !.due = @ \ D]
    <2>1. /\ InOrder(v) /\ v.life = life
          /\ \A e \in v.map : life[e[2]] # "removed"
      BY <1>0, CleanedUpInOrder, NowLooks
    <2>2. PICK put \in Wi!Broods(v, S) :
            /\ Wi!Becomes(Wi!Spawned(l, put))
            /\ scheduled' \in BOOLEAN /\ checkSpawnEvent' = scheduled'
      BY <1>1 DEF Wi!CheckSpawn, Wi!Looked
    <2>3. UNCHANGED <<away, started>> /\ scheduled
      BY <1>1 DEF Wi!CheckSpawn
    <2> HIDE DEF v
    <2>4. S \in SUBSET Blocks /\ \A id \in S : Wi!Filed(v, id) = {}
      BY <2>1 DEF InOrder, Looks, Wi!Reached, Wi!Missing
    <2> HIDE DEF S, D
    <2>5. /\ InOrder(l) /\ l.map = v.map /\ l.life = v.life
          /\ Wi!Broods(l, S) = Wi!Broods(v, S)
          /\ \A id \in S : Wi!Filed(l, id) = {}
      BY <2>1, <2>4, LaterInOrder
    <2> HIDE DEF l
    <2> DEFINE w == Wi!Spawned(l, put)
    <2>6. /\ InOrder(w)
          /\ \A e \in w.map : e \in l.map \/ w.life[e[2]] = "placed"
          /\ \A m \in Brood : l.life[m] # "new" => w.life[m] = l.life[m]
      BY <2>2, <2>4, <2>5, SpawnedInOrder
    <2> HIDE DEF w
    <2>7. /\ Wi!Now' = w /\ spawnedMap' = w.map /\ life' = w.life
      <3>1. w \in Looks
        BY <2>6 DEF InOrder
      <3> QED BY <2>2, <3>1 DEF Wi!Becomes, Wi!Now, Looks, w
    <2>8. \A e \in spawnedMap' : life'[e[2]] # "removed"
      <3> TAKE e \in spawnedMap'
      <3>1. CASE w.life[e[2]] = "placed"
        BY <2>7, <3>1
      <3>2. CASE e \in v.map
        <4>1. e[2] \in Brood /\ InMap(v, e[2])
          BY <2>1, <3>2 DEF InOrder, Looks, InMap
        <4>2. v.life[e[2]] # "new"
          BY <2>1, <4>1 DEF InOrder
        <4> QED BY <2>1, <2>5, <2>6, <2>7, <3>2, <4>1, <4>2
      <3> QED BY <2>5, <2>6, <2>7, <3>1, <3>2
    <2>9. started' # "no"
      BY <2>3 DEF SpawnsInv
    <2> QED BY <2>2, <2>3, <2>6, <2>7, <2>8, <2>9 DEF SpawnsInv, Wi!DeadAreNoticed
  <1>2. ASSUME NEW blocked \in SUBSET Blocks, Wi!Startup(blocked)
        PROVE  SpawnsInv'
    <2>1. PICK put \in Wi!Broods(Wi!Now, Blocks \ blocked) :
            Wi!Becomes(Wi!Spawned(Wi!Now, put))
      BY <1>2 DEF Wi!Startup
    <2>2. /\ started = "no" /\ started' = "yes"
          /\ UNCHANGED <<checkSpawnEvent, scheduled, away>>
      BY <1>2 DEF Wi!Startup
    <2>3. spawnedMap = {} /\ ~scheduled
      BY <2>2 DEF SpawnsInv
    <2>4. \A id \in Blocks \ blocked : Wi!Filed(Wi!Now, id) = {}
      BY <2>3, NowLooks DEF Wi!Filed
    <2> DEFINE w == Wi!Spawned(Wi!Now, put)
    <2>5. /\ InOrder(w)
          /\ \A e \in w.map : e \in Wi!Now.map \/ w.life[e[2]] = "placed"
      BY <1>0, <2>1, <2>4, SpawnedInOrder
    <2> HIDE DEF w
    <2>6. Wi!Now' = w /\ spawnedMap' = w.map /\ life' = w.life
      <3>1. w \in Looks
        BY <2>5 DEF InOrder
      <3> QED BY <2>1, <3>1 DEF Wi!Becomes, Wi!Now, Looks, w
    <2>7. \A e \in spawnedMap' : life'[e[2]] # "removed"
      BY <2>3, <2>5, <2>6, NowLooks
    <2> QED BY <2>2, <2>5, <2>6, <2>7 DEF SpawnsInv, Wi!DeadAreNoticed
  <1>3. ASSUME Wi!Clear
        PROVE  SpawnsInv'
    <2>1. /\ spawnedMap' = {} /\ mine' = mine \ {e[2] : e \in spawnedMap}
          /\ counter' = [m \in Brood |->
               counter[m] - (IF \E e \in spawnedMap : e[2] = m THEN 1 ELSE 0)]
          /\ UNCHANGED <<due, life, away>>
          /\ started = "yes" /\ started' = "cleared"
          /\ checkSpawnEvent' = FALSE /\ scheduled' = (scheduled /\ ~checkSpawnEvent)
      BY <1>3 DEF Wi!Clear
    <2>2. \A m \in Brood : InMap(Wi!Now, m) <=> m \in {e[2] : e \in spawnedMap}
      BY NowLooks DEF InMap
    <2>3. \A m \in Brood : counter'[m] = IF life[m] = "placed" THEN 1 ELSE 0
      BY <1>0, <2>1, <2>2
    <2>4. Wi!Now' \in Looks
      <3>1. counter' \in [Brood -> Int] /\ mine' \in SUBSET Brood
        BY <1>0, <2>1
      <3> QED BY <1>0, <2>1, <3>1 DEF Wi!Now, Looks
    <2>5. InOrder(Wi!Now')
      <3>0. Wi!Now'.map = {}
        BY <2>1 DEF Wi!Now
      <3>1. \A m \in Brood : ~InMap(Wi!Now', m)
        BY <3>0 DEF InMap
      <3>2. \A m \in Brood : life[m] = "placed" => m \notin mine'
        BY <1>0, <2>1, <2>2
      <3>3. \A m \in Brood : life[m] = "new" => m \notin mine'
        BY <1>0, <2>1
      <3>4. /\ Wi!Now'.map = {} /\ Wi!Now'.life = life /\ Wi!Now'.mine = mine'
            /\ Wi!Now'.counter = counter'
        BY <2>1 DEF Wi!Now
      <3> QED BY <2>3, <2>4, <3>1, <3>2, <3>3, <3>4 DEF InOrder
    <2> QED BY <2>1, <2>5 DEF SpawnsInv, Wi!DeadAreNoticed
  <1>4. ASSUME NEW id \in Blocks, Wi!TimePasses(id)
        PROVE  SpawnsInv'
    <2>1. /\ due' = due \union {id}
          /\ UNCHANGED <<spawnedMap, checkSpawnEvent, scheduled, life, away, mine,
                         counter, started>>
      BY <1>4 DEF Wi!TimePasses
    <2>2. /\ Wi!Now'.map = spawnedMap /\ Wi!Now'.life = life /\ Wi!Now'.mine = mine
          /\ Wi!Now'.counter = counter /\ Wi!Now' \in Looks
      BY <1>0, <2>1 DEF Wi!Now, Looks
    <2>3. InOrder(Wi!Now')
      BY <1>0, <2>2, NowLooks DEF InOrder, InMap
    <2> QED BY <2>1, <2>3 DEF SpawnsInv, Wi!DeadAreNoticed
  <1>5. ASSUME NEW m \in Brood, Wi!Wander(m)
        PROVE  SpawnsInv'
    <2>1. away' \subseteq Brood
      BY <1>5 DEF Wi!Wander, SpawnsInv
    <2>2. UNCHANGED <<spawnedMap, due, checkSpawnEvent, scheduled, life, mine,
                      counter, started>>
      BY <1>5 DEF Wi!Wander
    <2>3. Wi!Now' = Wi!Now
      BY <2>2 DEF Wi!Now
    <2> QED BY <1>0, <2>1, <2>2, <2>3 DEF SpawnsInv, Wi!DeadAreNoticed
  <1>6. ASSUME NEW m \in Brood, Wi!Remove(m)
        PROVE  SpawnsInv'
    <2>1. /\ life[m] = "placed" /\ life' = [life EXCEPT ![m] = "removed"]
          /\ counter' = [counter EXCEPT ![m] = @ - 1]
          /\ checkSpawnEvent' = (checkSpawnEvent \/ m \in mine)
          /\ scheduled' = (scheduled \/ (m \in mine /\ ~checkSpawnEvent))
          /\ UNCHANGED <<spawnedMap, due, away, mine, started>>
      BY <1>6 DEF Wi!Remove
    <2>2. /\ Wi!Now'.map = spawnedMap /\ Wi!Now'.life = life' /\ Wi!Now'.mine = mine
          /\ Wi!Now'.counter = counter' /\ Wi!Now' \in Looks
      <3>1. life' \in [Brood -> {"new", "placed", "removed"}] /\ counter' \in [Brood -> Int]
        BY <1>0, <2>1
      <3> QED BY <1>0, <2>1, <3>1 DEF Wi!Now, Looks
    <2>3. InOrder(Wi!Now')
      <3>1. \A x \in Brood : InMap(Wi!Now', x) <=> InMap(Wi!Now, x)
        BY <2>2, NowLooks DEF InMap
      <3>2. \A x \in Brood \ {m} : life'[x] = life[x] /\ counter'[x] = counter[x]
        BY <1>0, <2>1
      <3>3. life'[m] = "removed" /\ counter'[m] = counter[m] - 1
        BY <1>0, <2>1
      <3>4. ASSUME NEW x \in Brood
            PROVE  /\ counter'[x] = (IF life'[x] = "placed" THEN 1 ELSE 0)
                                      + (IF InMap(Wi!Now', x) THEN 1 ELSE 0)
                   /\ life'[x] = "placed" => (InMap(Wi!Now', x) <=> x \in mine)
                   /\ life'[x] = "new" => ~InMap(Wi!Now', x) /\ x \notin mine
        BY <1>0, <2>1, <3>1, <3>2, <3>3
      <3> QED BY <1>0, <2>2, <3>4 DEF InOrder
    <2>4. /\ checkSpawnEvent' = scheduled' /\ scheduled' \in BOOLEAN
          /\ m \in mine => scheduled'
          /\ scheduled => scheduled'
      BY <2>1 DEF SpawnsInv
    <2>5. ASSUME NEW e \in spawnedMap, life'[e[2]] = "removed"
          PROVE  scheduled'
      <3>1. CASE e[2] = m
        <4>1. InMap(Wi!Now, m)
          BY <3>1, NowLooks DEF InMap
        <4> QED BY <1>0, <2>1, <2>4, <4>1
      <3>2. CASE e[2] # m
        <4>0. e[2] \in Brood
          BY <1>0
        <4>1. life[e[2]] = "removed"
          BY <1>0, <2>1, <2>5, <3>2, <4>0
        <4>2. scheduled
          BY <4>1 DEF SpawnsInv, Wi!DeadAreNoticed
        <4> QED BY <2>4, <4>2
      <3> QED BY <3>1, <3>2
    <2>6. started' = "no" => spawnedMap' = {} /\ ~scheduled'
      <3> SUFFICES ASSUME started = "no" PROVE spawnedMap' = {} /\ ~scheduled'
        BY <2>1
      <3>1. spawnedMap = {} /\ ~scheduled
        BY DEF SpawnsInv
      <3>2. ~InMap(Wi!Now, m)
        BY <3>1, NowLooks DEF InMap
      <3>3. m \notin mine
        BY <1>0, <2>1, <3>2
      <3> QED BY <2>1, <3>1, <3>3
    <2> QED BY <2>1, <2>3, <2>4, <2>5, <2>6 DEF SpawnsInv, Wi!DeadAreNoticed
  <1>7. ASSUME NEW m \in Brood, Wi!Convince(m)
        PROVE  SpawnsInv'
    <2>1. /\ life[m] = "placed" /\ m \in mine
          /\ spawnedMap' = Wi!Forgotten(m) /\ mine' = mine \ {m}
          /\ counter' = [counter EXCEPT
                           ![m] = @ - (IF Wi!Forgotten(m) # spawnedMap THEN 1 ELSE 0)]
          /\ UNCHANGED <<due, checkSpawnEvent, scheduled, life, away, started>>
      BY <1>7 DEF Wi!Convince
    <2>2. /\ spawnedMap' \subseteq spawnedMap
          /\ \A e \in spawnedMap : e \in spawnedMap' <=> e[2] # m
      BY <2>1 DEF Wi!Forgotten
    <2>3. InMap(Wi!Now, m)
      BY <1>0, <2>1
    <2>4. Wi!Forgotten(m) # spawnedMap
      BY <2>1, <2>2, <2>3, NowLooks DEF InMap
    <2>5. counter' \in [Brood -> Int] /\ counter'[m] = counter[m] - 1
      BY <1>0, <2>1, <2>4
    <2>6. \A x \in Brood \ {m} : counter'[x] = counter[x]
      BY <1>0, <2>1
    <2>7. /\ Wi!Now'.map = spawnedMap' /\ Wi!Now'.life = life /\ Wi!Now'.mine = mine'
          /\ Wi!Now'.counter = counter' /\ Wi!Now' \in Looks
      BY <1>0, <2>1, <2>2, <2>5 DEF Wi!Now, Looks
    <2>8. /\ ~InMap(Wi!Now', m)
          /\ \A x \in Brood \ {m} : InMap(Wi!Now', x) <=> InMap(Wi!Now, x)
      BY <2>2, <2>7, NowLooks DEF InMap
    <2>9. ASSUME NEW x \in Brood
          PROVE  /\ counter'[x] = (IF life[x] = "placed" THEN 1 ELSE 0)
                                    + (IF InMap(Wi!Now', x) THEN 1 ELSE 0)
                 /\ life[x] = "placed" => (InMap(Wi!Now', x) <=> x \in mine')
                 /\ life[x] = "new" => ~InMap(Wi!Now', x) /\ x \notin mine'
      <3>1. CASE x = m
        BY <1>0, <2>1, <2>3, <2>5, <2>8, <3>1
      <3>2. CASE x # m
        BY <1>0, <2>1, <2>6, <2>8, <3>2
      <3> QED BY <3>1, <3>2
    <2>10. InOrder(Wi!Now')
      BY <1>0, <2>2, <2>7, <2>9 DEF InOrder
    <2> QED BY <2>1, <2>2, <2>10 DEF SpawnsInv, Wi!DeadAreNoticed
  <1>8. CASE UNCHANGED spawnVars
    <2>1. /\ Wi!Now' = Wi!Now
          /\ UNCHANGED <<spawnedMap, life, away, scheduled, checkSpawnEvent, started>>
      BY <1>8 DEF spawnVars, Wi!Now
    <2> QED BY <1>0, <2>1 DEF SpawnsInv, Wi!DeadAreNoticed
  <1> QED BY <1>1, <1>2, <1>3, <1>4, <1>5, <1>6, <1>7, <1>8 DEF Wi!SpawnsNext
-----------------------------------------------------------------------------
(***************************************************************************)
(* Raids (see Wildlife).                                                   *)
(***************************************************************************)
(* The inductive invariant: a raid that has events has one that was not    *)
(* executed; only raids that were loaded have tasks or were deleted, and   *)
(* none of the list was; and a raid with two tasks was forced, or started  *)
(* twice.                                                                  *)
Loaded == UNION {Loads[i] : i \in 1..load}
RaidsInv ==
  /\ Wi!RaidsTypeOK /\ Wi!RaidsAreSound
  /\ \A r \in Wi!AllRaids : Length[r] > 0 => nextEvent[r] < Length[r]
  /\ load = 0 => Wi!Looks = 0
  /\ \A t \in tasks : t[2] \in Loaded
  /\ raidList \subseteq Loaded /\ deleted \subseteq Loaded
  /\ \A r \in raidList : r \notin deleted
  /\ \A t, u \in tasks : t[2] = u[2] /\ t # u => t[2] \in blurred

LEMMA LoadedRaids ==
  /\ Len(Loads) \in Nat \ {0} /\ DOMAIN Loads = 1..Len(Loads)
  /\ \A i \in 1..Len(Loads) : Loads[i] \subseteq Wi!AllRaids
  BY WildlifeAssumption

(* What is loaded next was not loaded before.                              *)
LEMMA LoadedNext ==
  ASSUME load \in 0..Len(Loads) - 1, load' = load + 1
  PROVE  /\ load' \in 1..Len(Loads) /\ Loads[load'] \subseteq Wi!AllRaids
         /\ Loaded \subseteq Loaded' /\ Loads[load'] \subseteq Loaded'
         /\ \A r \in Loads[load'] : r \notin Loaded
  <1>1. load' \in 1..Len(Loads) /\ load \in Nat /\ Len(Loads) \in Nat
    BY LoadedRaids
  <1>2. \A i \in 1..load : i \in 1..load' /\ i \in DOMAIN Loads /\ i # load'
    BY <1>1, LoadedRaids
  <1>3. Loaded \subseteq Loaded' /\ Loads[load'] \subseteq Loaded'
    BY <1>1, <1>2 DEF Loaded
  <1>4. \A r \in Loads[load'] : r \notin Loaded
    BY <1>1, <1>2, LoadedRaids, WildlifeAssumption DEF Loaded
  <1> QED BY <1>1, <1>3, <1>4, LoadedRaids

(* The invariant holds at first, ...                                       *)
LEMMA RaidsBegin == Wi!RaidsInit => RaidsInv
<1> SUFFICES ASSUME Wi!RaidsInit PROVE RaidsInv
  OBVIOUS
<1>1. Wi!RaidsTypeOK
  <2>1. load \in 0..Len(Loads) /\ MaxChains \in Nat
    BY LoadedRaids, WildlifeAssumption DEF Wi!RaidsInit
  <2>2. /\ nextEvent \in [Wi!AllRaids -> Nat] /\ nextEventEvent \in [Wi!AllRaids -> 0..MaxChains]
        /\ chains \in 0..MaxChains
    BY <2>1 DEF Wi!RaidsInit
  <2>3. checks \in [known : {0, 1}, other : Nat, handed : Nat]
    BY DEF Wi!RaidsInit
  <2>4. tasks \subseteq (1..MaxChains) \X Wi!AllRaids /\ handed \subseteq tasks
    BY DEF Wi!RaidsInit
  <2> QED BY <2>1, <2>2, <2>3, <2>4 DEF Wi!RaidsInit, Wi!RaidsTypeOK
<1>2. Wi!RaidsAreSound /\ Wi!Looks = 0
  BY DEF Wi!RaidsInit, Wi!RaidsAreSound, Wi!RunningGoesOn, Wi!AlwaysLooked, Wi!TasksAreKnown,
         Wi!Looks
<1> QED
  BY <1>1, <1>2, WildlifeAssumption DEF Wi!RaidsInit, RaidsInv

(* The parts of the invariant that speak of the checks alone, kept by any  *)
(* step that leaves their number.                                          *)
ChecksFit ==
  /\ checks \in [known : {0, 1}, other : Nat, handed : Nat]
  /\ missed \in Nat /\ startedUp \in BOOLEAN
  /\ Wi!AlwaysLooked /\ (load = 0 => Wi!Looks = 0)

LEMMA NewCheck ==
  ASSUME ChecksFit, Wi!CheckAgain, UNCHANGED <<load, missed, startedUp>>
  PROVE  ChecksFit'
  <1>1. /\ checks.known \in {0, 1} /\ checks.other \in Nat /\ checks.handed \in Nat
        /\ checks.handed > 0
    BY DEF ChecksFit, Wi!CheckAgain
  <1>2. checks' = [known |-> 1, other |-> checks.other + checks.known,
                   handed |-> checks.handed - 1]
    BY DEF Wi!CheckAgain
  <1>3. Wi!Looks' = Wi!Looks
    BY <1>1, <1>2 DEF Wi!Looks
  <1>4. checks' \in [known : {0, 1}, other : Nat, handed : Nat]
    BY <1>1, <1>2
  <1> QED BY <1>3, <1>4 DEF ChecksFit, Wi!AlwaysLooked

LEMMA CheckHandedOver ==
  ASSUME ChecksFit, Wi!HandOverCheck
  PROVE  ChecksFit'
  <1>1. checks.known \in {0, 1} /\ checks.other \in Nat /\ checks.handed \in Nat
    BY DEF ChecksFit
  <1>2. UNCHANGED <<load, missed, startedUp>>
    BY DEF Wi!HandOverCheck
  <1>3. Wi!Looks' = Wi!Looks /\ checks' \in [known : {0, 1}, other : Nat, handed : Nat]
    <2>1. CASE checks.known > 0 /\ checks' = [checks EXCEPT !.known = 0, !.handed = @ + 1]
      <3>1. checks' = [known |-> 0, other |-> checks.other, handed |-> checks.handed + 1]
        BY <2>1 DEF ChecksFit
      <3> QED BY <1>1, <2>1, <3>1 DEF Wi!Looks
    <2>2. CASE checks.other > 0 /\ checks' = [checks EXCEPT !.other = @ - 1, !.handed = @ + 1]
      <3>1. checks' = [known |-> checks.known, other |-> checks.other - 1,
                       handed |-> checks.handed + 1]
        BY <2>2 DEF ChecksFit
      <3> QED BY <1>1, <2>2, <3>1 DEF Wi!Looks
    <2> QED BY <2>1, <2>2 DEF Wi!HandOverCheck
  <1> QED BY <1>2, <1>3 DEF ChecksFit, Wi!AlwaysLooked

LEMMA ChecksReloaded ==
  ASSUME ChecksFit, NEW succeeds \in BOOLEAN, Wi!Reload(succeeds), load \in Nat
  PROVE  ChecksFit'
  <1>1. checks.known \in {0, 1} /\ checks.other \in Nat /\ checks.handed \in Nat
    BY DEF ChecksFit
  <1>2. /\ startedUp' = succeeds /\ load' = load + 1
        /\ checks' = [checks EXCEPT !.known = IF succeeds THEN 1 ELSE 0]
        /\ missed' = (IF checks.known = 0 /\ Wi!Looks > 0 THEN missed + 1 ELSE missed)
    BY DEF Wi!Reload
  <1>3. checks' = [known |-> IF succeeds THEN 1 ELSE 0, other |-> checks.other,
                   handed |-> checks.handed]
    BY <1>2 DEF ChecksFit
  <1>4. /\ checks' \in [known : {0, 1}, other : Nat, handed : Nat]
        /\ missed' \in Nat /\ startedUp' \in BOOLEAN
    BY <1>1, <1>2, <1>3 DEF ChecksFit, Wi!Looks
  <1>5. Wi!Looks' = (IF succeeds THEN 1 ELSE 0) + checks.other + checks.handed
    BY <1>3 DEF Wi!Looks
  <1>6. (startedUp' => Wi!Looks' > 0) /\ Wi!Looks' <= 1 + missed'
    BY <1>1, <1>2, <1>5 DEF ChecksFit, Wi!AlwaysLooked, Wi!Looks
  <1> QED BY <1>2, <1>4, <1>6 DEF ChecksFit, Wi!AlwaysLooked

(* The parts that speak of the raids and their tasks                       *)
TasksFit ==
  /\ load \in 0..Len(Loads)
  /\ raidList \subseteq Wi!AllRaids /\ running \in Wi!AllRaids \union {Nobody}
  /\ nextEvent \in [Wi!AllRaids -> Nat]
  /\ nextEventEvent \in [Wi!AllRaids -> 0..MaxChains]
  /\ tasks \subseteq (1..MaxChains) \X Wi!AllRaids /\ handed \subseteq tasks
  /\ chains \in 0..MaxChains
  /\ deleted \subseteq Wi!AllRaids /\ blurred \subseteq Wi!AllRaids
  /\ struck \subseteq Wi!AllRaids
  /\ \A r \in Wi!AllRaids : Length[r] > 0 => nextEvent[r] < Length[r]
  /\ \A t \in tasks : t[2] \in Loaded
  /\ raidList \subseteq Loaded /\ deleted \subseteq Loaded
  /\ \A r \in raidList : r \notin deleted
  /\ \A t, u \in tasks : t[2] = u[2] /\ t # u => t[2] \in blurred
  /\ running # Nobody /\ Length[running] > 0 => \E t \in tasks : t[2] = running
  /\ \A t \in tasks \ handed :
       t[2] \in raidList => nextEventEvent[t[2]] = t[1] \/ t[2] \in blurred
  /\ \A t \in tasks : t[2] \in deleted => t[2] \in blurred \union struck

LEMMA RaidsInvSplit == RaidsInv <=> TasksFit /\ ChecksFit
  BY DEF RaidsInv, TasksFit, ChecksFit, Wi!RaidsTypeOK, Wi!RaidsAreSound, Wi!RunningGoesOn,
         Wi!Pending, Wi!TasksAreKnown

(* A new chain for a raid of the list                                      *)
LEMMA Begun ==
  ASSUME TasksFit, NEW r \in raidList, Wi!Begin(r), UNCHANGED <<load, handed, deleted, struck>>,
         blurred \subseteq blurred', blurred' \subseteq Wi!AllRaids,
         Wi!Pending(r) # {} => r \in blurred'
  PROVE  /\ chains' \in 1..MaxChains
         /\ tasks' \subseteq (1..MaxChains) \X Wi!AllRaids /\ handed' \subseteq tasks'
         /\ \A t \in tasks' : t[2] \in Loaded'
         /\ \A t, u \in tasks' : t[2] = u[2] /\ t # u => t[2] \in blurred'
         /\ \A t \in tasks' : t[2] \in deleted' => t[2] \in blurred' \union struck'
         /\ tasks \subseteq tasks' /\ \A t \in tasks' : t \in tasks \/ t = <<chains', r>>
         /\ \E t \in tasks' : t[2] = r
  <1> DEFINE new == <<chains', r>>
  <1>1. chains' = chains + 1 /\ chains < MaxChains /\ tasks' = tasks \union {new}
    BY DEF Wi!Begin
  <1>2. chains' \in 1..MaxChains
    BY <1>1, WildlifeAssumption DEF TasksFit
  <1>3. new[2] = r /\ r \in Wi!AllRaids /\ r \in Loaded /\ r \notin deleted /\ Loaded' = Loaded
    BY DEF TasksFit, Loaded
  <1>4. tasks' \subseteq (1..MaxChains) \X Wi!AllRaids /\ handed' \subseteq tasks'
    BY <1>1, <1>2, <1>3 DEF TasksFit
  <1>5. \A t \in tasks : t[2] = r => r \in blurred'
    BY DEF Wi!Pending
  <1>6. \A t, u \in tasks' : t[2] = u[2] /\ t # u => t[2] \in blurred'
    BY <1>1, <1>3, <1>5 DEF TasksFit
  <1>7. \A t \in tasks' : t[2] \in deleted' => t[2] \in blurred' \union struck'
    BY <1>1, <1>3 DEF TasksFit
  <1> HIDE DEF new
  <1>8. new \in tasks' /\ \A t \in tasks' : t \in tasks \/ t = new
    BY <1>1
  <1>9. \A t \in tasks' : t[2] \in Loaded'
    BY <1>3, <1>8 DEF TasksFit
  <1> QED BY <1>1, <1>2, <1>3, <1>4, <1>6, <1>7, <1>8, <1>9 DEF new

(* The chain that starts, or does not.                                     *)
LEMMA StartedRaid ==
  ASSUME TasksFit, NEW r \in raidList, Wi!StartRaid(r),
         UNCHANGED <<load, handed, nextEvent, deleted, struck>>, raidList' \subseteq raidList,
         running' = r \/ running' = running
  PROVE  TasksFit'
  <1>0. r \in Wi!AllRaids /\ Length[r] \in Nat /\ nextEvent[r] \in Nat /\ Loaded' = Loaded
    BY WildlifeAssumption DEF TasksFit, Loaded
  <1>1. CASE Wi!HasNext(r)
    <2>1. /\ Wi!Begin(r) /\ nextEventEvent' = [nextEventEvent EXCEPT ![r] = chains']
          /\ blurred' = IF Wi!Pending(r) # {} THEN blurred \union {r} ELSE blurred
      BY <1>1 DEF Wi!StartRaid
    <2>2. blurred \subseteq blurred' /\ blurred' \subseteq Wi!AllRaids
      BY <1>0, <2>1 DEF TasksFit
    <2>3. Wi!Pending(r) # {} => r \in blurred'
      BY <2>1
    <2>4. /\ chains' \in 1..MaxChains
          /\ tasks' \subseteq (1..MaxChains) \X Wi!AllRaids /\ handed' \subseteq tasks'
          /\ \A t \in tasks' : t[2] \in Loaded'
          /\ \A t, u \in tasks' : t[2] = u[2] /\ t # u => t[2] \in blurred'
          /\ \A t \in tasks' : t[2] \in deleted' => t[2] \in blurred' \union struck'
          /\ tasks \subseteq tasks' /\ \A t \in tasks' : t \in tasks \/ t = <<chains', r>>
          /\ \E t \in tasks' : t[2] = r
      BY <2>1, <2>2, <2>3, Begun
    <2>5. nextEventEvent' \in [Wi!AllRaids -> 0..MaxChains] /\ chains' \in 0..MaxChains
      BY <2>1, <2>4 DEF TasksFit
    <2>6. \A t \in tasks' \ handed' :
            t[2] \in raidList' => nextEventEvent'[t[2]] = t[1] \/ t[2] \in blurred'
      <3> SUFFICES ASSUME NEW t \in tasks' \ handed', t[2] \in raidList'
                   PROVE  nextEventEvent'[t[2]] = t[1] \/ t[2] \in blurred'
        OBVIOUS
      <3>1. CASE t = <<chains', r>>
        BY <1>0, <2>1, <3>1 DEF TasksFit
      <3>2. CASE t \in tasks /\ t[2] = r
        BY <2>3, <3>2 DEF Wi!Pending
      <3>3. CASE t \in tasks /\ t[2] # r
        BY <2>1, <2>2, <3>3 DEF TasksFit
      <3> QED BY <2>4, <3>1, <3>2, <3>3
    <2>7. /\ raidList' \subseteq Wi!AllRaids /\ running' \in Wi!AllRaids \union {Nobody}
          /\ load' \in 0..Len(Loads) /\ nextEvent' \in [Wi!AllRaids -> Nat]
          /\ deleted' \subseteq Wi!AllRaids /\ struck' \subseteq Wi!AllRaids
          /\ raidList' \subseteq Loaded' /\ deleted' \subseteq Loaded'
          /\ \A x \in raidList' : x \notin deleted'
          /\ \A x \in Wi!AllRaids : Length[x] > 0 => nextEvent'[x] < Length[x]
      BY <1>0 DEF TasksFit
    <2>8. running' # Nobody /\ Length[running'] > 0 => \E t \in tasks' : t[2] = running'
      BY <2>4 DEF TasksFit
    <2> QED BY <2>2, <2>4, <2>5, <2>6, <2>7, <2>8 DEF TasksFit
  <1>2. CASE ~Wi!HasNext(r)
    <2>1. UNCHANGED <<chains, tasks, nextEventEvent, blurred>>
      BY <1>2 DEF Wi!StartRaid
    <2>2. ~(Length[r] > 0)
      BY <1>0, <1>2 DEF Wi!HasNext, TasksFit
    <2> QED BY <1>0, <2>1, <2>2 DEF TasksFit
  <1> QED BY <1>1, <1>2

LEMMA ForcedRaid ==
  ASSUME TasksFit, NEW r \in raidList, Wi!ForceRaid(r)
  PROVE  TasksFit'
  <1>0. r \in Wi!AllRaids /\ Length[r] \in Nat /\ nextEvent[r] \in Nat /\ Loaded' = Loaded
    BY WildlifeAssumption DEF TasksFit, Loaded, Wi!ForceRaid
  <1>1. /\ running' = r
        /\ UNCHANGED <<load, raidList, nextEvent, nextEventEvent, handed, deleted, struck>>
    BY DEF Wi!ForceRaid
  <1>2. CASE Wi!HasNext(r)
    <2>1. Wi!Begin(r) /\ blurred' = blurred \union {r}
      BY <1>2 DEF Wi!ForceRaid
    <2>2. blurred \subseteq blurred' /\ blurred' \subseteq Wi!AllRaids /\ r \in blurred'
      BY <1>0, <2>1 DEF TasksFit
    <2>3. /\ chains' \in 1..MaxChains
          /\ tasks' \subseteq (1..MaxChains) \X Wi!AllRaids /\ handed' \subseteq tasks'
          /\ \A t \in tasks' : t[2] \in Loaded'
          /\ \A t, u \in tasks' : t[2] = u[2] /\ t # u => t[2] \in blurred'
          /\ \A t \in tasks' : t[2] \in deleted' => t[2] \in blurred' \union struck'
          /\ \A t \in tasks' : t \in tasks \/ t = <<chains', r>>
          /\ \E t \in tasks' : t[2] = r
      BY <1>1, <2>1, <2>2, Begun
    <2>4. \A t \in tasks' \ handed' :
            t[2] \in raidList' => nextEventEvent'[t[2]] = t[1] \/ t[2] \in blurred'
      BY <1>1, <2>2, <2>3 DEF TasksFit
    <2>5. chains' \in 0..MaxChains
      BY <2>3
    <2> QED BY <1>0, <1>1, <2>2, <2>3, <2>4, <2>5 DEF TasksFit
  <1>3. CASE ~Wi!HasNext(r)
    <2>1. UNCHANGED <<chains, tasks, blurred>>
      BY <1>3 DEF Wi!ForceRaid
    <2>2. ~(Length[r] > 0)
      BY <1>0, <1>3 DEF Wi!HasNext, TasksFit
    <2> QED BY <1>0, <1>1, <2>1, <2>2 DEF TasksFit
  <1> QED BY <1>2, <1>3

(* A reload stops the tasks that the raids of the list know of.            *)
LEMMA ReloadedTasks ==
  ASSUME TasksFit, NEW succeeds \in BOOLEAN, Wi!Reload(succeeds)
  PROVE  TasksFit'
  <1>1. /\ load \in 1..Len(Loads) - 1 /\ load' = load + 1
        /\ raidList' = (IF succeeds THEN Loads[load'] ELSE {}) /\ running' = Nobody
        /\ tasks' = tasks \ Wi!Known /\ deleted' = deleted \union raidList
        /\ nextEventEvent' =
             [r \in Wi!AllRaids |-> IF r \in raidList THEN 0 ELSE nextEventEvent[r]]
        /\ struck' = struck \union {r \in raidList : Wi!Pending(r) \intersect handed # {}}
        /\ UNCHANGED <<nextEvent, handed, chains, blurred>>
    BY DEF Wi!Reload
  <1>2. /\ load' \in 1..Len(Loads) /\ Loads[load'] \subseteq Wi!AllRaids
        /\ Loaded \subseteq Loaded' /\ Loads[load'] \subseteq Loaded'
        /\ \A r \in Loads[load'] : r \notin Loaded
    BY <1>1, LoadedRaids, LoadedNext
  <1>3. raidList' \subseteq Wi!AllRaids /\ raidList' \subseteq Loaded'
        /\ \A r \in raidList' : r \notin Loaded
    BY <1>1, <1>2
  <1>4. /\ deleted' \subseteq Wi!AllRaids /\ deleted' \subseteq Loaded'
        /\ struck' \subseteq Wi!AllRaids /\ \A r \in raidList' : r \notin deleted'
    BY <1>1, <1>2, <1>3 DEF TasksFit
  <1>5. nextEventEvent' \in [Wi!AllRaids -> 0..MaxChains]
    <2>1. 0 \in 0..MaxChains
      BY WildlifeAssumption
    <2> QED BY <1>1, <2>1 DEF TasksFit
  <1>6. tasks' \subseteq tasks /\ handed' \subseteq tasks'
    BY <1>1 DEF TasksFit, Wi!Known
  <1>7. \A t \in tasks' : t[2] \in Loaded /\ t[2] \in Loaded' /\ t[2] \notin raidList'
    BY <1>2, <1>3, <1>6 DEF TasksFit
  <1>8. \A t \in tasks' : t[2] \in deleted' => t[2] \in blurred' \union struck'
    <2> SUFFICES ASSUME NEW t \in tasks', t[2] \in raidList, t[2] \notin blurred
                 PROVE  t[2] \in struck'
      BY <1>1, <1>6 DEF TasksFit
    <2>1. t \in tasks /\ t \notin Wi!Known
      BY <1>1
    <2>2. t \in handed
      BY <2>1 DEF TasksFit, Wi!Known
    <2>3. t \in Wi!Pending(t[2]) \intersect handed
      BY <2>1, <2>2 DEF Wi!Pending
    <2> QED BY <1>1, <2>3
  <1>9. load' \in 0..Len(Loads)
    BY <1>2
  <1> QED BY <1>1, <1>3, <1>4, <1>5, <1>6, <1>7, <1>8, <1>9 DEF TasksFit

LEMMA ExecutedEvent ==
  ASSUME TasksFit, NEW t \in tasks, NEW succeeds \in BOOLEAN, Wi!ExecuteRaidEvent(t, succeeds)
  PROVE  TasksFit'
  <1> DEFINE r == t[2]
  <1>0. /\ t[1] \in 1..MaxChains /\ r \in Wi!AllRaids /\ Length[r] \in Nat
        /\ t[1] \in 0..MaxChains /\ nextEvent[r] \in Nat
    BY WildlifeAssumption DEF TasksFit
  <1>1. /\ t \in handed /\ handed' = handed \ {t}
        /\ UNCHANGED <<load, raidList, chains, deleted, blurred, struck>> /\ Loaded' = Loaded
    BY DEF Wi!ExecuteRaidEvent, Loaded
  <1>2. PICK more \in Wi!GoesOn(r, succeeds) :
          IF more
          THEN /\ nextEvent' = [nextEvent EXCEPT ![r] = IF r \in deleted THEN @ ELSE @ + 1]
               /\ nextEventEvent' = [nextEventEvent EXCEPT ![r] = t[1]]
               /\ UNCHANGED <<tasks, running>>
          ELSE /\ tasks' = tasks \ {t}
               /\ Wi!ResetRaid(r)
               /\ UNCHANGED nextEventEvent
    BY DEF Wi!ExecuteRaidEvent
  <1>3. CASE more
    <2>1. /\ nextEvent' = [nextEvent EXCEPT ![r] = IF r \in deleted THEN @ ELSE @ + 1]
          /\ nextEventEvent' = [nextEventEvent EXCEPT ![r] = t[1]]
          /\ UNCHANGED <<tasks, running>>
      BY <1>2, <1>3
    <2>2. r \in deleted \/ nextEvent[r] + 1 < Length[r]
      BY <1>2, <1>3 DEF Wi!GoesOn
    <2>3. nextEvent' \in [Wi!AllRaids -> Nat]
      BY <1>0, <2>1 DEF TasksFit
    <2>4. \A x \in Wi!AllRaids : Length[x] > 0 => nextEvent'[x] < Length[x]
      BY <1>0, <2>1, <2>2 DEF TasksFit
    <2>5. nextEventEvent' \in [Wi!AllRaids -> 0..MaxChains]
      BY <1>0, <2>1 DEF TasksFit
    <2>6. \A u \in tasks' \ handed' :
            u[2] \in raidList' => nextEventEvent'[u[2]] = u[1] \/ u[2] \in blurred'
      <3> SUFFICES ASSUME NEW u \in tasks' \ handed', u[2] \in raidList'
                   PROVE  nextEventEvent'[u[2]] = u[1] \/ u[2] \in blurred'
        OBVIOUS
      <3>1. CASE u = t
        BY <1>0, <2>1, <3>1 DEF TasksFit
      <3>2. CASE u # t /\ u[2] = r
        BY <1>1, <2>1, <3>2 DEF TasksFit
      <3>3. CASE u[2] # r
        BY <1>1, <2>1, <3>3 DEF TasksFit
      <3> QED BY <3>1, <3>2, <3>3
    <2>7. handed' \subseteq tasks'
      BY <1>1, <2>1 DEF TasksFit
    <2> HIDE DEF r
    <2> QED BY <1>1, <2>1, <2>3, <2>4, <2>5, <2>6, <2>7 DEF TasksFit
  <1>4. CASE ~more
    <2>1. /\ tasks' = tasks \ {t} /\ nextEvent' = [nextEvent EXCEPT ![r] = 0]
          /\ running' = Nobody /\ UNCHANGED nextEventEvent
      BY <1>2, <1>4 DEF Wi!ResetRaid
    <2>2. nextEvent' \in [Wi!AllRaids -> Nat]
      BY <1>0, <2>1 DEF TasksFit
    <2>3. \A x \in Wi!AllRaids : Length[x] > 0 => nextEvent'[x] < Length[x]
      BY <1>0, <2>1 DEF TasksFit
    <2>4. handed' \subseteq tasks' /\ tasks' \subseteq tasks
          /\ \A u \in tasks' \ handed' : u \in tasks \ handed
      BY <1>1, <2>1 DEF TasksFit
    <2> HIDE DEF r
    <2> QED BY <1>1, <2>1, <2>2, <2>3, <2>4 DEF TasksFit
  <1> QED BY <1>2, <1>3, <1>4 DEF Wi!GoesOn

(* ... and every step keeps it.                                            *)
LEMMA RaidsStep ==
  ASSUME RaidsInv, [Wi!RaidsNext]_raidVars
  PROVE  RaidsInv'
  <1>0. TasksFit /\ ChecksFit
    BY RaidsInvSplit
  <1> SUFFICES TasksFit' /\ ChecksFit'
    <2>1. RaidsInv' <=> TasksFit' /\ ChecksFit'
      BY RaidsInvSplit, PTL
    <2> QED BY <2>1
  <1>1. ASSUME Wi!Load
        PROVE  TasksFit' /\ ChecksFit'
    <2>1. /\ load = 0 /\ load' = 1 /\ raidList' = Loads[1] /\ startedUp' = TRUE
          /\ checks' = [checks EXCEPT !.known = 1]
          /\ UNCHANGED <<running, nextEvent, nextEventEvent, tasks, handed, chains, deleted,
                         missed, blurred, struck>>
      BY <1>1 DEF Wi!Load
    <2>2. Loaded = {}
      BY <2>1 DEF Loaded
    <2>3. /\ load' \in 1..Len(Loads) /\ Loads[load'] \subseteq Wi!AllRaids
          /\ Loads[load'] \subseteq Loaded'
      BY <2>1, LoadedRaids, LoadedNext
    <2>4. tasks = {} /\ deleted = {} /\ handed = {}
      BY <1>0, <2>2 DEF TasksFit
    <2>5. load' \in 0..Len(Loads) /\ raidList' \subseteq Wi!AllRaids /\ raidList' \subseteq Loaded'
      BY <2>1, <2>3
    <2>6. TasksFit'
      BY <1>0, <2>1, <2>4, <2>5 DEF TasksFit
    <2>7. /\ checks.known \in {0, 1} /\ checks.other \in Nat /\ checks.handed \in Nat
          /\ Wi!Looks = 0 /\ missed \in Nat
      BY <1>0, <2>1 DEF ChecksFit
    <2>8. checks' = [known |-> 1, other |-> checks.other, handed |-> checks.handed]
      BY <1>0, <2>1 DEF ChecksFit
    <2>9. Wi!Looks' = 1 /\ checks' \in [known : {0, 1}, other : Nat, handed : Nat]
      BY <2>7, <2>8 DEF Wi!Looks
    <2>10. ChecksFit'
      BY <2>1, <2>7, <2>9 DEF ChecksFit, Wi!AlwaysLooked
    <2> QED BY <2>6, <2>10
  <1>2. ASSUME NEW succeeds \in BOOLEAN, Wi!Reload(succeeds)
        PROVE  TasksFit' /\ ChecksFit'
    <2>1. load \in Nat
      BY <1>2, LoadedRaids DEF Wi!Reload
    <2> QED BY <1>0, <1>2, <2>1, ReloadedTasks, ChecksReloaded
  <1>3. ASSUME NEW r \in Wi!AllRaids, Wi!CheckStarts(r)
        PROVE  TasksFit' /\ ChecksFit'
    <2>1. /\ running' = r /\ r \in raidList /\ Wi!StartRaid(r) /\ Wi!CheckAgain
          /\ raidList' \subseteq raidList
          /\ UNCHANGED <<load, startedUp, nextEvent, handed, deleted, missed, struck>>
      BY <1>3 DEF Wi!CheckStarts
    <2> QED BY <1>0, <2>1, StartedRaid, NewCheck
  <1>4. ASSUME NEW r \in Wi!AllRaids, Wi!ScriptStarts(r)
        PROVE  TasksFit' /\ ChecksFit'
    <2>1. /\ r \in raidList /\ Wi!StartRaid(r)
          /\ UNCHANGED <<load, raidList, running, startedUp, nextEvent, handed, checks, deleted,
                         missed, struck>>
      BY <1>4 DEF Wi!ScriptStarts
    <2>2. TasksFit'
      BY <1>0, <2>1, StartedRaid
    <2> QED BY <1>0, <2>1, <2>2 DEF ChecksFit, Wi!AlwaysLooked, Wi!Looks
  <1>5. ASSUME NEW r \in Wi!AllRaids, Wi!ForceRaid(r)
        PROVE  TasksFit' /\ ChecksFit'
    <2>1. r \in raidList /\ UNCHANGED <<load, startedUp, checks, missed>>
      BY <1>5 DEF Wi!ForceRaid
    <2> QED BY <1>0, <1>5, <2>1, ForcedRaid DEF ChecksFit, Wi!AlwaysLooked, Wi!Looks
  <1>6. ASSUME NEW t \in tasks, NEW succeeds \in BOOLEAN, Wi!ExecuteRaidEvent(t, succeeds)
        PROVE  TasksFit' /\ ChecksFit'
    <2>1. UNCHANGED <<load, startedUp, checks, missed>>
      BY <1>6 DEF Wi!ExecuteRaidEvent
    <2> QED BY <1>0, <1>6, <2>1, ExecutedEvent DEF ChecksFit, Wi!AlwaysLooked, Wi!Looks
  <1>7. ASSUME NEW t \in tasks, Wi!HandOver(t)
        PROVE  TasksFit' /\ ChecksFit'
    <2>1. /\ handed' = handed \union {t}
          /\ UNCHANGED <<load, raidList, running, startedUp, nextEvent, nextEventEvent, tasks,
                         chains, checks, deleted, missed, blurred, struck>>
      BY <1>7 DEF Wi!HandOver
    <2>2. Loaded' = Loaded
      BY <2>1 DEF Loaded
    <2>3. TasksFit'
      BY <1>0, <2>1, <2>2 DEF TasksFit
    <2> QED BY <1>0, <2>1, <2>3 DEF ChecksFit, Wi!AlwaysLooked, Wi!Looks
  <1>8. ASSUME Wi!HandOverCheck \/ Wi!CheckRaids
        PROVE  TasksFit' /\ ChecksFit'
    <2>1. UNCHANGED <<load, raidList, running, startedUp, nextEvent, nextEventEvent, tasks,
                      handed, chains, deleted, missed, blurred, struck>>
      BY <1>8 DEF Wi!HandOverCheck, Wi!CheckRaids
    <2>2. Loaded' = Loaded
      BY <2>1 DEF Loaded
    <2>3. TasksFit'
      BY <1>0, <2>1, <2>2 DEF TasksFit
    <2> QED BY <1>0, <1>8, <2>1, <2>3, CheckHandedOver, NewCheck DEF Wi!CheckRaids
  <1>9. CASE UNCHANGED raidVars
    BY <1>0, <1>9 DEF raidVars, TasksFit, Loaded, ChecksFit, Wi!AlwaysLooked, Wi!Looks
  <1> QED BY <1>1, <1>2, <1>3, <1>4, <1>5, <1>6, <1>7, <1>8, <1>9 DEF Wi!RaidsNext
-----------------------------------------------------------------------------
(***************************************************************************)
(* Houses (see House).                                                     *)
(***************************************************************************)
(* Whoever is to buy a house owns none, and nobody is in two deals.        *)
DealsApart ==
  /\ \A h \in Estates : deal[h] # Nobody => Ho!OwnsNone(deal[h][2])
  /\ \A g, h \in Estates : deal[g] # Nobody /\ deal[h] # Nobody /\ g # h =>
       {deal[g][1], deal[g][2]} \intersect {deal[h][1], deal[h][2]} = {}

(* Whether own and ls let p, whose guild mem tells, into h; and that those *)
(* who are in a house and are not let in are to leave the game, or had     *)
(* their guild changed.                                                    *)
Lets(own, ls, mem, h, p) ==
  own[h] = p \/ \E l \in Ho!Lists : p \in ls[h][l] \/ mem[p] \in ls[h][l]
StrangersGo ==
  \A p \in playing : place[p] # Outdoors =>
    Lets(houseOwner, lists, memberOf, place[p], p) \/ p \in kicks \/ p \in changed

(* The inductive invariant: what the run checks, and that deals are apart. *)
HouseInv ==
  /\ Ho!TypeOK /\ StrangersGo /\ Ho!OneHouseEach /\ Ho!BedsAgree /\ Ho!DealsAreOpen
  /\ DealsApart

Entries == Tenants \union Orders

LEMMA NobodyInHouses ==
  /\ Nobody \notin Tenants /\ Nobody \notin Ho!BedHalves
  /\ Nobody \notin Estates \X Ho!Lists /\ Nobody \notin Tenants \X Tenants
  /\ Outdoors \notin Estates /\ StandsIn \in [Bunks -> Estates]
  /\ \A h \in Estates : Writings[h] \subseteq SUBSET Entries
  BY HouseAssumption DEF Entries

(* A house lets in its owner and whoever is on one of its lists.           *)
LEMMA Invited ==
  ASSUME NEW own, NEW ls, NEW h, NEW p
  PROVE  /\ Ho!Level(own, ls, h, p) > 0 <=> Lets(own, ls, memberOf, h, p)
         /\ Ho!Level(own, ls, h, p) = 0 <=> ~Lets(own, ls, memberOf, h, p)
  <1>1. Lets(own, ls, memberOf, h, p) <=>
          \/ own[h] = p \/ Ho!IsInList(ls[h]["subowner"], p) \/ Ho!IsInList(ls[h]["guest"], p)
    BY DEF Lets, Ho!Lists, Ho!IsInList
  <1> QED BY <1>1 DEF Ho!Level

LEMMA HousesSuffice == HouseInv => Ho!TypeOK /\ Ho!HousesAreSound
  <1> SUFFICES ASSUME HouseInv PROVE Ho!NoStrangerStays
    BY DEF HouseInv, Ho!HousesAreSound
  <1> QED BY Invited DEF HouseInv, StrangersGo, Ho!NoStrangerStays, Ho!IsInvited

(* A bed has two halves, each the other of the other.                      *)
LEMMA TwoHalves ==
  ASSUME NEW b \in Ho!BedHalves
  PROVE  /\ b[1] \in Bunks /\ Ho!OtherHalf(b) \in Ho!BedHalves
         /\ Ho!OtherHalf(Ho!OtherHalf(b)) = b
         /\ Ho!OtherHalf(b)[1] = b[1]
         /\ \A c \in Ho!BedHalves :
              b \in Ho!BothHalves(c) <=> b = c \/ b = Ho!OtherHalf(c)
         /\ \A c \in Ho!BedHalves :
              b \in Ho!BothHalves(c) <=> Ho!OtherHalf(b) \in Ho!BothHalves(c)
  <1>1. \A c \in Ho!BedHalves :
          \/ c[2] = "head" /\ Ho!OtherHalf(c) = <<c[1], "foot">> /\ c = <<c[1], "head">>
          \/ c[2] = "foot" /\ Ho!OtherHalf(c) = <<c[1], "head">> /\ c = <<c[1], "foot">>
    BY DEF Ho!OtherHalf, Ho!BedHalves, Ho!Halves
  <1>2. \A c \in Ho!BedHalves : /\ c[1] \in Bunks
                                /\ <<c[1], "head">> \in Ho!BedHalves
                                /\ <<c[1], "foot">> \in Ho!BedHalves
    BY DEF Ho!BedHalves, Ho!Halves
  <1>3. \A c \in Ho!BedHalves : /\ Ho!OtherHalf(c) \in Ho!BedHalves
                                /\ Ho!OtherHalf(Ho!OtherHalf(c)) = c
                                /\ Ho!OtherHalf(c)[1] = c[1]
    BY <1>1, <1>2
  <1> QED BY <1>2, <1>3 DEF Ho!BothHalves

(* The invariant holds at first, ...                                       *)
LEMMA HousesBegin == Ho!Init => HouseInv
  <1> SUFFICES ASSUME Ho!Init PROVE HouseInv
    OBVIOUS
  <1>1. Ho!TypeOK
    BY HouseAssumption DEF Ho!Init, Ho!TypeOK, Ho!Anybody
  <1>2. StrangersGo
    BY DEF Ho!Init, StrangersGo
  <1>3. Ho!OneHouseEach
    BY HouseAssumption DEF Ho!Init, Ho!OneHouseEach
  <1>4. Ho!BedsAgree
    BY TwoHalves DEF Ho!Init, Ho!BedsAgree
  <1>5. Ho!DealsAreOpen
    BY DEF Ho!Init, Ho!DealsAreOpen, Ho!Trading
  <1>6. DealsApart
    BY DEF Ho!Init, DealsApart
  <1> QED BY <1>1, <1>2, <1>3, <1>4, <1>5, <1>6 DEF HouseInv

BedTypes ==
  /\ sleeper \in [Ho!BedHalves -> Ho!Anybody]
  /\ bedSleepers \in [Tenants -> Ho!BedHalves \union {Nobody}]

(* wakeUp frees both halves of a bed and forgets who slept there.          *)
LEMMA Woken ==
  ASSUME BedTypes, Ho!BedsAgree, NEW B \in SUBSET Ho!BedHalves, Ho!WakeUp(B)
  PROVE  BedTypes' /\ Ho!BedsAgree'
  <1> DEFINE woken(b) == \E c \in B : b \in Ho!BothHalves(c)
             found(p) == \E b \in B : sleeper[b] = p
  <1>1. /\ sleeper' = [b \in Ho!BedHalves |-> IF woken(b) THEN Nobody ELSE sleeper[b]]
        /\ bedSleepers' = [p \in Tenants |-> IF found(p) THEN Nobody ELSE bedSleepers[p]]
    BY DEF Ho!WakeUp
  <1>2. BedTypes'
    BY <1>1 DEF BedTypes, Ho!Anybody
  <1>3. \A b \in Ho!BedHalves : woken(b) <=> woken(Ho!OtherHalf(b))
    BY TwoHalves
  <1>4. ASSUME NEW b \in Ho!BedHalves PROVE sleeper'[b] = sleeper'[Ho!OtherHalf(b)]
    BY <1>1, <1>3, TwoHalves DEF Ho!BedsAgree
  <1>5. ASSUME NEW p \in Tenants, bedSleepers'[p] # Nobody
        PROVE  sleeper'[bedSleepers'[p]] = p
    <2>1. /\ ~found(p) /\ bedSleepers'[p] = bedSleepers[p]
          /\ bedSleepers[p] \in Ho!BedHalves /\ sleeper[bedSleepers[p]] = p
      BY <1>1, <1>5 DEF BedTypes, Ho!BedsAgree
    <2>2. ~woken(bedSleepers[p])
      BY <2>1, TwoHalves DEF Ho!BedsAgree
    <2> QED BY <1>1, <2>1, <2>2
  <1> QED BY <1>2, <1>4, <1>5 DEF Ho!BedsAgree

(* setOwner throws out whoever was let in by the old owner.                *)
LEMMA NewOwner ==
  ASSUME HouseInv, NEW h \in Estates, NEW new \in Ho!Anybody,
         Ho!SetOwner(h, new), UNCHANGED <<playing, memberOf, kicks>>
  PROVE  /\ houseOwner' = [houseOwner EXCEPT ![h] = new]
         /\ lists' \in [Estates -> [Ho!Lists -> SUBSET Entries]]
         /\ place' \in [Tenants -> Estates \union {Outdoors}] /\ changed' \subseteq Tenants
         /\ dialog' \in [Tenants -> Ho!BedHalves \union {Nobody}]
         /\ BedTypes' /\ Ho!BedsAgree' /\ StrangersGo'
  <1>0. /\ houseOwner \in [Estates -> Ho!Anybody]
        /\ lists \in [Estates -> [Ho!Lists -> SUBSET Entries]]
        /\ place \in [Tenants -> Estates \union {Outdoors}] /\ changed \subseteq Tenants
        /\ dialog \in [Tenants -> Ho!BedHalves \union {Nobody}]
        /\ playing \subseteq Tenants
        /\ BedTypes /\ Ho!BedsAgree /\ StrangersGo
    BY DEF HouseInv, Ho!TypeOK, BedTypes, Entries
  <1>1. ASSUME UNCHANGED <<lists, place, changed, dialog, sleeper, bedSleepers>>,
               houseOwner' = [houseOwner EXCEPT ![h] = new],
               houseOwner[h] = new \/ houseOwner[h] = Nobody
        PROVE  BedTypes' /\ Ho!BedsAgree' /\ StrangersGo'
    <2>1. \A p \in playing, g \in Estates :
            Lets(houseOwner, lists, memberOf, g, p) => Lets(houseOwner', lists', memberOf', g, p)
      BY <1>0, <1>1, NobodyInHouses DEF Lets
    <2>2. \A p \in playing : place[p] # Outdoors => place[p] \in Estates
      BY <1>0
    <2>3. StrangersGo'
      BY <1>0, <1>1, <2>1, <2>2 DEF StrangersGo
    <2> QED BY <1>0, <1>1, <2>3 DEF BedTypes, Ho!BedsAgree
  <1>2. CASE houseOwner[h] = new
    <2>1. UNCHANGED <<houseOwner, lists, place, changed, dialog, sleeper, bedSleepers>>
      BY <1>2 DEF Ho!SetOwner, Ho!inside
    <2>2. houseOwner' = [houseOwner EXCEPT ![h] = new]
      BY <1>0, <1>2, <2>1
    <2> QED BY <1>0, <1>1, <1>2, <2>1, <2>2
  <1>3. CASE houseOwner[h] # new /\ houseOwner[h] = Nobody
    <2>1. /\ houseOwner' = [houseOwner EXCEPT ![h] = new]
          /\ UNCHANGED <<lists, place, changed, dialog, sleeper, bedSleepers>>
      BY <1>3 DEF Ho!SetOwner, Ho!inside
    <2> QED BY <1>0, <1>1, <1>3, <2>1
  <1>4. CASE houseOwner[h] # new /\ houseOwner[h] # Nobody
    <2> DEFINE B == {b \in Ho!BedHalves : StandsIn[b[1]] = h /\ sleeper[b] # Nobody}
    <2>1. /\ houseOwner' = [houseOwner EXCEPT ![h] = new]
          /\ lists' = [lists EXCEPT ![h] = [l \in Ho!Lists |-> {}]]
          /\ Ho!Moved(Ho!Inside(h), Outdoors)
          /\ Ho!WakeUp(B)
      BY <1>4 DEF Ho!SetOwner
    <2>2. BedTypes' /\ Ho!BedsAgree'
      BY <1>0, <2>1, Woken
    <2>3. /\ lists' \in [Estates -> [Ho!Lists -> SUBSET Entries]]
          /\ \A g \in Estates : g # h => lists'[g] = lists[g] /\ houseOwner'[g] = houseOwner[g]
      BY <1>0, <2>1
    <2>4. /\ place' = [p \in Tenants |-> IF p \in Ho!Inside(h) THEN Outdoors ELSE place[p]]
          /\ dialog' = [p \in Tenants |-> IF p \in Ho!Inside(h) THEN Nobody ELSE dialog[p]]
          /\ changed' = changed \ Ho!Inside(h)
      BY <2>1 DEF Ho!Moved
    <2>5. \A p \in playing : p \in Ho!Inside(h) <=> place[p] = h
      BY DEF Ho!Inside
    <2>6. \A p \in playing : place'[p] # Outdoors =>
            /\ place'[p] = place[p] /\ place[p] # h /\ place[p] \in Estates
            /\ p \in changed => p \in changed'
      BY <1>0, <2>4, <2>5
    <2>7. \A p \in playing, g \in Estates : g # h =>
            (Lets(houseOwner, lists, memberOf, g, p) => Lets(houseOwner', lists', memberOf', g, p))
      BY <2>3 DEF Lets
    <2>8. StrangersGo'
      BY <1>0, <2>6, <2>7 DEF StrangersGo
    <2>9. /\ place' \in [Tenants -> Estates \union {Outdoors}] /\ changed' \subseteq Tenants
          /\ dialog' \in [Tenants -> Ho!BedHalves \union {Nobody}]
      BY <1>0, <2>4
    <2> QED BY <2>1, <2>2, <2>3, <2>8, <2>9
  <1> QED BY <1>2, <1>3, <1>4

(* Trades that are called off since somebody leaves, ...                   *)
LEMMA DealsLetGo ==
  ASSUME HouseInv, NEW gone \in SUBSET Tenants, deal' = Ho!NoDealsOf(gone),
         houseOwner' = houseOwner, playing' = playing \ gone
  PROVE  /\ deal' \in [Estates -> (Tenants \X Tenants) \union {Nobody}]
         /\ DealsApart' /\ Ho!DealsAreOpen'
  <1>1. \A h \in Estates : deal'[h] = IF /\ deal[h] # Nobody
                                         /\ {deal[h][1], deal[h][2]} \intersect gone # {}
                                      THEN Nobody ELSE deal[h]
    BY DEF Ho!NoDealsOf
  <1>2. deal \in [Estates -> (Tenants \X Tenants) \union {Nobody}]
    BY DEF HouseInv, Ho!TypeOK
  <1>3. \A h \in Estates : deal'[h] # Nobody =>
          /\ deal'[h] = deal[h]
          /\ deal[h][1] \in playing' /\ deal[h][2] \in playing'
    BY <1>1 DEF HouseInv, Ho!DealsAreOpen, Ho!Trading
  <1>4. deal' \in [Estates -> (Tenants \X Tenants) \union {Nobody}]
    BY <1>2 DEF Ho!NoDealsOf
  <1>5. DealsApart'
    BY <1>3 DEF HouseInv, DealsApart, Ho!OwnsNone
  <1>6. Ho!DealsAreOpen'
    BY <1>3 DEF Ho!DealsAreOpen, Ho!Trading
  <1> QED BY <1>4, <1>5, <1>6

(* ... and the one that is over: the house is theirs, or as it was.        *)
LEMMA DealIsOver ==
  ASSUME HouseInv, NEW h \in Estates, deal' = [deal EXCEPT ![h] = Nobody],
         playing' = playing,
         \/ houseOwner' = houseOwner
         \/ deal[h] # Nobody /\ houseOwner' = [houseOwner EXCEPT ![h] = deal[h][2]]
  PROVE  /\ deal' \in [Estates -> (Tenants \X Tenants) \union {Nobody}]
         /\ DealsApart' /\ Ho!DealsAreOpen'
  <1>1. /\ deal \in [Estates -> (Tenants \X Tenants) \union {Nobody}]
        /\ houseOwner \in [Estates -> Ho!Anybody]
    BY DEF HouseInv, Ho!TypeOK
  <1>2. deal' \in [Estates -> (Tenants \X Tenants) \union {Nobody}]
    BY <1>1
  <1>3. \A g \in Estates : deal'[g] # Nobody => g # h /\ deal'[g] = deal[g]
    BY <1>1
  <1>4. \A g \in Estates : deal'[g] # Nobody => Ho!OwnsNone(deal[g][2])'
    <2> SUFFICES ASSUME NEW g \in Estates, deal'[g] # Nobody, NEW f \in Estates
                 PROVE  houseOwner'[f] # deal'[g][2]
      BY DEF Ho!OwnsNone
    <2>1. houseOwner[f] # deal[g][2] /\ g # h /\ deal'[g] = deal[g]
      BY <1>3 DEF HouseInv, DealsApart, Ho!OwnsNone
    <2>2. deal[h] # Nobody => deal[h][2] # deal[g][2]
      BY <2>1 DEF HouseInv, DealsApart
    <2> QED BY <1>1, <2>1, <2>2
  <1>5. DealsApart'
    BY <1>3, <1>4 DEF HouseInv, DealsApart
  <1>6. Ho!DealsAreOpen'
    BY <1>3 DEF HouseInv, Ho!DealsAreOpen, Ho!Trading
  <1> QED BY <1>2, <1>5, <1>6

(* ... and every operation keeps it.                                       *)
LEMMA HousesStep ==
  ASSUME HouseInv, [Ho!Next]_houseVars
  PROVE  HouseInv'
  <1>0. /\ houseOwner \in [Estates -> Ho!Anybody]
        /\ lists \in [Estates -> [Ho!Lists -> SUBSET Entries]]
        /\ memberOf \in [Tenants -> Orders \union {Nobody}]
        /\ place \in [Tenants -> Estates \union {Outdoors}] /\ changed \subseteq Tenants
        /\ playing \subseteq Tenants /\ kicks \subseteq playing
        /\ sleeper \in [Ho!BedHalves -> Ho!Anybody]
        /\ bedSleepers \in [Tenants -> Ho!BedHalves \union {Nobody}]
        /\ BedTypes
        /\ dialog \in [Tenants -> Ho!BedHalves \union {Nobody}]
        /\ window \in [Tenants -> (Estates \X Ho!Lists) \union {Nobody}]
        /\ deal \in [Estates -> (Tenants \X Tenants) \union {Nobody}]
        /\ StrangersGo /\ Ho!OneHouseEach /\ Ho!BedsAgree /\ Ho!DealsAreOpen
        /\ DealsApart
    BY DEF HouseInv, Ho!TypeOK, BedTypes, Entries
  <1>a. ASSUME UNCHANGED <<houseOwner, deal>>, playing \subseteq playing'
        PROVE  Ho!OneHouseEach' /\ DealsApart' /\ Ho!DealsAreOpen'
    BY <1>0, <1>a DEF Ho!OneHouseEach, DealsApart, Ho!OwnsNone, Ho!DealsAreOpen, Ho!Trading
  <1>b. ASSUME UNCHANGED <<sleeper, bedSleepers>>
        PROVE  BedTypes' /\ Ho!BedsAgree'
    BY <1>0, <1>b DEF BedTypes, Ho!BedsAgree
  <1>c. ASSUME UNCHANGED <<houseOwner, lists, memberOf>>,
               \A p \in playing' : place'[p] # Outdoors =>
                 \/ /\ p \in playing /\ place'[p] = place[p]
                    /\ p \in kicks \union changed => p \in kicks' \union changed'
                 \/ Lets(houseOwner, lists, memberOf, place'[p], p)
                 \/ p \in kicks' \union changed'
        PROVE  StrangersGo'
    BY <1>0, <1>c DEF StrangersGo, Lets
  <1>d. ASSUME NEW P \in SUBSET Tenants, NEW to \in Estates \union {Outdoors},
               Ho!Moved(P, to)
        PROVE  /\ place' \in [Tenants -> Estates \union {Outdoors}] /\ changed' \subseteq Tenants
               /\ dialog' \in [Tenants -> Ho!BedHalves \union {Nobody}]
               /\ \A p \in Tenants : IF p \in P THEN place'[p] = to
                                     ELSE place'[p] = place[p] /\ (p \in changed <=> p \in changed')
    BY <1>0, <1>d DEF Ho!Moved
  <1>e. ASSUME houseOwner' \in [Estates -> Ho!Anybody],
               lists' \in [Estates -> [Ho!Lists -> SUBSET Entries]],
               memberOf' \in [Tenants -> Orders \union {Nobody}],
               place' \in [Tenants -> Estates \union {Outdoors}], changed' \subseteq Tenants,
               playing' \subseteq Tenants, kicks' \subseteq playing',
               BedTypes',
               dialog' \in [Tenants -> Ho!BedHalves \union {Nobody}],
               window' \in [Tenants -> (Estates \X Ho!Lists) \union {Nobody}],
               deal' \in [Estates -> (Tenants \X Tenants) \union {Nobody}],
               StrangersGo', Ho!OneHouseEach', Ho!BedsAgree', Ho!DealsAreOpen',
               DealsApart'
        PROVE  HouseInv'
    BY <1>e DEF HouseInv, Ho!TypeOK, BedTypes, Entries
  <1>1. ASSUME NEW p \in Tenants, Ho!LogIn(p) PROVE HouseInv'
    <2>1. /\ p \notin playing /\ playing' = playing \union {p}
          /\ place' = [place EXCEPT ![p] =
               IF place[p] # Outdoors /\ ~Ho!IsInvited(place[p], p) THEN Outdoors
               ELSE place[p]]
          /\ changed' = changed \ {p}
          /\ UNCHANGED <<houseOwner, lists, memberOf, dialog, window, deal, kicks>>
      BY <1>1 DEF Ho!LogIn
    <2>2. BedTypes' /\ Ho!BedsAgree'
      <3>1. CASE bedSleepers[p] = Nobody
        BY <1>1, <1>b, <3>1 DEF Ho!LogIn
      <3>2. CASE bedSleepers[p] # Nobody
        <4>1. Ho!WakeUp({bedSleepers[p]}) /\ {bedSleepers[p]} \in SUBSET Ho!BedHalves
          BY <1>0, <1>1, <3>2 DEF Ho!LogIn
        <4> QED BY <1>0, <4>1, Woken
      <3> QED BY <3>1, <3>2
    <2>3. place' \in [Tenants -> Estates \union {Outdoors}]
      BY <1>0, <2>1
    <2>4. StrangersGo'
      <3>1. place[p] # Outdoors /\ Ho!IsInvited(place[p], p) =>
              Lets(houseOwner, lists, memberOf, place[p], p)
        BY Invited DEF Ho!IsInvited
      <3>2. place'[p] # Outdoors =>
              place'[p] = place[p] /\ Ho!IsInvited(place[p], p)
        BY <1>0, <2>1
      <3>3. \A q \in playing : place'[q] = place[q] /\ (q \in changed => q \in changed')
        BY <1>0, <2>1
      <3> QED BY <1>0, <1>c, <2>1, <3>1, <3>2, <3>3
    <2> QED BY <1>0, <1>a, <1>e, <2>1, <2>2, <2>3, <2>4
  <1>2. ASSUME NEW p \in Tenants, Ho!LeaveGame(p) PROVE HouseInv'
    <2>1. /\ p \in playing /\ playing' = playing \ {p} /\ kicks' = kicks \ {p}
          /\ dialog' = [dialog EXCEPT ![p] = Nobody]
          /\ window' = [window EXCEPT ![p] = Nobody]
          /\ deal' = Ho!NoDealsOf({p})
          /\ UNCHANGED <<houseOwner, lists, memberOf, place, changed, sleeper, bedSleepers>>
      BY <1>2 DEF Ho!LeaveGame, Ho!inside
    <2>2. /\ deal' \in [Estates -> (Tenants \X Tenants) \union {Nobody}]
          /\ DealsApart' /\ Ho!DealsAreOpen'
      BY <2>1, DealsLetGo
    <2>3. /\ dialog' \in [Tenants -> Ho!BedHalves \union {Nobody}]
          /\ window' \in [Tenants -> (Estates \X Ho!Lists) \union {Nobody}]
          /\ playing' \subseteq Tenants /\ kicks' \subseteq playing'
      BY <1>0, <2>1
    <2>4. StrangersGo'
      BY <1>c, <2>1
    <2>5. Ho!OneHouseEach'
      BY <1>0, <2>1 DEF Ho!OneHouseEach
    <2> QED BY <1>0, <1>b, <1>e, <2>1, <2>2, <2>3, <2>4, <2>5
  <1>3. ASSUME NEW p \in Tenants, NEW to \in Estates \union {Outdoors},
               Ho!Moved({p}, to), to # Outdoors => Ho!IsInvited(to, p),
               UNCHANGED <<houseOwner, lists, memberOf, playing, sleeper, bedSleepers, window, deal,
                           kicks>>
        PROVE  HouseInv'
    <2>1. /\ place' \in [Tenants -> Estates \union {Outdoors}] /\ changed' \subseteq Tenants
          /\ dialog' \in [Tenants -> Ho!BedHalves \union {Nobody}]
          /\ \A q \in Tenants : IF q \in {p} THEN place'[q] = to
                                ELSE place'[q] = place[q] /\ (q \in changed <=> q \in changed')
      <3>1. {p} \in SUBSET Tenants /\ Ho!Moved({p}, to)
        BY <1>3
      <3> QED BY <1>d, <3>1
    <2>2. to # Outdoors => Lets(houseOwner, lists, memberOf, to, p)
      BY <1>3, Invited DEF Ho!IsInvited
    <2>3. StrangersGo'
      BY <1>0, <1>3, <1>c, <2>1, <2>2
    <2> QED BY <1>0, <1>3, <1>a, <1>b, <1>e, <2>1, <2>3
  <1>4. ASSUME NEW p \in Tenants, NEW h \in Estates, Ho!Enter(p, h) PROVE HouseInv'
    BY <1>3, <1>4 DEF Ho!Enter
  <1>5. ASSUME NEW p \in Tenants, Ho!GoOut(p) PROVE HouseInv'
    BY <1>3, <1>5 DEF Ho!GoOut
  <1>6. ASSUME NEW p \in Tenants, NEW l \in Ho!Lists, Ho!AskForList(p, l) PROVE HouseInv'
    <2>1. /\ window' = [window EXCEPT ![p] = <<place[p], l>>] /\ place[p] # Outdoors
          /\ UNCHANGED <<houseOwner, lists, memberOf, place, changed, playing, sleeper,
                         bedSleepers, dialog, deal, kicks>>
      BY <1>6 DEF Ho!AskForList, Ho!inside
    <2>2. window' \in [Tenants -> (Estates \X Ho!Lists) \union {Nobody}]
      BY <1>0, <2>1
    <2>3. StrangersGo'
      BY <1>0, <1>c, <2>1
    <2> QED BY <1>0, <1>a, <1>b, <1>e, <2>1, <2>2, <2>3
  <1>7. ASSUME NEW p \in Tenants, NEW text, Ho!UpdateHouseWindow(p, text)
        PROVE  HouseInv'
    <2> DEFINE h == window[p][1]
               l == window[p][2]
               new == [lists EXCEPT ![h][l] = text]
    <2>1. /\ window[p] # Nobody /\ window' = [window EXCEPT ![p] = Nobody]
          /\ UNCHANGED <<houseOwner, memberOf, playing, sleeper, bedSleepers, deal, kicks>>
          /\ h \in Estates /\ l \in Ho!Lists /\ text \in Writings[h]
      BY <1>0, <1>7 DEF Ho!UpdateHouseWindow
    <2>0. text \in SUBSET Entries
      BY <2>1, NobodyInHouses
    <2>2. window' \in [Tenants -> (Estates \X Ho!Lists) \union {Nobody}]
      BY <1>0, <2>1
    <2>3. CASE UNCHANGED <<lists, place, changed, dialog>>
      <3>1. StrangersGo'
        BY <1>0, <1>c, <2>1, <2>3
      <3> QED BY <1>0, <1>a, <1>b, <1>e, <2>1, <2>2, <2>3, <3>1
    <2>4. CASE lists' = new /\ Ho!Moved(Ho!Uninvited(h, new), Outdoors)
      <3>1. new \in [Estates -> [Ho!Lists -> SUBSET Entries]]
        BY <1>0, <2>0, <2>1
      <3>2. \A g \in Estates : g # h => new[g] = lists[g]
        BY <1>0
      <3> HIDE DEF new
      <3>3. Ho!Uninvited(h, new) \in SUBSET Tenants
        BY <1>0 DEF Ho!Uninvited, Ho!Inside
      <3>4. /\ place' \in [Tenants -> Estates \union {Outdoors}] /\ changed' \subseteq Tenants
            /\ dialog' \in [Tenants -> Ho!BedHalves \union {Nobody}]
            /\ \A q \in Tenants : IF q \in Ho!Uninvited(h, new) THEN place'[q] = Outdoors
                                  ELSE place'[q] = place[q] /\ (q \in changed <=> q \in changed')
        BY <1>d, <2>1, <2>4, <3>3
      <3>5. StrangersGo'
        <4> SUFFICES ASSUME NEW q \in playing, place'[q] # Outdoors,
                            q \notin kicks, q \notin changed'
                     PROVE  Lets(houseOwner', new, memberOf', place'[q], q)
          BY <2>1, <2>4 DEF StrangersGo
        <4>1. /\ place'[q] = place[q] /\ q \notin Ho!Uninvited(h, new) /\ q \notin changed
              /\ place[q] \in Estates
          BY <1>0, <3>4
        <4>2. CASE place[q] = h
          <5>1. ~(Ho!Level(houseOwner, new, h, q) = 0)
            BY <4>1, <4>2 DEF Ho!Uninvited, Ho!Inside
          <5>2. Lets(houseOwner, new, memberOf, h, q)
            BY <5>1, Invited
          <5> QED BY <2>1, <4>1, <4>2, <5>2 DEF Lets
        <4>3. CASE place[q] # h
          <5>1. place[q] \in Estates /\ new[place[q]] = lists[place[q]]
            BY <3>2, <4>1, <4>3
          <5>2. Lets(houseOwner, lists, memberOf, place[q], q)
            BY <1>0, <4>1 DEF StrangersGo
          <5> QED BY <2>1, <4>1, <5>1, <5>2 DEF Lets
        <4> QED BY <4>2, <4>3
      <3> QED BY <1>0, <1>a, <1>b, <1>e, <2>1, <2>2, <2>4, <3>1, <3>4, <3>5
    <2> QED BY <1>7, <2>3, <2>4 DEF Ho!UpdateHouseWindow, Ho!inside
  <1>8. ASSUME NEW p \in Tenants, NEW q \in Tenants, Ho!SellHouse(p, q) PROVE HouseInv'
    <2> DEFINE h == place[p]
    <2>1. /\ p \in playing /\ q \in playing /\ h # Outdoors
          /\ Ho!OwnsNone(q) /\ {p, q} \intersect Ho!Trading = {}
          /\ deal' = [deal EXCEPT ![h] = <<p, q>>]
          /\ UNCHANGED <<houseOwner, lists, memberOf, place, changed, playing, sleeper,
                         bedSleepers, dialog, window, kicks>>
      BY <1>8 DEF Ho!SellHouse, Ho!inside
    <2>2. h \in Estates /\ deal' \in [Estates -> (Tenants \X Tenants) \union {Nobody}]
      BY <1>0, <2>1
    <2>3. /\ deal'[h] = <<p, q>>
          /\ \A g \in Estates : g # h => deal'[g] = deal[g]
      BY <1>0, <2>1, <2>2
    <2>4. \A g \in Estates : deal[g] # Nobody =>
            /\ {p, q} \intersect {deal[g][1], deal[g][2]} = {}
            /\ deal[g][1] \in playing /\ deal[g][2] \in playing
      BY <1>0, <2>1 DEF Ho!Trading, Ho!DealsAreOpen
    <2>5. DealsApart'
      <3>1. \A g \in Estates : deal'[g] # Nobody => Ho!OwnsNone(deal[g][2])'
        BY <1>0, <2>1, <2>3 DEF DealsApart, Ho!OwnsNone
      <3>2. \A f, g \in Estates : deal'[f] # Nobody /\ deal'[g] # Nobody /\ f # g =>
              {deal'[f][1], deal'[f][2]} \intersect {deal'[g][1], deal'[g][2]} = {}
        BY <1>0, <2>3, <2>4 DEF DealsApart
      <3> QED BY <3>1, <3>2 DEF DealsApart
    <2>6. Ho!DealsAreOpen'
      BY <2>1, <2>3, <2>4 DEF Ho!DealsAreOpen, Ho!Trading
    <2>7. StrangersGo' /\ Ho!OneHouseEach'
      BY <1>0, <1>c, <2>1 DEF Ho!OneHouseEach
    <2> QED BY <1>0, <1>b, <1>e, <2>1, <2>2, <2>5, <2>6, <2>7
  <1>9. ASSUME NEW h \in Estates, Ho!CallOff(h) PROVE HouseInv'
    <2>1. /\ deal' = [deal EXCEPT ![h] = Nobody]
          /\ UNCHANGED <<houseOwner, lists, memberOf, place, changed, playing, sleeper,
                         bedSleepers, dialog, window, kicks>>
      BY <1>9 DEF Ho!CallOff, Ho!inside
    <2>2. /\ deal' \in [Estates -> (Tenants \X Tenants) \union {Nobody}]
          /\ DealsApart' /\ Ho!DealsAreOpen'
      BY <2>1, DealIsOver
    <2>3. StrangersGo' /\ Ho!OneHouseEach'
      BY <1>0, <1>c, <2>1 DEF Ho!OneHouseEach
    <2> QED BY <1>0, <1>b, <1>e, <2>1, <2>2, <2>3
  <1>10. ASSUME NEW h \in Estates, Ho!ExecuteTransfer(h) PROVE HouseInv'
    <2> DEFINE q == deal[h][2]
    <2>1. /\ deal[h] # Nobody /\ Ho!SetOwner(h, q)
          /\ deal' = [deal EXCEPT ![h] = Nobody]
          /\ UNCHANGED <<memberOf, playing, window, kicks>>
      BY <1>10 DEF Ho!ExecuteTransfer
    <2>2. q \in Tenants /\ q \in Ho!Anybody /\ Ho!OwnsNone(q)
      BY <1>0, <2>1 DEF Ho!Anybody, DealsApart
    <2>3. /\ houseOwner' = [houseOwner EXCEPT ![h] = q]
          /\ lists' \in [Estates -> [Ho!Lists -> SUBSET Entries]]
          /\ place' \in [Tenants -> Estates \union {Outdoors}] /\ changed' \subseteq Tenants
          /\ dialog' \in [Tenants -> Ho!BedHalves \union {Nobody}]
          /\ BedTypes' /\ Ho!BedsAgree' /\ StrangersGo'
      BY <2>1, <2>2, NewOwner
    <2>4. /\ deal' \in [Estates -> (Tenants \X Tenants) \union {Nobody}]
          /\ DealsApart' /\ Ho!DealsAreOpen'
      BY <2>1, <2>3, DealIsOver
    <2>5. houseOwner' \in [Estates -> Ho!Anybody]
      BY <1>0, <2>2, <2>3
    <2>6. Ho!OneHouseEach'
      BY <1>0, <2>2, <2>3 DEF Ho!OneHouseEach, Ho!OwnsNone
    <2> QED BY <1>0, <1>e, <2>1, <2>3, <2>4, <2>5, <2>6
  <1>11. ASSUME NEW h \in Estates, Ho!GiveUp(h) PROVE HouseInv'
    <2>1. Ho!SetOwner(h, Nobody) /\ UNCHANGED <<memberOf, playing, window, deal, kicks>>
      BY <1>11 DEF Ho!GiveUp
    <2>2. /\ houseOwner' = [houseOwner EXCEPT ![h] = Nobody]
          /\ lists' \in [Estates -> [Ho!Lists -> SUBSET Entries]]
          /\ place' \in [Tenants -> Estates \union {Outdoors}] /\ changed' \subseteq Tenants
          /\ dialog' \in [Tenants -> Ho!BedHalves \union {Nobody}]
          /\ BedTypes' /\ Ho!BedsAgree' /\ StrangersGo'
      BY <2>1, NewOwner DEF Ho!Anybody
    <2>3. houseOwner' \in [Estates -> Ho!Anybody]
      BY <1>0, <2>2 DEF Ho!Anybody
    <2>4. Ho!OneHouseEach'
      BY <1>0, <2>2 DEF Ho!OneHouseEach
    <2>5. DealsApart'
      <3>1. \A g \in Estates : deal[g] # Nobody => deal[g][2] # Nobody
        BY <1>0, NobodyInHouses
      <3>2. \A g \in Estates : deal[g] # Nobody => Ho!OwnsNone(deal[g][2])'
        BY <1>0, <2>1, <2>2, <3>1 DEF DealsApart, Ho!OwnsNone
      <3> QED BY <1>0, <2>1, <3>2 DEF DealsApart
    <2>6. Ho!DealsAreOpen'
      BY <1>0, <2>1 DEF Ho!DealsAreOpen, Ho!Trading
    <2> QED BY <1>0, <1>e, <2>1, <2>2, <2>3, <2>4, <2>5, <2>6
  <1>12. ASSUME NEW p \in Tenants, NEW b \in Ho!BedHalves, Ho!UseBed(p, b)
         PROVE  HouseInv'
    <2>1. UNCHANGED <<houseOwner, lists, memberOf, place, changed, playing, window, deal, kicks>>
      BY <1>12 DEF Ho!UseBed, Ho!inside
    <2>2. StrangersGo'
      BY <1>c, <2>1
    <2>3. CASE dialog' = [dialog EXCEPT ![p] = b] /\ UNCHANGED <<sleeper, bedSleepers>>
      <3>1. dialog' \in [Tenants -> Ho!BedHalves \union {Nobody}]
        BY <1>0, <2>3
      <3> QED BY <1>0, <1>a, <1>b, <1>e, <2>1, <2>2, <2>3, <3>1
    <2>4. CASE Ho!WakeUp({b}) /\ UNCHANGED dialog
      <3>1. BedTypes' /\ Ho!BedsAgree'
        BY <1>0, <2>4, Woken
      <3> QED BY <1>0, <1>a, <1>e, <2>1, <2>2, <2>4, <3>1
    <2> QED BY <1>12, <2>3, <2>4 DEF Ho!UseBed
  <1>13. ASSUME NEW p \in Tenants, Ho!Answer(p) PROVE HouseInv'
    <2> DEFINE b == dialog[p]
    <2>1. /\ p \in playing /\ b # Nobody /\ b \in Ho!BedHalves
          /\ dialog' = [dialog EXCEPT ![p] = Nobody]
          /\ UNCHANGED <<houseOwner, lists, memberOf, playing, window, deal>>
      BY <1>0, <1>13 DEF Ho!Answer
    <2>2. StandsIn[b[1]] \in Estates
      BY <2>1, TwoHalves, NobodyInHouses
    <2>3. dialog' \in [Tenants -> Ho!BedHalves \union {Nobody}]
      BY <1>0, <2>1
    <2>4. CASE sleeper[b] = Nobody
      <3>1. /\ sleeper' = [c \in Ho!BedHalves |->
                            IF c \in Ho!BothHalves(b) THEN p ELSE sleeper[c]]
            /\ bedSleepers' = [bedSleepers EXCEPT ![p] = b]
            /\ place' = [place EXCEPT ![p] = StandsIn[b[1]]] /\ changed' = changed \ {p}
            /\ kicks' = kicks \union {p}
        BY <1>13, <2>4 DEF Ho!Answer
      <3>2. /\ place' \in [Tenants -> Estates \union {Outdoors}] /\ changed' \subseteq Tenants
            /\ p \in kicks'
            /\ \A q \in Tenants : q # p => place'[q] = place[q] /\ (q \in changed => q \in changed')
                                           /\ (q \in kicks => q \in kicks')
        BY <1>0, <2>2, <3>1
      <3>3. BedTypes'
        BY <1>0, <2>1, <3>1 DEF BedTypes, Ho!Anybody
      <3>4. Ho!BedsAgree'
        <4>1. \A c \in Ho!BedHalves : sleeper'[c] = sleeper'[Ho!OtherHalf(c)]
          BY <1>0, <2>1, <3>1, TwoHalves DEF Ho!BedsAgree
        <4>2. \A c \in Ho!BothHalves(b) : sleeper[c] = Nobody /\ c \in Ho!BedHalves
          BY <1>0, <2>1, <2>4, TwoHalves DEF Ho!BedsAgree, Ho!BothHalves
        <4>3. b \in Ho!BothHalves(b)
          BY <2>1, TwoHalves
        <4>4. ASSUME NEW r \in Tenants, bedSleepers'[r] # Nobody
              PROVE  sleeper'[bedSleepers'[r]] = r
          <5>1. CASE r = p
            BY <1>0, <2>1, <3>1, <4>3, <5>1
          <5>2. CASE r # p
            <6>1. /\ bedSleepers'[r] = bedSleepers[r]
                  /\ bedSleepers[r] \in Ho!BedHalves /\ sleeper[bedSleepers[r]] = r
              BY <1>0, <3>1, <4>4, <5>2 DEF Ho!BedsAgree
            <6>2. bedSleepers[r] \notin Ho!BothHalves(b)
              BY <4>2, <6>1, NobodyInHouses
            <6> QED BY <3>1, <6>1, <6>2
          <5> QED BY <5>1, <5>2
        <4> QED BY <4>1, <4>4 DEF Ho!BedsAgree
      <3>5. StrangersGo'
        BY <1>0, <1>c, <2>1, <3>2
      <3>6. kicks' \subseteq playing'
        BY <1>0, <2>1, <3>1
      <3> QED BY <1>0, <1>a, <1>e, <2>1, <2>3, <3>2, <3>3, <3>4, <3>5, <3>6
    <2>5. CASE sleeper[b] # Nobody
      <3>1. UNCHANGED <<sleeper, bedSleepers, place, changed, kicks>>
        BY <1>13, <2>5 DEF Ho!Answer, Ho!inside
      <3>2. StrangersGo'
        BY <1>0, <1>c, <2>1, <3>1
      <3> QED BY <1>0, <1>a, <1>b, <1>e, <2>1, <2>3, <3>1, <3>2
    <2> QED BY <2>4, <2>5
  <1>14. ASSUME NEW p \in Tenants, NEW g \in Orders \union {Nobody}, Ho!SetGuild(p, g)
         PROVE  HouseInv'
    <2>1. /\ memberOf' = [memberOf EXCEPT ![p] = g]
          /\ changed' = IF p \in playing /\ place[p] # Outdoors THEN changed \union {p}
                        ELSE changed
          /\ UNCHANGED <<houseOwner, lists, place, playing, sleeper, bedSleepers, dialog, window,
                         deal, kicks>>
      BY <1>14 DEF Ho!SetGuild
    <2>2. memberOf' \in [Tenants -> Orders \union {Nobody}] /\ changed' \subseteq Tenants
      BY <1>0, <2>1
    <2>3. StrangersGo'
      <3> SUFFICES ASSUME NEW q \in playing, place[q] # Outdoors, q \notin kicks,
                          q \notin changed'
                   PROVE  Lets(houseOwner', lists', memberOf', place[q], q)
        BY <2>1 DEF StrangersGo
      <3>1. q # p /\ q \notin changed /\ q \in Tenants
        BY <1>0, <2>1
      <3>2. Lets(houseOwner, lists, memberOf, place[q], q)
        BY <1>0, <3>1 DEF StrangersGo
      <3> QED BY <1>0, <2>1, <3>1, <3>2 DEF Lets
    <2> QED BY <1>0, <1>a, <1>b, <1>e, <2>1, <2>2, <2>3
  <1>15. CASE UNCHANGED houseVars
    <2>1. UNCHANGED <<houseOwner, lists, memberOf, place, changed, playing, sleeper, bedSleepers,
                      dialog, window, deal, kicks>>
      BY <1>15 DEF houseVars
    <2>2. StrangersGo'
      BY <1>0, <1>c, <2>1
    <2> QED BY <1>0, <1>a, <1>b, <1>e, <2>1, <2>2
  <1> QED
    BY <1>1, <1>2, <1>4, <1>5, <1>6, <1>7, <1>8, <1>9, <1>10, <1>11, <1>12, <1>13, <1>14, <1>15
    DEF Ho!Next
-----------------------------------------------------------------------------
(***************************************************************************)
(* The windows of containers (see Windows). Containers lie in each other   *)
(* without end but never in a circle, which every step keeps; so a         *)
(* property that goes from the outer container to the inner one holds of   *)
(* all. The steps are followed on the record of the windows: that the      *)
(* references are counted (Counted), and that what is open may be reached  *)
(* and is what the client shows (Fair).                                    *)
(***************************************************************************)
(* The containers: where they lie is no circle.                            *)
Uncircled(l) == \A S \in SUBSET Boxes : S # {} => \E c \in S : l[c] \notin S

(* Of the sets of a family over a finite set, one contains no other of the *)
(* family.                                                                 *)
LEMMA FewestOf ==
  ASSUME NEW S, IsFiniteSet(S), NEW U, U \subseteq SUBSET S, U # {}
  PROVE  \E s \in U : \A t \in U : t \subseteq s => t = s
  <1>0. FiniteSubsetsOf(S) = SUBSET S BY FS_FiniteSubsetsOfFinite
  <1>1. \E x \in U : \A y \in U : ~(<<y, x>> \in StrictSubsetOrdering(S))
    BY <1>0, FS_StrictSubsetOrderingWellFounded, WFMin
  <1> QED BY <1>1, <1>0 DEF StrictSubsetOrdering

(* A set to which something outside can always be added is everything.     *)
LEMMA AllAreReached ==
  ASSUME NEW S, IsFiniteSet(S), NEW U, {} \in U,
         \A T \in SUBSET S : T \in U /\ T # S => \E x \in S \ T : T \union {x} \in U
  PROVE  S \in U
  <1> DEFINE V == {S \ T : T \in U \intersect SUBSET S}
  <1>1. V \subseteq SUBSET S /\ V # {}
    OBVIOUS
  <1>2. PICK s \in V : \A t \in V : t \subseteq s => t = s
    <2> HIDE DEF V
    <2> QED BY <1>1, FewestOf
  <1>3. PICK T \in U \intersect SUBSET S : s = S \ T
    BY <1>2
  <1>4. CASE T # S
    <2>1. PICK x \in S \ T : T \union {x} \in U
      BY <1>3, <1>4
    <2>2. S \ (T \union {x}) \in V
      BY <2>1
    <2>3. S \ (T \union {x}) \subseteq s /\ S \ (T \union {x}) # s
      BY <1>3, <2>1
    <2> QED BY <1>2, <2>2, <2>3
  <1> QED BY <1>3, <1>4

(* The places around a container: the two functions unfold.                *)
Uppermost(l, f, c) == IF l[c] \in Boxes THEN f[l[c]] ELSE l[c]
Surrounds(l, f, c) == {c} \union (IF l[c] \in Boxes THEN f[l[c]] ELSE {})
Closed(l, S) == \A c \in S : l[c] \in Boxes => l[c] \in S

(* What TopOf is, unfolds: the chosen function exists, because it does on  *)
(* ever more containers from the outer to the inner.                       *)
LEMMA TopUnfolds ==
  ASSUME NEW l, Uncircled(l)
  PROVE  Cn!TopOf(l) = [c \in Boxes |-> Uppermost(l, Cn!TopOf(l), c)]
  <1> DEFINE U == {S \in SUBSET Boxes : Closed(l, S) /\ \E f : f = [c \in S |-> Uppermost(l, f, c)]}
  <1>1. {} \in U
    <2>1. \E f : f = [c \in {} |-> Uppermost(l, f, c)]
      <3> DEFINE g == [c \in {} |-> c]
      <3>1. g = [c \in {} |-> Uppermost(l, g, c)]
        OBVIOUS
      <3> QED BY <3>1
    <2> QED BY <2>1 DEF Closed
  <1>2. ASSUME NEW T \in SUBSET Boxes, T \in U, T # Boxes
        PROVE  \E x \in Boxes \ T : T \union {x} \in U
    <2>1. PICK x \in Boxes \ T : l[x] \notin Boxes \ T
      BY <1>2 DEF Uncircled
    <2>2. PICK f : f = [c \in T |-> Uppermost(l, f, c)]
      BY <1>2
    <2> DEFINE g == [c \in T \union {x} |-> IF c \in T THEN f[c] ELSE Uppermost(l, f, x)]
    <2>3. Closed(l, T)
      BY <1>2
    <2>4. \A c \in T \union {x} : g[c] = Uppermost(l, g, c)
      <3>1. \A c \in T : l[c] \in Boxes => l[c] \in T
        BY <2>3 DEF Closed
      <3>2. \A c \in T : g[c] = Uppermost(l, g, c)
        <4>1. ASSUME NEW c \in T PROVE g[c] = Uppermost(l, g, c)
          <5>1. g[c] = f[c] /\ f[c] = Uppermost(l, f, c)
            BY <2>2
          <5>2. l[c] \in Boxes => g[l[c]] = f[l[c]]
            BY <3>1
          <5> HIDE DEF g
          <5> QED BY <5>1, <5>2 DEF Uppermost
        <4> QED BY <4>1
      <3>3. g[x] = Uppermost(l, g, x)
        <4>1. g[x] = Uppermost(l, f, x)
          BY <2>1
        <4>2. l[x] \in Boxes => g[l[x]] = f[l[x]]
          BY <2>1
        <4> HIDE DEF g
        <4> QED BY <4>1, <4>2 DEF Uppermost
      <3> QED BY <3>2, <3>3
    <2>5. g = [c \in T \union {x} |-> Uppermost(l, g, c)]
      <3>1. g = [c \in T \union {x} |-> g[c]]
        OBVIOUS
      <3> HIDE DEF g
      <3> QED BY <2>4, <3>1
    <2>6. Closed(l, T \union {x})
      BY <2>1, <2>3 DEF Closed
    <2> HIDE DEF g
    <2> QED BY <2>1, <2>5, <2>6
  <1>3. Boxes \in U
    <2> HIDE DEF U
    <2>1. \A T \in SUBSET Boxes : T \in U /\ T # Boxes => \E x \in Boxes \ T : T \union {x} \in U
      BY <1>2
    <2>2. IsFiniteSet(Boxes)
      BY WindowsAssumption
    <2> QED BY <1>1, <2>1, <2>2, AllAreReached
  <1>4. \E f : f = [c \in Boxes |-> Uppermost(l, f, c)]
    BY <1>3
  <1>5. Cn!TopOf(l) = CHOOSE f : f = [c \in Boxes |-> Uppermost(l, f, c)]
    BY DEF Cn!TopOf, Uppermost
  <1> QED BY <1>4, <1>5

(* So does what Outwards is.                                               *)
LEMMA OutwardsUnfolds ==
  ASSUME NEW l, Uncircled(l)
  PROVE  \E up : /\ up = [c \in Boxes |-> Surrounds(l, up, c)]
                 /\ \A x : Cn!Outwards(l, x) = IF x \in Boxes THEN up[x] ELSE {x}
  <1> DEFINE U == {S \in SUBSET Boxes : Closed(l, S) /\ \E f : f = [c \in S |-> Surrounds(l, f, c)]}
  <1>1. {} \in U
    <2>1. \E f : f = [c \in {} |-> Surrounds(l, f, c)]
      <3> DEFINE g == [c \in {} |-> c]
      <3>1. g = [c \in {} |-> Surrounds(l, g, c)]
        OBVIOUS
      <3> QED BY <3>1
    <2> QED BY <2>1 DEF Closed
  <1>2. ASSUME NEW T \in SUBSET Boxes, T \in U, T # Boxes
        PROVE  \E x \in Boxes \ T : T \union {x} \in U
    <2>1. PICK x \in Boxes \ T : l[x] \notin Boxes \ T
      BY <1>2 DEF Uncircled
    <2>2. PICK f : f = [c \in T |-> Surrounds(l, f, c)]
      BY <1>2
    <2> DEFINE g == [c \in T \union {x} |-> IF c \in T THEN f[c] ELSE Surrounds(l, f, x)]
    <2>3. Closed(l, T)
      BY <1>2
    <2>4. \A c \in T \union {x} : g[c] = Surrounds(l, g, c)
      <3>1. \A c \in T : l[c] \in Boxes => l[c] \in T
        BY <2>3 DEF Closed
      <3>2. \A c \in T : g[c] = Surrounds(l, g, c)
        <4>1. ASSUME NEW c \in T PROVE g[c] = Surrounds(l, g, c)
          <5>1. g[c] = f[c] /\ f[c] = Surrounds(l, f, c)
            BY <2>2
          <5>2. l[c] \in Boxes => g[l[c]] = f[l[c]]
            BY <3>1
          <5> HIDE DEF g
          <5> QED BY <5>1, <5>2 DEF Surrounds
        <4> QED BY <4>1
      <3>3. g[x] = Surrounds(l, g, x)
        <4>1. g[x] = Surrounds(l, f, x)
          BY <2>1
        <4>2. l[x] \in Boxes => g[l[x]] = f[l[x]]
          BY <2>1
        <4> HIDE DEF g
        <4> QED BY <4>1, <4>2 DEF Surrounds
      <3> QED BY <3>2, <3>3
    <2>5. g = [c \in T \union {x} |-> Surrounds(l, g, c)]
      <3>1. g = [c \in T \union {x} |-> g[c]]
        OBVIOUS
      <3> HIDE DEF g
      <3> QED BY <2>4, <3>1
    <2>6. Closed(l, T \union {x})
      BY <2>1, <2>3 DEF Closed
    <2> HIDE DEF g
    <2> QED BY <2>1, <2>5, <2>6
  <1>3. Boxes \in U
    <2> HIDE DEF U
    <2>1. \A T \in SUBSET Boxes : T \in U /\ T # Boxes => \E x \in Boxes \ T : T \union {x} \in U
      BY <1>2
    <2>2. IsFiniteSet(Boxes)
      BY WindowsAssumption
    <2> QED BY <1>1, <2>1, <2>2, AllAreReached
  <1>4. \E f : f = [c \in Boxes |-> Surrounds(l, f, c)]
    BY <1>3
  <1> DEFINE up == CHOOSE f : f = [c \in Boxes |-> Surrounds(l, f, c)]
  <1>5. up = [c \in Boxes |-> Surrounds(l, up, c)]
    BY <1>4
  <1>6. \A x : Cn!Outwards(l, x) = IF x \in Boxes THEN up[x] ELSE {x}
    BY DEF Cn!Outwards, Surrounds
  <1> HIDE DEF up
  <1> QED BY <1>5, <1>6

(* What holds of a container in a place that is none holds of all, if it   *)
(* goes on from the outer to the inner.                                    *)
LEMMA FromOutside ==
  ASSUME NEW l, Uncircled(l), NEW Good \in SUBSET Boxes,
         \A c \in Boxes : (l[c] \in Boxes => l[c] \in Good) => c \in Good
  PROVE  Good = Boxes
  <1>1. CASE Boxes \ Good # {}
    <2>1. PICK c \in Boxes \ Good : l[c] \notin Boxes \ Good
      BY <1>1 DEF Uncircled
    <2> QED BY <2>1
  <1> QED BY <1>1

(* The place of a container is that of what it lies in (getTopParent).     *)
LEMMA TopIs ==
  ASSUME NEW l, Uncircled(l), NEW c \in Boxes
  PROVE  Cn!TopOf(l)[c] = IF l[c] \in Boxes THEN Cn!TopOf(l)[l[c]] ELSE l[c]
  <1> DEFINE top == Cn!TopOf(l)
  <1>1. top = [d \in Boxes |-> Uppermost(l, top, d)]
    BY TopUnfolds
  <1> HIDE DEF top
  <1>2. top[c] = Uppermost(l, top, c)
    BY <1>1
  <1> QED BY <1>2 DEF top, Uppermost

(* Outwards from a container come itself and what is outwards of what it   *)
(* lies in.                                                                *)
LEMMA OutwardsIs ==
  ASSUME NEW l, Uncircled(l), NEW x
  PROVE  Cn!Outwards(l, x) = {x} \union (IF x \in Boxes /\ l[x] \in Boxes THEN Cn!Outwards(l, l[x]) ELSE {})
  <1>1. PICK up : /\ up = [c \in Boxes |-> Surrounds(l, up, c)]
                  /\ \A y : Cn!Outwards(l, y) = IF y \in Boxes THEN up[y] ELSE {y}
    BY OutwardsUnfolds
  <1>2. CASE x \in Boxes
    <2>1. up[x] = Surrounds(l, up, x)
      BY <1>1, <1>2
    <2>2. Cn!Outwards(l, x) = up[x] /\ (l[x] \in Boxes => Cn!Outwards(l, l[x]) = up[l[x]])
      BY <1>1, <1>2
    <2> QED BY <1>2, <2>1, <2>2 DEF Surrounds
  <1>3. CASE x \notin Boxes
    BY <1>1, <1>3
  <1> QED BY <1>2, <1>3

(* Places: a container is at a cell, with a player, or nowhere.            *)
Spots == Floor \union Viewers \union Boxes \union {Nobody}
Layouts == {l \in [Boxes -> Spots] : Uncircled(l)}

(* What the assumption says of names and numbers, each at its name here.   *)
LEMMA Names ==
  /\ Nobody \notin Floor /\ Nobody \notin Viewers /\ Nobody \notin Boxes /\ Nobody \notin Cn!Fields
  /\ Viewers \intersect Floor = {} /\ Viewers \intersect Boxes = {} /\ Boxes \intersect Floor = {}
  /\ Boxes \intersect Cn!Fields = {} /\ Floor \subseteq Int /\ Corner \in Floor
  /\ MaxFields \in Nat /\ MaxShifts \in Nat /\ Cn!Fields = 1 .. MaxFields
  /\ Panes \subseteq Nat /\ LastPane \in Panes /\ IsFiniteSet(Viewers) /\ IsFiniteSet(Panes) /\ IsFiniteSet(Boxes)
  BY WindowsAssumption DEF Cn!Fields

(* Everything lies at a cell, with a player, or has been removed.          *)
LEMMA TopTyped ==
  ASSUME NEW l \in Layouts
  PROVE  \A c \in Boxes : Cn!TopOf(l)[c] \in Floor \union Viewers \union {Nobody}
  <1> DEFINE Good == {c \in Boxes : Cn!TopOf(l)[c] \in Floor \union Viewers \union {Nobody}}
  <1>1. Uncircled(l) /\ l \in [Boxes -> Spots]
    BY DEF Layouts
  <1>2. ASSUME NEW c \in Boxes, l[c] \in Boxes => l[c] \in Good PROVE c \in Good
    BY <1>1, <1>2, TopIs DEF Spots
  <1>3. Good = Boxes
    <2> HIDE DEF Good
    <2>1. Good \in SUBSET Boxes
      BY DEF Good
    <2> QED BY <1>1, <1>2, <2>1, FromOutside
  <1> QED BY <1>3

(* What surrounds a container lies where it lies.                          *)
LEMMA SameTop ==
  ASSUME NEW l \in Layouts
  PROVE  \A c \in Boxes : \A x \in Cn!Outwards(l, c) : x \in Boxes /\ Cn!TopOf(l)[x] = Cn!TopOf(l)[c]
  <1> DEFINE Good == {c \in Boxes : \A x \in Cn!Outwards(l, c) :
                                      x \in Boxes /\ Cn!TopOf(l)[x] = Cn!TopOf(l)[c]}
  <1>1. Uncircled(l)
    BY DEF Layouts
  <1>2. ASSUME NEW c \in Boxes, l[c] \in Boxes => l[c] \in Good PROVE c \in Good
    <2>1. Cn!Outwards(l, c) = {c} \union (IF l[c] \in Boxes THEN Cn!Outwards(l, l[c]) ELSE {})
      BY <1>1, OutwardsIs
    <2>2. l[c] \in Boxes => Cn!TopOf(l)[c] = Cn!TopOf(l)[l[c]]
      BY <1>1, TopIs
    <2> QED BY <1>2, <2>1, <2>2
  <1>3. Good = Boxes
    <2> HIDE DEF Good
    <2>1. Good \in SUBSET Boxes
      BY DEF Good
    <2> QED BY <1>1, <1>2, <2>1, FromOutside
  <1> QED BY <1>3

(* A container that is not put into itself or into what is in it.          *)
Shifted(l, c, to) == [l EXCEPT ![c] = to]

(* Outwards ends only at what is no container.                             *)
LEMMA OutwardsClosed ==
  ASSUME NEW l \in Layouts, NEW y \in Boxes
  PROVE  /\ y \in Cn!Outwards(l, y)
         /\ \A x \in Cn!Outwards(l, y) : x \in Boxes /\ (l[x] \in Boxes => l[x] \in Cn!Outwards(l, y))
  <1> DEFINE Fine(c) == \A x \in Cn!Outwards(l, c) :
                          x \in Boxes /\ (l[x] \in Boxes => l[x] \in Cn!Outwards(l, c))
             Good == {c \in Boxes : Fine(c)}
  <1>1. Uncircled(l)
    BY DEF Layouts
  <1>2. ASSUME NEW c \in Boxes, l[c] \in Boxes => l[c] \in Good PROVE c \in Good
    <2>1. Cn!Outwards(l, c) = {c} \union (IF l[c] \in Boxes THEN Cn!Outwards(l, l[c]) ELSE {})
      BY <1>1, OutwardsIs
    <2>2. l[c] \in Boxes => l[c] \in Cn!Outwards(l, l[c])
      BY <1>1, OutwardsIs
    <2> QED BY <1>2, <2>1, <2>2
  <1>3. Good = Boxes
    <2> HIDE DEF Good
    <2>1. Good \in SUBSET Boxes
      BY DEF Good
    <2> QED BY <1>1, <1>2, <2>1, FromOutside
  <1>4. y \in Cn!Outwards(l, y)
    BY <1>1, OutwardsIs
  <1> QED BY <1>3, <1>4

(* A container that is put elsewhere closes no circle.                     *)
LEMMA ShiftedIsLayout ==
  ASSUME NEW l \in Layouts, NEW c \in Boxes, NEW to \in Spots,
         to \in Boxes => c \notin Cn!Outwards(l, to)
  PROVE  Shifted(l, c, to) \in Layouts
  <1> DEFINE k == Shifted(l, c, to)
  <1>1. k \in [Boxes -> Spots] /\ k[c] = to /\ \A x \in Boxes \ {c} : k[x] = l[x]
    BY DEF Shifted, Layouts
  <1> HIDE DEF k
  <1>2. ASSUME NEW S \in SUBSET Boxes, S # {}, \A x \in S : k[x] \in S PROVE FALSE
    <2>1. Uncircled(l)
      BY DEF Layouts
    <2>2. CASE c \notin S
      <3>1. \A x \in S : l[x] \in S
        BY <1>1, <1>2, <2>2
      <3> QED BY <1>2, <2>1, <3>1 DEF Uncircled
    <2>3. CASE c \in S
      <3> DEFINE R == Cn!Outwards(l, to) \intersect S
      <3>1. to \in S
        BY <1>1, <1>2, <2>3
      <3>2. to \in R
        BY <3>1, OutwardsClosed
      <3>3. ASSUME NEW x \in R PROVE l[x] \in R
        <4>1. x # c /\ k[x] \in S
          BY <1>2, <3>1
        <4>2. l[x] \in S
          BY <1>1, <4>1
        <4> QED BY <3>1, <4>2, OutwardsClosed
      <3>4. R \in SUBSET Boxes /\ R # {}
        BY <3>2
      <3> HIDE DEF R
      <3> QED BY <2>1, <3>3, <3>4 DEF Uncircled
    <2> QED BY <2>2, <2>3
  <1>3. Uncircled(k)
    BY <1>2 DEF Uncircled
  <1> QED BY <1>1, <1>3 DEF Layouts, k

(* What is not in the container that is shifted stays where it is; what is *)
(* in it was in it before.                                                 *)
LEMMA TopWhenShifted ==
  ASSUME NEW l \in Layouts, NEW c \in Boxes, NEW to \in Spots,
         to \in Boxes => c \notin Cn!Outwards(l, to)
  PROVE  LET k == Shifted(l, c, to) IN
         \A y \in Boxes :
           /\ c \notin Cn!Outwards(k, y) => Cn!TopOf(k)[y] = Cn!TopOf(l)[y]
           /\ c \in Cn!Outwards(k, y) => c \in Cn!Outwards(l, y)
  <1> DEFINE k == Shifted(l, c, to)
  <1>0. k \in Layouts
    BY ShiftedIsLayout
  <1>1. \A x \in Boxes \ {c} : k[x] = l[x]
    BY DEF Shifted, Layouts
  <1>2. Uncircled(k) /\ Uncircled(l)
    BY <1>0 DEF Layouts
  <1> HIDE DEF k
  <1> DEFINE Fine(y) == /\ c \notin Cn!Outwards(k, y) => Cn!TopOf(k)[y] = Cn!TopOf(l)[y]
                        /\ c \in Cn!Outwards(k, y) => c \in Cn!Outwards(l, y)
             Good == {y \in Boxes : Fine(y)}
  <1>3. ASSUME NEW y \in Boxes, k[y] \in Boxes => k[y] \in Good PROVE y \in Good
    <2>1. Cn!Outwards(k, y) = {y} \union (IF k[y] \in Boxes THEN Cn!Outwards(k, k[y]) ELSE {})
      BY <1>2, OutwardsIs
    <2>2. Cn!Outwards(l, y) = {y} \union (IF l[y] \in Boxes THEN Cn!Outwards(l, l[y]) ELSE {})
      BY <1>2, OutwardsIs
    <2>3. Cn!TopOf(k)[y] = IF k[y] \in Boxes THEN Cn!TopOf(k)[k[y]] ELSE k[y]
      BY <1>2, TopIs
    <2>4. Cn!TopOf(l)[y] = IF l[y] \in Boxes THEN Cn!TopOf(l)[l[y]] ELSE l[y]
      BY <1>2, TopIs
    <2>5. CASE y = c
      BY <2>1, <2>2, <2>5
    <2>6. CASE y # c
      <3>1. k[y] = l[y]
        BY <1>1, <2>6
      <3> QED BY <1>3, <2>1, <2>2, <2>3, <2>4, <2>6, <3>1
    <2> QED BY <2>5, <2>6
  <1>4. Good = Boxes
    <2> HIDE DEF Good
    <2>1. Good \in SUBSET Boxes
      BY DEF Good
    <2> QED BY <1>2, <1>3, <2>1, FromOutside
  <1> QED BY <1>4 DEF k

(* What a player who leaves carries goes with it.                          *)
LeftBehind(l, p) == [c \in Boxes |-> IF l[c] = p THEN Nobody ELSE l[c]]

(* The others lie where they lay.                                          *)
LEMMA LeftBehindIsLayout ==
  ASSUME NEW l \in Layouts, NEW p \in Viewers
  PROVE  /\ LeftBehind(l, p) \in Layouts
         /\ \A y \in Boxes : Cn!TopOf(LeftBehind(l, p))[y]
                               = IF Cn!TopOf(l)[y] = p THEN Nobody ELSE Cn!TopOf(l)[y]
  <1> DEFINE k == LeftBehind(l, p)
  <1>1. k \in [Boxes -> Spots] /\ \A x \in Boxes : k[x] = IF l[x] = p THEN Nobody ELSE l[x]
    BY DEF LeftBehind, Layouts, Spots
  <1>2. Uncircled(l)
    BY DEF Layouts
  <1>3. \A x \in Boxes : (k[x] \in Boxes <=> l[x] \in Boxes) /\ (l[x] \in Boxes => k[x] = l[x])
    BY <1>1, Names
  <1> HIDE DEF k
  <1>4. Uncircled(k)
    BY <1>2, <1>3 DEF Uncircled
  <1> DEFINE Good == {y \in Boxes : Cn!TopOf(k)[y] = IF Cn!TopOf(l)[y] = p THEN Nobody ELSE Cn!TopOf(l)[y]}
  <1>5. ASSUME NEW y \in Boxes, k[y] \in Boxes => k[y] \in Good PROVE y \in Good
    <2>3. Cn!TopOf(k)[y] = IF k[y] \in Boxes THEN Cn!TopOf(k)[k[y]] ELSE k[y]
      BY <1>4, TopIs
    <2>4. Cn!TopOf(l)[y] = IF l[y] \in Boxes THEN Cn!TopOf(l)[l[y]] ELSE l[y]
      BY <1>2, TopIs
    <2> QED BY <1>1, <1>3, <1>5, <2>3, <2>4
  <1>6. Good = Boxes
    <2> HIDE DEF Good
    <2>1. Good \in SUBSET Boxes
      BY DEF Good
    <2> QED BY <1>4, <1>5, <2>1, FromOutside
  <1>7. k \in Layouts
    BY <1>1, <1>4 DEF Layouts
  <1> QED BY <1>6, <1>7 DEF k

(* The windows that show a browse field.                                   *)
Windowing == [Viewers -> [Panes -> Cn!Shown]]
Showing(win, f) == {w \in Viewers \X Panes : win[w[1]][w[2]] = f}
OnlyField(win, f) == \A p \in Viewers, i \in Panes : win[p][i] \in Cn!Fields => win[p][i] = f
PutAt(win, p, i, x) == [win EXCEPT ![p][i] = x]

(* One window changes and no other.                                        *)
LEMMA PutAtIs ==
  ASSUME NEW win \in Windowing, NEW p \in Viewers, NEW i \in Panes, NEW x \in Cn!Shown
  PROVE  /\ PutAt(win, p, i, x) \in Windowing
         /\ PutAt(win, p, i, x)[p][i] = x
         /\ \A q \in Viewers, j \in Panes : <<q, j>> # <<p, i>> => PutAt(win, p, i, x)[q][j] = win[q][j]
  BY DEF PutAt, Windowing

(* The windows that show something can be counted.                         *)
LEMMA ShowingIsFinite ==
  ASSUME NEW win, NEW f
  PROVE  IsFiniteSet(Showing(win, f)) /\ Cardinality(Showing(win, f)) \in Nat
  <1>1. IsFiniteSet(Viewers \X Panes)
    BY Names, FS_Product
  <1>2. Showing(win, f) \in SUBSET (Viewers \X Panes)
    BY DEF Showing
  <1>3. IsFiniteSet(Showing(win, f))
    BY <1>1, <1>2, FS_Subset
  <1> QED BY <1>3, FS_CardinalityType

(* One window more or less shows the field.                                *)
LEMMA Recount ==
  ASSUME NEW win \in Windowing, NEW p \in Viewers, NEW i \in Panes, NEW x \in Cn!Shown, NEW f
  PROVE  Cardinality(Showing(PutAt(win, p, i, x), f))
           = Cardinality(Showing(win, f)) + (IF x = f THEN 1 ELSE 0) - (IF win[p][i] = f THEN 1 ELSE 0)
  <1> DEFINE S == Showing(win, f)
             T == Showing(PutAt(win, p, i, x), f)
             R == S \ {<<p, i>>}
  <1>1. T = IF x = f THEN R \union {<<p, i>>} ELSE R
    <2>1. \A q \in Viewers, j \in Panes :
            <<q, j>> \in T <=> IF <<q, j>> = <<p, i>> THEN x = f ELSE <<q, j>> \in R
      BY PutAtIs DEF Showing
    <2>2. T \subseteq Viewers \X Panes /\ R \subseteq Viewers \X Panes
      BY DEF Showing
    <2> HIDE DEF S, T, R
    <2>3. \A q \in Viewers, j \in Panes : <<q, j>> \in R => <<q, j>> # <<p, i>>
      BY DEF R
    <2> QED BY <2>1, <2>2, <2>3
  <1>2. <<p, i>> \in S <=> win[p][i] = f
    BY DEF Showing
  <1>3. IsFiniteSet(S) /\ Cardinality(S) \in Nat
    BY ShowingIsFinite
  <1>4. IsFiniteSet(R) /\ Cardinality(R) = IF <<p, i>> \in S THEN Cardinality(S) - 1 ELSE Cardinality(S)
    <2> HIDE DEF S
    <2> QED BY <1>3, FS_RemoveElement
  <1>5. Cardinality(R \union {<<p, i>>}) = Cardinality(R) + 1
    <2>1. <<p, i>> \notin R
      OBVIOUS
    <2> HIDE DEF R
    <2> QED BY <1>4, <2>1, FS_AddElement
  <1> HIDE DEF S, T, R
  <1>6. Cardinality(T) = IF x = f THEN Cardinality(R) + 1 ELSE Cardinality(R)
    BY <1>1, <1>5
  <1>7. Cardinality(R) = IF win[p][i] = f THEN Cardinality(S) - 1 ELSE Cardinality(S)
    BY <1>2, <1>4
  <1> QED BY <1>3, <1>6, <1>7 DEF S, T

(* Several windows of a player are closed.                                 *)
ClosedAll(win, p, G) == [win EXCEPT ![p] = [i \in Panes |-> IF i \in G THEN Nobody ELSE @[i]]]

(* They show nothing, and the others what they showed.                     *)
LEMMA ClosedAllIs ==
  ASSUME NEW win \in Windowing, NEW p \in Viewers, NEW G
  PROVE  /\ ClosedAll(win, p, G) \in Windowing
         /\ \A q \in Viewers, i \in Panes :
              ClosedAll(win, p, G)[q][i] = IF q = p /\ i \in G THEN Nobody ELSE win[q][i]
  <1>1. Nobody \in Cn!Shown
    BY DEF Cn!Shown
  <1> QED BY <1>1 DEF ClosedAll, Windowing

(* As many windows fewer show something as did of those that are closed.   *)
LEMMA RecountAll ==
  ASSUME NEW win \in Windowing, NEW p \in Viewers, NEW G \in SUBSET Panes, NEW f, f # Nobody
  PROVE  LET H == {i \in G : win[p][i] = f} IN
         /\ IsFiniteSet(H) /\ Cardinality(H) \in Nat
         /\ Cardinality(Showing(ClosedAll(win, p, G), f)) = Cardinality(Showing(win, f)) - Cardinality(H)
  <1> DEFINE H == {i \in G : win[p][i] = f}
             S == Showing(win, f)
             T == Showing(ClosedAll(win, p, G), f)
             pairs == {<<p, i>> : i \in H}
  <1>1. T = S \ pairs
    <2>1. \A q \in Viewers, i \in Panes : <<q, i>> \in T <=> <<q, i>> \in S /\ <<q, i>> \notin pairs
      <3>1. ASSUME NEW q \in Viewers, NEW i \in Panes
            PROVE  <<q, i>> \in T <=> <<q, i>> \in S /\ <<q, i>> \notin pairs
        <4>1. <<q, i>> \in T <=> ClosedAll(win, p, G)[q][i] = f
          BY DEF Showing
        <4>2. <<q, i>> \in S <=> win[q][i] = f
          BY DEF Showing
        <4>3. <<q, i>> \in pairs <=> q = p /\ i \in H
          OBVIOUS
        <4>4. i \in H <=> i \in G /\ win[p][i] = f
          OBVIOUS
        <4>5. ClosedAll(win, p, G)[q][i] = IF q = p /\ i \in G THEN Nobody ELSE win[q][i]
          BY ClosedAllIs
        <4> HIDE DEF S, T, H, pairs
        <4> QED BY <4>1, <4>2, <4>3, <4>4, <4>5
      <3> QED BY <3>1
    <2>2. T \subseteq Viewers \X Panes /\ S \subseteq Viewers \X Panes
      BY DEF Showing
    <2> HIDE DEF S, T, H, pairs
    <2> QED BY <2>1, <2>2
  <1>2. pairs \subseteq S
    BY DEF Showing
  <1>3. IsFiniteSet(H) /\ Cardinality(H) \in Nat
    <2>1. H \in SUBSET Panes
      OBVIOUS
    <2> HIDE DEF H
    <2>2. IsFiniteSet(H)
      BY <2>1, Names, FS_Subset
    <2> QED BY <2>2, FS_CardinalityType
  <1>4. Cardinality(pairs) = Cardinality(H)
    <2> DEFINE b == [i \in H |-> <<p, i>>]
    <2>0. b \in [H -> pairs] /\ \A i \in H : b[i] = <<p, i>>
      OBVIOUS
    <2>1. b \in Bijection(H, pairs)
      <3>1. \A i, j \in H : b[i] = b[j] => i = j
        BY <2>0
      <3>2. \A t \in pairs : \E i \in H : b[i] = t
        BY <2>0
      <3> HIDE DEF H, pairs, b
      <3> QED BY <2>0, <3>1, <3>2 DEF Bijection, Injection, Surjection, IsInjective
    <2>2. ExistsBijection(H, pairs)
      BY <2>1 DEF ExistsBijection
    <2> HIDE DEF H, pairs
    <2> QED BY <2>2, <1>3, FS_Bijection
  <1>5. IsFiniteSet(S) /\ S \intersect pairs = pairs
    BY ShowingIsFinite, <1>2
  <1> HIDE DEF S, T, pairs, H
  <1>6. Cardinality(S \ pairs) = Cardinality(S) - Cardinality(S \intersect pairs)
    BY <1>5, FS_Difference
  <1> QED BY <1>1, <1>3, <1>4, <1>5, <1>6 DEF S, T, H

(* The same windows show it.                                               *)
LEMMA SameShowing ==
  ASSUME NEW win, NEW other, NEW f,
         \A p \in Viewers, i \in Panes : win[p][i] = f <=> other[p][i] = f
  PROVE  Showing(win, f) = Showing(other, f)
  BY DEF Showing

(* The browse field is held by its windows, its event and those who left.  *)
Record == [win : Windowing, client : Windowing, field : Cn!Fields \union {0}, refs : Int,
           fields : 0..MaxFields, timers : Nat]
Counted(w, n) ==
  /\ w \in Record /\ OnlyField(w.win, w.field) /\ w.timers <= 1
  /\ w.refs = (IF w.field = 0 THEN 0 ELSE Cardinality(Showing(w.win, w.field))) + w.timers + n
  /\ w.field = 0 <=> w.refs = 0

(* A record is counted when its references are, and the field ends with    *)
(* the last of them.                                                       *)
LEMMA Settled ==
  ASSUME NEW v \in Record, NEW n \in Nat, NEW f \in Cn!Fields,
         OnlyField(v.win, f), v.timers <= 1,
         v.refs = Cardinality(Showing(v.win, f)) + v.timers + n,
         v.field = IF v.refs = 0 THEN 0 ELSE f
  PROVE  Counted(v, n)
  <1>1. Cardinality(Showing(v.win, f)) \in Nat /\ IsFiniteSet(Showing(v.win, f))
    BY ShowingIsFinite
  <1>2. v.timers \in Nat /\ f # 0 /\ v.refs \in Int
    BY Names DEF Record
  <1>3. CASE v.refs = 0
    <2>1. Cardinality(Showing(v.win, f)) = 0 /\ v.timers = 0 /\ n = 0 /\ v.field = 0
      BY <1>1, <1>2, <1>3
    <2>2. Showing(v.win, f) = {}
      BY <1>1, <2>1, FS_EmptySet
    <2>3. \A p \in Viewers, i \in Panes : v.win[p][i] # f
      <3>1. ASSUME NEW p \in Viewers, NEW i \in Panes PROVE v.win[p][i] # f
        <4>1. <<p, i>> \notin Showing(v.win, f)
          BY <2>2
        <4> QED BY <4>1 DEF Showing
      <3> QED BY <3>1
    <2>4. OnlyField(v.win, v.field)
      BY <2>3 DEF OnlyField
    <2> QED BY <1>3, <2>1, <2>4 DEF Counted
  <1>4. CASE v.refs # 0
    <2>1. v.field = f
      BY <1>4
    <2> QED BY <1>2, <1>4, <2>1 DEF Counted
  <1> QED BY <1>3, <1>4

(* Without a browse field nobody holds one, no event is due and no window  *)
(* shows one.                                                              *)
LEMMA NoField ==
  ASSUME NEW w, NEW n \in Nat, Counted(w, n), w.field = 0
  PROVE  /\ w.refs = 0 /\ w.timers = 0 /\ n = 0
         /\ \A p \in Viewers, i \in Panes : w.win[p][i] \notin Cn!Fields
  <1>1. 0 \notin Cn!Fields /\ w.timers \in Nat
    BY Names DEF Counted, Record
  <1>2. w.refs = 0
    BY DEF Counted
  <1>3. w.refs = 0 + w.timers + n
    BY DEF Counted
  <1>4. w.timers = 0 /\ n = 0
    BY <1>1, <1>2, <1>3
  <1>5. OnlyField(w.win, 0)
    BY DEF Counted
  <1> QED BY <1>1, <1>2, <1>4, <1>5 DEF OnlyField

(* A browse field that is made has its event as the only reference.        *)
LEMMA WithFieldIs ==
  ASSUME NEW w, NEW n \in Nat, Counted(w, n), w.field # 0 \/ w.fields < MaxFields
  PROVE  LET v == Cn!WithField(w) IN
         /\ Counted(v, n) /\ v.field \in Cn!Fields
         /\ v.win = w.win /\ v.client = w.client
  <1> DEFINE v == Cn!WithField(w)
  <1>0. w \in Record
    BY DEF Counted
  <1>1. CASE w.field # 0
    <2>1. v = w
      BY <1>1 DEF Cn!WithField
    <2>2. w.field \in Cn!Fields
      BY <1>0, <1>1 DEF Record
    <2> QED BY <2>1, <2>2
  <1>2. CASE w.field = 0
    <2>1. /\ v.field = w.fields + 1 /\ v.fields = w.fields + 1 /\ v.refs = 1
          /\ v.timers = w.timers + 1 /\ v.win = w.win /\ v.client = w.client
      BY <1>0, <1>2 DEF Cn!WithField, Record
    <2>2. w.refs = 0 /\ w.timers = 0 /\ n = 0 /\ \A p \in Viewers, i \in Panes : w.win[p][i] \notin Cn!Fields
      BY <1>2, NoField
    <2>3. w.fields \in 0..MaxFields /\ w.fields < MaxFields
      BY <1>0, <1>2 DEF Record
    <2>4. v.field \in Cn!Fields /\ v.fields \in 0..MaxFields
      BY <2>1, <2>3, Names
    <2>5. v \in Record
      <3>1. v = [win |-> w.win, client |-> w.client, field |-> w.fields + 1, refs |-> 1,
                 fields |-> w.fields + 1, timers |-> w.timers + 1]
        BY <1>0, <1>2 DEF Cn!WithField, Record
      <3>2. w.fields + 1 \in Cn!Fields \union {0} /\ w.fields + 1 \in 0..MaxFields /\ w.timers + 1 \in Nat
        BY <2>1, <2>2, <2>4
      <3>3. w.win \in Windowing /\ w.client \in Windowing
        BY <1>0 DEF Record
      <3> HIDE DEF v
      <3> QED BY <3>1, <3>2, <3>3 DEF Record
    <2>6. OnlyField(v.win, v.field)
      BY <2>1, <2>2 DEF OnlyField
    <2>7. Showing(v.win, v.field) = {}
      BY <2>1, <2>2, <2>4 DEF Showing
    <2>8. Cardinality(Showing(v.win, v.field)) = 0
      BY <2>7, FS_EmptySet
    <2>9. v.refs = Cardinality(Showing(v.win, v.field)) + v.timers + n /\ v.timers <= 1 /\ v.refs = 1
      BY <2>1, <2>2, <2>8
    <2> HIDE DEF v
    <2>10. v.field = IF v.refs = 0 THEN 0 ELSE v.field
      BY <2>9
    <2>11. Counted(v, n)
      BY <2>4, <2>5, <2>6, <2>9, <2>10, Settled
    <2> QED BY <2>1, <2>4, <2>11 DEF v
  <1> QED BY <1>1, <1>2

(* The records that the operations make.                                   *)
Rec(win, client, f, r, fs, t) ==
  [win |-> win, client |-> client, field |-> f, refs |-> r, fields |-> fs, timers |-> t]

(* The fields of a record that Rec makes.                                  *)
LEMMA RecIs ==
  ASSUME NEW win \in Windowing, NEW client \in Windowing, NEW f \in Cn!Fields \union {0},
         NEW r \in Int, NEW fs \in 0..MaxFields, NEW t \in Nat
  PROVE  LET v == Rec(win, client, f, r, fs, t) IN
         /\ v \in Record /\ v.win = win /\ v.client = client /\ v.field = f /\ v.refs = r
         /\ v.fields = fs /\ v.timers = t
  BY DEF Rec, Record

(* A record is what Rec makes of its fields.                               *)
LEMMA RecordIs ==
  ASSUME NEW w \in Record
  PROVE  /\ w = Rec(w.win, w.client, w.field, w.refs, w.fields, w.timers)
         /\ w.win \in Windowing /\ w.client \in Windowing /\ w.field \in Cn!Fields \union {0}
         /\ w.refs \in Int /\ w.fields \in 0..MaxFields /\ w.timers \in Nat
  BY DEF Rec, Record

(* One more reference, if it is a browse field.                            *)
LEMMA HeldIs ==
  ASSUME NEW w \in Record, NEW x
  PROVE  Cn!Held(w, x) = Rec(w.win, w.client, w.field,
                             IF x \in Cn!Fields THEN w.refs + 1 ELSE w.refs, w.fields, w.timers)
  BY DEF Cn!Held, Rec, Record

(* One fewer, and the last ends the field.                                 *)
LEMMA LetGoIs ==
  ASSUME NEW w \in Record, NEW x
  PROVE  Cn!LetGo(w, x) = Rec(w.win, w.client,
                              IF x \in Cn!Fields /\ w.refs = 1 THEN 0 ELSE w.field,
                              IF x \in Cn!Fields THEN w.refs - 1 ELSE w.refs, w.fields, w.timers)
  BY DEF Cn!LetGo, Rec, Record

(* addContainer, and closeContainer, which puts nothing in its place.      *)
LEMMA AddIs ==
  ASSUME NEW w, NEW n \in Nat, Counted(w, n), NEW p \in Viewers, NEW i \in Panes,
         NEW x \in Cn!Shown, x \in Cn!Fields => x = w.field
  PROVE  LET v == Cn!AddContainer(w, p, i, x) IN
         /\ Counted(v, n) /\ v.win = PutAt(w.win, p, i, x) /\ v.client = w.client
         /\ x \in Cn!Fields => v.field = x
  <1> DEFINE old == w.win[p][i]
             own == IF x \in Cn!Fields THEN w.refs + 1 ELSE w.refs
             rest == IF old \in Cn!Fields THEN own - 1 ELSE own
             left == IF old \in Cn!Fields /\ own = 1 THEN 0 ELSE w.field
             win == PutAt(w.win, p, i, x)
             v == Rec(win, w.client, left, rest, w.fields, w.timers)
  <1>0. w \in Record /\ OnlyField(w.win, w.field)
    BY DEF Counted
  <1>1. /\ w.win \in Windowing /\ w.client \in Windowing /\ w.field \in Cn!Fields \union {0}
        /\ w.refs \in Int /\ w.fields \in 0..MaxFields /\ w.timers \in Nat
    BY <1>0, RecordIs
  <1>2. own \in Int /\ rest \in Int /\ left \in Cn!Fields \union {0}
    BY <1>1
  <1>3. win \in Windowing
    BY <1>1, PutAtIs
  <1>4. Cn!AddContainer(w, p, i, x) = v
    <2> DEFINE h == Cn!Held(w, x)
    <2>1. h = Rec(w.win, w.client, w.field, own, w.fields, w.timers)
      BY <1>0, HeldIs
    <2>2. h \in Record /\ h.win = w.win /\ h.client = w.client /\ h.field = w.field
          /\ h.refs = own /\ h.fields = w.fields /\ h.timers = w.timers
      <3>1. own \in Int
        BY <1>2
      <3> DEFINE g == Rec(w.win, w.client, w.field, own, w.fields, w.timers)
      <3>2. g \in Record /\ g.win = w.win /\ g.client = w.client /\ g.field = w.field
            /\ g.refs = own /\ g.fields = w.fields /\ g.timers = w.timers
        <4> HIDE DEF own
        <4> QED BY <1>1, <3>1 DEF Rec, Record
      <3>3. h = g
        BY <2>1
      <3> HIDE DEF g, h, own
      <3> QED BY <3>2, <3>3
    <2>3. Cn!LetGo(h, old) = Rec(w.win, w.client, left, rest, w.fields, w.timers)
      <3> HIDE DEF h, own, old
      <3> QED BY <2>2, LetGoIs
    <2>4. Cn!AddContainer(w, p, i, x) = [Cn!LetGo(h, old) EXCEPT !.win[p][i] = x]
      BY DEF Cn!AddContainer
    <2>5. [Rec(w.win, w.client, left, rest, w.fields, w.timers) EXCEPT !.win[p][i] = x] = v
      <3> HIDE DEF left, rest
      <3> QED BY DEF Rec, PutAt
    <2> HIDE DEF h, left, rest, old, v
    <2> QED BY <2>3, <2>4, <2>5
  <1>5. /\ v \in Record /\ v.win = win /\ v.client = w.client /\ v.field = left /\ v.refs = rest
        /\ v.fields = w.fields /\ v.timers = w.timers
    <2> HIDE DEF win, left, rest
    <2> QED BY <1>1, <1>2, <1>3 DEF Rec, Record
  <1>6. old \in Cn!Fields => old = w.field
    BY <1>0 DEF OnlyField
  <1>7. OnlyField(win, w.field)
    <2>1. \A q \in Viewers, j \in Panes : win[q][j] = IF <<q, j>> = <<p, i>> THEN x ELSE w.win[q][j]
      BY <1>1, PutAtIs
    <2> HIDE DEF win
    <2> QED BY <1>0, <2>1 DEF OnlyField
  <1>8. CASE w.field = 0
    <2>1. old \notin Cn!Fields /\ x \notin Cn!Fields
      BY <1>6, <1>8, Names
    <2>2. v.refs = w.refs /\ v.field = 0
      BY <1>5, <1>8, <2>1
    <2>3. w.refs = 0 /\ w.timers = 0 /\ n = 0
      BY <1>8, NoField
    <2>4. OnlyField(v.win, v.field)
      BY <1>5, <1>7, <1>8, <2>2
    <2> HIDE DEF v, win
    <2>5. Counted(v, n)
      BY <1>5, <2>2, <2>3, <2>4 DEF Counted
    <2> QED BY <1>4, <1>5, <2>1, <2>5 DEF win
  <1>9. CASE w.field # 0
    <2>1. w.field \in Cn!Fields /\ w.refs # 0 /\ w.timers <= 1
      BY <1>1, <1>9 DEF Counted
    <2>2. w.refs = Cardinality(Showing(w.win, w.field)) + w.timers + n
      BY <1>9 DEF Counted
    <2>3. Cardinality(Showing(win, w.field)) = Cardinality(Showing(w.win, w.field))
            + (IF x = w.field THEN 1 ELSE 0) - (IF old = w.field THEN 1 ELSE 0)
      BY <1>1, Recount
    <2>4. own = w.refs + (IF x = w.field THEN 1 ELSE 0)
      BY <1>1, <2>1
    <2>5. rest = own - (IF old = w.field THEN 1 ELSE 0)
      BY <1>2, <1>6, <2>1
    <2>6. Cardinality(Showing(w.win, w.field)) \in Nat
      BY ShowingIsFinite
    <2>7. rest = Cardinality(Showing(win, w.field)) + w.timers + n
      <3> HIDE DEF own, rest, old, win
      <3> QED BY <1>1, <1>2, <2>2, <2>3, <2>4, <2>5, <2>6
    <2>8. left = IF rest = 0 THEN 0 ELSE w.field
      <3>1. old \in Cn!Fields => (rest = 0 <=> own = 1)
        <4> HIDE DEF own
        <4> QED BY <1>2
      <3>2. old \notin Cn!Fields => rest # 0
        <4>1. own # 0
          <5>1. w.refs \in Nat
            BY <1>1, <2>2, <2>6
          <5> QED BY <2>1, <2>4, <5>1
        <4> QED BY <4>1
      <3> HIDE DEF own, rest
      <3> QED BY <3>1, <3>2
    <2>9. x \in Cn!Fields => left = x
      <3>1. x \in Cn!Fields => own # 1
        <4>1. w.refs \in Nat
          BY <1>1, <2>2, <2>6
        <4> QED BY <2>1, <4>1
      <3> HIDE DEF own
      <3> QED BY <3>1
    <2> HIDE DEF v, win, left, rest, own
    <2>10. Counted(v, n)
      <3>1. OnlyField(v.win, w.field) /\ v.timers <= 1
        BY <1>5, <1>7, <2>1
      <3>2. v.refs = Cardinality(Showing(v.win, w.field)) + v.timers + n
        BY <1>5, <2>7
      <3>3. v.field = IF v.refs = 0 THEN 0 ELSE w.field
        BY <1>5, <2>8
      <3> QED BY <1>5, <2>1, <3>1, <3>2, <3>3, Settled
    <2> QED BY <1>4, <1>5, <2>9, <2>10 DEF win
  <1> QED BY <1>8, <1>9

(* A closed window lets go of what it showed.                              *)
LEMMA CloseIs ==
  ASSUME NEW w, NEW n \in Nat, Counted(w, n), NEW p \in Viewers, NEW i \in Panes
  PROVE  LET v == Cn!CloseContainer(w, p, i) IN
         Counted(v, n) /\ v.win = PutAt(w.win, p, i, Nobody) /\ v.client = w.client
  <1>1. Nobody \notin Cn!Fields /\ Nobody \in Cn!Shown
    BY Names DEF Cn!Shown
  <1>2. Cn!Held(w, Nobody) = w
    BY <1>1 DEF Cn!Held
  <1>3. Cn!CloseContainer(w, p, i) = Cn!AddContainer(w, p, i, Nobody)
    BY <1>2 DEF Cn!CloseContainer, Cn!AddContainer
  <1> QED BY <1>1, <1>3, AddIs

(* What the client is told changes no window.                              *)
Says(w, c) == [w EXCEPT !.client = c]

(* What the client is told changes no window and no reference.             *)
LEMMA SaysIs ==
  ASSUME NEW w, NEW n \in Nat, Counted(w, n), NEW c \in Windowing
  PROVE  LET v == Says(w, c) IN
         Counted(v, n) /\ v.win = w.win /\ v.client = c /\ v.field = w.field
  <1> DEFINE v == Says(w, c)
  <1>0. w \in Record
    BY DEF Counted
  <1>1. v = Rec(w.win, c, w.field, w.refs, w.fields, w.timers)
    BY <1>0 DEF Says, Rec, Record
  <1>2. /\ v \in Record /\ v.win = w.win /\ v.client = c /\ v.field = w.field /\ v.refs = w.refs
        /\ v.fields = w.fields /\ v.timers = w.timers
    <2>1. /\ w.win \in Windowing /\ w.field \in Cn!Fields \union {0}
          /\ w.refs \in Int /\ w.fields \in 0..MaxFields /\ w.timers \in Nat
      BY <1>0, RecordIs
    <2> HIDE DEF v
    <2> QED BY <1>1, <2>1 DEF Rec, Record
  <1> HIDE DEF v
  <1>3. Counted(v, n)
    BY <1>2 DEF Counted
  <1> QED BY <1>2, <1>3 DEF v

(* decreaseBrowseFieldRef                                                  *)
LEMMA TimerIs ==
  ASSUME NEW w, NEW n \in Nat, Counted(w, n), w.timers > 0
  PROVE  LET v == [Cn!LetGo(w, IF w.field = 0 THEN Nobody ELSE w.field) EXCEPT !.timers = @ - 1] IN
         Counted(v, n) /\ v.win = w.win /\ v.client = w.client
  <1> DEFINE v == Rec(w.win, w.client, IF w.refs = 1 THEN 0 ELSE w.field, w.refs - 1, w.fields,
                      w.timers - 1)
  <1>0. w \in Record
    BY DEF Counted
  <1>1. /\ w.win \in Windowing /\ w.client \in Windowing /\ w.field \in Cn!Fields \union {0}
        /\ w.refs \in Int /\ w.fields \in 0..MaxFields /\ w.timers \in Nat
    BY <1>0, RecordIs
  <1>2. w.field # 0
    BY NoField
  <1>3. w.field \in Cn!Fields
    BY <1>1, <1>2
  <1>4. [Cn!LetGo(w, IF w.field = 0 THEN Nobody ELSE w.field) EXCEPT !.timers = @ - 1] = v
    <2>1. Cn!LetGo(w, w.field) = Rec(w.win, w.client, IF w.refs = 1 THEN 0 ELSE w.field, w.refs - 1,
                                     w.fields, w.timers)
      BY <1>0, <1>3, LetGoIs
    <2>2. [Rec(w.win, w.client, IF w.refs = 1 THEN 0 ELSE w.field, w.refs - 1, w.fields, w.timers)
            EXCEPT !.timers = @ - 1] = v
      BY DEF Rec
    <2> HIDE DEF v
    <2> QED BY <1>2, <2>1, <2>2
  <1>5. w.timers - 1 \in Nat /\ w.refs - 1 \in Int /\ (IF w.refs = 1 THEN 0 ELSE w.field) \in Cn!Fields \union {0}
    BY <1>1
  <1>6. /\ v \in Record /\ v.win = w.win /\ v.client = w.client
        /\ v.field = (IF w.refs = 1 THEN 0 ELSE w.field) /\ v.refs = w.refs - 1
        /\ v.fields = w.fields /\ v.timers = w.timers - 1
    <2> DEFINE left == IF w.refs = 1 THEN 0 ELSE w.field
               rest == w.refs - 1
               ticking == w.timers - 1
    <2>1. v = Rec(w.win, w.client, left, rest, w.fields, ticking)
      OBVIOUS
    <2>2. left \in Cn!Fields \union {0} /\ rest \in Int /\ ticking \in Nat
      BY <1>5
    <2> HIDE DEF v, left, rest, ticking
    <2>3. /\ v \in Record /\ v.win = w.win /\ v.client = w.client /\ v.field = left /\ v.refs = rest
          /\ v.fields = w.fields /\ v.timers = ticking
      BY <1>1, <2>1, <2>2, RecIs
    <2> QED BY <2>3 DEF left, rest, ticking
  <1>7. Counted(v, n)
    <2>1. w.refs = Cardinality(Showing(w.win, w.field)) + w.timers + n /\ w.timers <= 1 /\ OnlyField(w.win, w.field)
      BY <1>2 DEF Counted
    <2>2. Cardinality(Showing(w.win, w.field)) \in Nat
      BY ShowingIsFinite
    <2> HIDE DEF v
    <2>3. v.refs = Cardinality(Showing(v.win, w.field)) + v.timers + n /\ v.timers <= 1
      BY <1>1, <1>6, <2>1, <2>2
    <2>4. v.field = IF v.refs = 0 THEN 0 ELSE w.field
      BY <1>1, <1>6
    <2>5. OnlyField(v.win, w.field)
      BY <1>6, <2>1
    <2> QED BY <1>3, <1>6, <2>3, <2>4, <2>5, Settled
  <1> HIDE DEF v
  <1> QED BY <1>4, <1>6, <1>7

(* autoCloseContainers                                                     *)
Gone(w, p, x, l) ==
  {i \in Panes : /\ w.win[p][i] # Nobody
                 /\ \/ x \in Cn!Outwards(l, w.win[p][i])
                    \/ w.win[p][i] \in Boxes /\ Cn!TopOf(l)[w.win[p][i]] = Nobody}

(* To count is the same in the instance and here.                          *)
LEMMA SameCount == \A S : Cn!Cardinality(S) = Cardinality(S)
  BY DEF Cn!Cardinality, Cardinality

(* The windows that are closed are exactly those that show what is         *)
(* concerned or lie in it, and the references of them all are given back   *)
(* at once.                                                                *)
LEMMA AutoCloseIs ==
  ASSUME NEW w, NEW n \in Nat, Counted(w, n), NEW p \in Viewers, NEW x, NEW l
  PROVE  LET v == Cn!AutoCloseContainers(w, p, x, l)
             gone == Gone(w, p, x, l) IN
         /\ Counted(v, n) /\ v.win = ClosedAll(w.win, p, gone) /\ v.client = ClosedAll(w.client, p, gone)
  <1> DEFINE gone == Gone(w, p, x, l)
             held == Cardinality({i \in gone : w.win[p][i] \in Cn!Fields})
             left == IF held > 0 /\ w.refs = held THEN 0 ELSE w.field
             win == ClosedAll(w.win, p, gone)
             client == ClosedAll(w.client, p, gone)
             v == Rec(win, client, left, w.refs - held, w.fields, w.timers)
  <1>0. w \in Record /\ OnlyField(w.win, w.field)
    BY DEF Counted
  <1>1. /\ w.win \in Windowing /\ w.client \in Windowing /\ w.field \in Cn!Fields \union {0}
        /\ w.refs \in Int /\ w.fields \in 0..MaxFields /\ w.timers \in Nat
    BY <1>0, RecordIs
  <1>2. gone \in SUBSET Panes
    BY DEF Gone
  <1>3. win \in Windowing /\ client \in Windowing
    <2> HIDE DEF gone
    <2> QED BY <1>1, ClosedAllIs
  <1>4. held \in Nat /\ Cn!AutoCloseContainers(w, p, x, l) = v
    <2>1. {i \in gone : w.win[p][i] \in Cn!Fields} \in SUBSET Panes
      BY <1>2
    <2>2. held \in Nat
      <3> DEFINE H == {i \in gone : w.win[p][i] \in Cn!Fields}
      <3> HIDE DEF H
      <3> QED BY <2>1, Names, FS_Subset, FS_CardinalityType DEF H
    <2>3. Cn!AutoCloseContainers(w, p, x, l)
            = [w EXCEPT !.win[p] = [i \in Panes |-> IF i \in gone THEN Nobody ELSE @[i]],
                        !.client[p] = [i \in Panes |-> IF i \in gone THEN Nobody ELSE @[i]],
                        !.refs = @ - held,
                        !.field = IF held > 0 /\ w.refs = held THEN 0 ELSE @]
      <3>1. Cn!Cardinality({i \in gone : w.win[p][i] \in Cn!Fields}) = held
        BY SameCount
      <3> QED BY <3>1 DEF Cn!AutoCloseContainers, Gone
    <2>4. w = Rec(w.win, w.client, w.field, w.refs, w.fields, w.timers)
      BY <1>0, RecordIs
    <2>5. Cn!AutoCloseContainers(w, p, x, l) = v
      <3> HIDE DEF gone, held
      <3> QED BY <1>0, <2>3 DEF Rec, Record, ClosedAll
    <2> QED BY <2>2, <2>5
  <1>5. /\ v \in Record /\ v.win = win /\ v.client = client /\ v.field = left /\ v.refs = w.refs - held
        /\ v.fields = w.fields /\ v.timers = w.timers
    <2>1. left \in Cn!Fields \union {0} /\ w.refs - held \in Int
      BY <1>1, <1>4
    <2>2. v = Rec(win, client, left, w.refs - held, w.fields, w.timers)
      OBVIOUS
    <2> HIDE DEF v, win, client, left, held
    <2> QED BY <1>1, <1>3, <2>1, <2>2 DEF Rec, Record
  <1>6. OnlyField(win, w.field)
    <2>1. \A q \in Viewers, j \in Panes : win[q][j] \in {Nobody, w.win[q][j]}
      <3> HIDE DEF gone
      <3> QED BY <1>1, ClosedAllIs
    <2> HIDE DEF win
    <2> QED BY <1>0, <2>1, Names DEF OnlyField
  <1>7. CASE w.field = 0
    <2>1. {i \in gone : w.win[p][i] \in Cn!Fields} = {}
      BY <1>2, <1>7, NoField
    <2>2. held = 0
      BY <2>1, FS_EmptySet
    <2>3. v.refs = w.refs /\ v.field = 0
      BY <1>1, <1>5, <1>7, <2>2
    <2>4. w.refs = 0 /\ w.timers = 0 /\ n = 0
      BY <1>7, NoField
    <2>5. OnlyField(v.win, v.field)
      BY <1>5, <1>6, <1>7, <2>3
    <2> HIDE DEF v, win, client
    <2>6. Counted(v, n)
      BY <1>5, <2>3, <2>4, <2>5 DEF Counted
    <2> QED BY <1>4, <1>5, <2>6 DEF win, client
  <1>8. CASE w.field # 0
    <2>1. w.field \in Cn!Fields /\ w.refs # 0 /\ w.timers <= 1 /\ w.field # Nobody
      BY <1>1, <1>8, Names DEF Counted
    <2>2. w.refs = Cardinality(Showing(w.win, w.field)) + w.timers + n
      BY <1>8 DEF Counted
    <2>3. {i \in gone : w.win[p][i] \in Cn!Fields} = {i \in gone : w.win[p][i] = w.field}
      <3>1. \A i \in Panes : w.win[p][i] \in Cn!Fields <=> w.win[p][i] = w.field
        BY <1>0, <2>1 DEF OnlyField
      <3> HIDE DEF gone
      <3> QED BY <1>2, <3>1
    <2>4. Cardinality(Showing(win, w.field)) = Cardinality(Showing(w.win, w.field)) - held
      <3> HIDE DEF gone
      <3> QED BY <1>1, <1>2, <2>1, <2>3, RecountAll
    <2>5. Cardinality(Showing(w.win, w.field)) \in Nat
      BY ShowingIsFinite
    <2> HIDE DEF v, win, client
    <2>6. v.refs = Cardinality(Showing(v.win, w.field)) + v.timers + n /\ v.timers <= 1
      <3> HIDE DEF held, left
      <3> QED BY <1>1, <1>4, <1>5, <2>1, <2>2, <2>4, <2>5
    <2>7. v.field = IF v.refs = 0 THEN 0 ELSE w.field
      <3>1. w.refs # 0 /\ w.refs \in Int /\ held \in Nat
        BY <1>1, <1>4, <2>1
      <3> HIDE DEF held
      <3> QED BY <1>5, <3>1
    <2>8. OnlyField(v.win, w.field)
      BY <1>5, <1>6
    <2>9. Counted(v, n)
      <3> HIDE DEF held, left
      <3> QED BY <1>5, <2>1, <2>6, <2>7, <2>8, Settled
    <2> QED BY <1>4, <1>5, <2>9 DEF win, client
  <1> QED BY <1>7, <1>8

(* Windows on what their players may reach, and what the clients show.     *)
Reached(l, o, p, y) == \/ Cn!TopOf(l)[y] = p
                       \/ Cn!TopOf(l)[y] \in Floor /\ Cn!Near(Cn!TopOf(l)[y], o[p])
Rightful(l, o, p, x) ==
  /\ o[p] # Nobody
  /\ x \in Boxes => Reached(l, o, p, x)
  /\ x \in Cn!Fields => Cn!Near(o[p], Corner)
Fair(l, o, win, cl) ==
  \A p \in Viewers, i \in Panes :
    /\ win[p][i] # Nobody => Rightful(l, o, p, win[p][i])
    /\ cl[p][i] # Nobody => cl[p][i] = win[p][i]

(* The inductive invariant: nothing lies in a circle, the references are   *)
(* counted, and all windows are fair.                                      *)
WindowsInv ==
  /\ standsAt \in [Viewers -> Floor \union {Nobody}] /\ lies \in Layouts
  /\ forgotten \in Nat /\ shifts \in 0..MaxShifts
  /\ Counted(Cn!Self, forgotten) /\ Fair(lies, standsAt, windowOf, shown)

(* The variables as a record.                                              *)
LEMMA SelfIs == /\ Cn!Self = Rec(windowOf, shown, field, fieldRefs, fields, timers)
                /\ Cn!Self.win = windowOf /\ Cn!Self.client = shown /\ Cn!Self.field = field
                /\ Cn!Self.fields = fields /\ Cn!Self.timers = timers /\ Cn!Self.refs = fieldRefs
  BY DEF Cn!Self, Rec

(* The variables after a step that makes a record of them.                 *)
LEMMA BecomesIs ==
  ASSUME NEW v, v \in Record, Cn!Becomes(v)
  PROVE  Cn!Self' = v /\ windowOf' = v.win /\ shown' = v.client
  <1>1. v = Rec(v.win, v.client, v.field, v.refs, v.fields, v.timers)
    BY RecordIs
  <1>2. /\ windowOf' = v.win /\ shown' = v.client /\ field' = v.field /\ fieldRefs' = v.refs
        /\ fields' = v.fields /\ timers' = v.timers
    BY DEF Cn!Becomes
  <1>3. Cn!Self' = Rec(windowOf', shown', field', fieldRefs', fields', timers')
    BY DEF Cn!Self, Rec
  <1> QED BY <1>1, <1>2, <1>3

(* A step keeps the invariant if the record that it makes is counted and   *)
(* fair where things lie and players stand afterwards.                     *)
LEMMA StepIs ==
  ASSUME NEW v, NEW n, Cn!Becomes(v), Counted(v, n), forgotten' = n, forgotten' \in Nat,
         lies' \in Layouts, standsAt' \in [Viewers -> Floor \union {Nobody}], shifts' \in 0..MaxShifts,
         NEW l, NEW o, l = lies', o = standsAt', Fair(l, o, v.win, v.client)
  PROVE  WindowsInv'
  <1>1. Cn!Self' = v /\ windowOf' = v.win /\ shown' = v.client
    BY BecomesIs DEF Counted
  <1>2. Counted(Cn!Self', forgotten')
    BY <1>1
  <1>3. Fair(lies', standsAt', windowOf', shown')
    BY <1>1
  <1> QED BY <1>2, <1>3 DEF WindowsInv

(* What is closed and what is opened stays fair.                           *)
LEMMA StaysFair ==
  ASSUME NEW l, NEW o, NEW win, NEW cl, Fair(l, o, win, cl), NEW k, NEW u, NEW other, NEW says,
         \A p \in Viewers, i \in Panes :
           /\ other[p][i] # Nobody => Rightful(k, u, p, other[p][i])
           /\ says[p][i] \in {Nobody, other[p][i]} \/ (says[p][i] = cl[p][i] /\ other[p][i] = win[p][i])
  PROVE  Fair(k, u, other, says)
  BY DEF Fair

(* onSendContainer, onCloseContainer                                       *)
Notice(w, p, x, shows) == [w.client EXCEPT ![p] = [i \in Panes |-> IF w.win[p][i] = x THEN shows ELSE @[i]]]

(* A notice changes what the client shows in the windows of one thing.     *)
LEMMA NoticeIs ==
  ASSUME NEW w \in Record, NEW p \in Viewers, NEW x \in Cn!Shown, NEW shows \in {x, Nobody}
  PROVE  /\ Notice(w, p, x, shows) \in Windowing
         /\ \A q \in Viewers, j \in Panes :
              Notice(w, p, x, shows)[q][j]
                = IF q = p /\ w.win[q][j] = x THEN shows ELSE w.client[q][j]
  <1>1. shows \in Cn!Shown /\ w.client \in Windowing
    BY DEF Cn!Shown, Record
  <1> QED BY <1>1 DEF Notice, Windowing

(* A notice that shows a container shows it in the windows of it.          *)
LEMMA SendIs ==
  ASSUME NEW w, NEW n \in Nat, Counted(w, n), NEW p \in Viewers, NEW x \in Cn!Shown
  PROVE  LET v == Cn!OnSendContainer(w, p, x)
             u == Cn!OnCloseContainer(w, p, x) IN
         /\ Counted(v, n) /\ v.win = w.win /\ v.client = Notice(w, p, x, x) /\ v.field = w.field
         /\ Counted(u, n) /\ u.win = w.win /\ u.client = Notice(w, p, x, Nobody) /\ u.field = w.field
  <1>0. w \in Record
    BY DEF Counted
  <1>1. /\ Cn!OnSendContainer(w, p, x) = Says(w, Notice(w, p, x, x))
        /\ Cn!OnCloseContainer(w, p, x) = Says(w, Notice(w, p, x, Nobody))
    BY <1>0 DEF Cn!OnSendContainer, Cn!OnCloseContainer, Says, Notice, Record
  <1>2. Notice(w, p, x, x) \in Windowing /\ Notice(w, p, x, Nobody) \in Windowing
    BY <1>0, NoticeIs
  <1> QED BY <1>1, <1>2, SaysIs

(* What the client is told of one window.                                  *)
Tells(w, p, i, x) == [w EXCEPT !.client[p][i] = x]

(* Either notice to the client leaves it with nothing but open windows.    *)
LEMMA TellIs ==
  ASSUME NEW w, NEW n \in Nat, Counted(w, n), NEW p \in Viewers, NEW i \in Panes, NEW x \in Cn!Shown
  PROVE  LET v == Tells(w, p, i, x) IN
         /\ Counted(v, n) /\ v.win = w.win /\ v.client = PutAt(w.client, p, i, x)
  <1>0. w \in Record /\ w.client \in Windowing
    BY DEF Counted, Record
  <1>1. Tells(w, p, i, x) = Says(w, PutAt(w.client, p, i, x))
    BY <1>0 DEF Tells, Says, PutAt
  <1>2. PutAt(w.client, p, i, x) \in Windowing
    BY <1>0, PutAtIs
  <1> DEFINE c == PutAt(w.client, p, i, x)
             v == Says(w, c)
  <1>3. Counted(v, n) /\ v.win = w.win /\ v.client = c
    <2>1. c \in Windowing
      BY <1>2
    <2> HIDE DEF c
    <2> QED BY <2>1, SaysIs
  <1> HIDE DEF v
  <1> QED BY <1>1, <1>3 DEF v

(* The least of several numbers of windows.                                *)
LEMMA LeastPane ==
  ASSUME NEW S \in SUBSET Panes, S # {}
  PROVE  (CHOOSE j \in S : \A k \in S : j <= k) \in S
  <1>1. S \subseteq Nat
    BY Names
  <1>2. \E x \in S : \A y \in S : ~(<<y, x>> \in OpToRel(<, Nat))
    BY <1>1, NatLessThanWellFounded, WFMin
  <1>3. PICK x \in S : \A y \in S : ~(<<y, x>> \in OpToRel(<, Nat))
    BY <1>2
  <1>4. ASSUME NEW y \in S PROVE x <= y
    <2>1. x \in Nat /\ y \in Nat
      BY <1>1
    <2>2. ~(y < x)
      BY <1>3, <2>1 DEF OpToRel
    <2> QED BY <2>1, <2>2
  <1> QED BY <1>4

(* What is in reach of the code is what is here.                           *)
LEMMA InReachIs == \A p \in Viewers, y \in Boxes : Cn!InReach(p, y) <=> Reached(lies, standsAt, p, y)
  BY DEF Cn!InReach, Reached

(* To use a container opens or closes a window of what is within reach.    *)
LEMMA UseIsKept == WindowsInv /\ Cn!UseContainer => WindowsInv'
  <1> SUFFICES ASSUME WindowsInv, Cn!UseContainer PROVE WindowsInv'
    OBVIOUS
  <1> DEFINE open(p, c) == {j \in Panes : windowOf[p][j] = c}
  <1>1. PICK p \in Viewers, c \in Boxes, i \in Panes :
          /\ standsAt[p] # Nobody /\ Cn!InReach(p, c)
          /\ Cn!Becomes(IF open(p, c) # {}
                        THEN Cn!CloseContainer(Cn!OnCloseContainer(Cn!Self, p, c), p,
                               CHOOSE j \in open(p, c) : \A k \in open(p, c) : j <= k)
                        ELSE Cn!OnSendContainer(Cn!AddContainer(Cn!Self, p, i, c), p, c))
          /\ UNCHANGED Cn!Others
    BY DEF Cn!UseContainer
  <1>2. /\ forgotten' = forgotten /\ lies' = lies /\ standsAt' = standsAt /\ shifts' = shifts
        /\ forgotten \in Nat /\ lies \in Layouts /\ shifts \in 0..MaxShifts
        /\ standsAt \in [Viewers -> Floor \union {Nobody}]
        /\ Counted(Cn!Self, forgotten) /\ Fair(lies, standsAt, windowOf, shown)
    BY <1>1 DEF Cn!Others, WindowsInv
  <1>3. c \in Cn!Shown /\ c \notin Cn!Fields /\ c # Nobody
    BY Names DEF Cn!Shown
  <1>4. Cn!Self \in Record /\ Cn!Self.win = windowOf /\ Cn!Self.client = shown
    BY <1>2, SelfIs DEF Counted
  <1>5. Reached(lies, standsAt, p, c)
    BY <1>1, InReachIs
  <1>6. CASE open(p, c) # {}
    <2> DEFINE j == CHOOSE j \in open(p, c) : \A k \in open(p, c) : j <= k
               u == Cn!OnCloseContainer(Cn!Self, p, c)
               v == Cn!CloseContainer(u, p, j)
    <2>1. j \in Panes /\ windowOf[p][j] = c
      <3>1. j \in open(p, c)
        <4> DEFINE S == open(p, c)
        <4>1. S \in SUBSET Panes /\ S # {}
          BY <1>6
        <4> HIDE DEF S
        <4>2. (CHOOSE j2 \in S : \A k \in S : j2 <= k) \in S
          BY <4>1, LeastPane
        <4> QED BY <4>2 DEF S
      <3> QED BY <3>1
    <2> HIDE DEF j
    <2>2. Counted(u, forgotten) /\ u.win = windowOf /\ u.client = Notice(Cn!Self, p, c, Nobody)
      BY <1>2, <1>3, <1>4, SendIs
    <2> HIDE DEF u
    <2>3. Counted(v, forgotten) /\ v.win = PutAt(windowOf, p, j, Nobody) /\ v.client = u.client
      BY <1>2, <2>1, <2>2, CloseIs
    <2>4. \A q \in Viewers, k \in Panes :
            /\ v.win[q][k] = IF q = p /\ k = j THEN Nobody ELSE windowOf[q][k]
            /\ v.client[q][k] = IF q = p /\ windowOf[q][k] = c THEN Nobody ELSE shown[q][k]
      <3>1. windowOf \in Windowing /\ Nobody \in Cn!Shown
        BY <1>4 DEF Record, Cn!Shown
      <3>2. \A q \in Viewers, k \in Panes : v.client[q][k] = IF q = p /\ windowOf[q][k] = c THEN Nobody ELSE shown[q][k]
        BY <1>3, <1>4, <2>2, <2>3, NoticeIs
      <3>3. \A q \in Viewers, k \in Panes : v.win[q][k] = IF q = p /\ k = j THEN Nobody ELSE windowOf[q][k]
        BY <2>1, <2>3, <3>1, PutAtIs
      <3> QED BY <3>2, <3>3
    <2>5. Fair(lies, standsAt, v.win, v.client)
      <3> HIDE DEF v
      <3> QED BY <1>2, <2>1, <2>4 DEF Fair
    <2>6. Cn!Becomes(v)
      BY <1>1, <1>6 DEF j, u
    <2> HIDE DEF v
    <2> QED BY <1>2, <2>3, <2>5, <2>6, StepIs
  <1>7. CASE open(p, c) = {}
    <2> DEFINE u == Cn!AddContainer(Cn!Self, p, i, c)
               v == Cn!OnSendContainer(u, p, c)
    <2>1. Counted(u, forgotten) /\ u.win = PutAt(windowOf, p, i, c) /\ u.client = shown
      BY <1>2, <1>3, <1>4, AddIs
    <2> HIDE DEF u
    <2>2. Counted(v, forgotten) /\ v.win = u.win /\ v.client = Notice(u, p, c, c)
      BY <1>2, <1>3, <2>1, SendIs
    <2>3. \A q \in Viewers, k \in Panes :
            /\ v.win[q][k] = IF q = p /\ k = i THEN c ELSE windowOf[q][k]
            /\ v.client[q][k] = IF q = p /\ v.win[q][k] = c THEN c ELSE shown[q][k]
      <3>1. windowOf \in Windowing /\ u \in Record
        BY <1>4, <2>1 DEF Record, Counted
      <3>2. \A q \in Viewers, k \in Panes : v.client[q][k] = IF q = p /\ u.win[q][k] = c THEN c ELSE shown[q][k]
        BY <1>3, <2>1, <2>2, <3>1, NoticeIs
      <3>3. \A q \in Viewers, k \in Panes : v.win[q][k] = IF q = p /\ k = i THEN c ELSE windowOf[q][k]
        BY <1>3, <2>1, <2>2, <3>1, PutAtIs
      <3> QED BY <2>2, <3>2, <3>3
    <2>4. Rightful(lies, standsAt, p, c)
      BY <1>1, <1>3, <1>5 DEF Rightful
    <2>5. Fair(lies, standsAt, v.win, v.client)
      <3> HIDE DEF v
      <3> QED BY <1>2, <2>3, <2>4 DEF Fair
    <2>6. Cn!Becomes(v)
      BY <1>1, <1>7 DEF u
    <2> HIDE DEF v
    <2> QED BY <1>2, <2>2, <2>5, <2>6, StepIs
  <1> QED BY <1>6, <1>7
LEMMA MoveUpIs ==
  ASSUME WindowsInv, NEW p \in Viewers, NEW i \in Panes, NEW w, Counted(w, forgotten),
         w.win = windowOf, w.client = shown, NEW x \in Cn!Shown, x # Nobody,
         x \in Cn!Fields => x = w.field, Rightful(lies, standsAt, p, x),
         NEW v, v = Tells(Cn!AddContainer(w, p, i, x), p, i, x),
         Cn!Becomes(v), UNCHANGED Cn!Others
  PROVE  WindowsInv'
  <1>2. /\ forgotten' = forgotten /\ lies' = lies /\ standsAt' = standsAt /\ shifts' = shifts
        /\ forgotten \in Nat /\ lies \in Layouts /\ shifts \in 0..MaxShifts
        /\ standsAt \in [Viewers -> Floor \union {Nobody}]
        /\ Fair(lies, standsAt, windowOf, shown)
    BY DEF Cn!Others, WindowsInv
  <1> DEFINE u == Cn!AddContainer(w, p, i, x)
  <1>3. Counted(u, forgotten) /\ u.win = PutAt(windowOf, p, i, x) /\ u.client = shown
    BY <1>2, AddIs
  <1> HIDE DEF u
  <1>4. Counted(v, forgotten) /\ v.win = u.win /\ v.client = PutAt(shown, p, i, x)
    <2> DEFINE t == Tells(u, p, i, x)
    <2>1. Counted(t, forgotten) /\ t.win = u.win /\ t.client = PutAt(u.client, p, i, x)
      BY <1>2, <1>3, TellIs
    <2>2. v = t
      BY DEF u
    <2> HIDE DEF t
    <2> QED BY <1>3, <2>1, <2>2
  <1>5. \A q \in Viewers, k \in Panes :
          /\ v.win[q][k] = IF q = p /\ k = i THEN x ELSE windowOf[q][k]
          /\ v.client[q][k] = IF q = p /\ k = i THEN x ELSE shown[q][k]
    <2>1. windowOf \in Windowing /\ shown \in Windowing
      BY DEF Counted, Record
    <2>2. \A q \in Viewers, k \in Panes : v.win[q][k] = IF q = p /\ k = i THEN x ELSE windowOf[q][k]
      BY <1>3, <1>4, <2>1, PutAtIs
    <2>3. \A q \in Viewers, k \in Panes : v.client[q][k] = IF q = p /\ k = i THEN x ELSE shown[q][k]
      BY <1>4, <2>1, PutAtIs
    <2> QED BY <2>2, <2>3
  <1>6. Fair(lies, standsAt, v.win, v.client)
    BY <1>2, <1>5 DEF Fair
  <1> QED BY <1>2, <1>4, <1>6, StepIs

(* What a window shows lies where its player may reach it.                 *)
LEMMA CellIs ==
  ASSUME NEW o, NEW l, NEW p \in Viewers, NEW x
  PROVE  /\ x \in Cn!Fields => Cn!CellOf(o, l, x) = Corner
         /\ x \notin Cn!Fields => Cn!CellOf(o, l, x)
              = IF Cn!TopOf(l)[x] \in Viewers THEN o[Cn!TopOf(l)[x]] ELSE Cn!TopOf(l)[x]
  BY DEF Cn!CellOf

(* To be near is mutual, and a cell is near itself.                        *)
LEMMA NearIs == \A c, d \in Floor : /\ Cn!Near(c, d) <=> Cn!Near(d, c)
                                    /\ Cn!Near(c, c)
  BY Names DEF Cn!Near

(* Who may see what is at the cell of the browse field may see the field.  *)
LEMMA ReachesTheField ==
  ASSUME NEW l \in Layouts, NEW o \in [Viewers -> Floor \union {Nobody}], NEW p \in Viewers,
         NEW x \in Cn!Shown, x # Nobody, Rightful(l, o, p, x), Cn!CellOf(o, l, x) = Corner
  PROVE  Cn!Near(o[p], Corner)
  <1>1. o[p] \in Floor /\ Corner \in Floor
    BY Names DEF Rightful
  <1>2. CASE x \in Cn!Fields
    BY <1>2 DEF Rightful
  <1>3. CASE x \in Boxes
    <2>1. x \notin Cn!Fields
      BY <1>3, Names
    <2>2. Corner = IF Cn!TopOf(l)[x] \in Viewers THEN o[Cn!TopOf(l)[x]] ELSE Cn!TopOf(l)[x]
      BY <2>1, CellIs
    <2>3. Reached(l, o, p, x)
      BY <1>3 DEF Rightful
    <2>4. CASE Cn!TopOf(l)[x] = p
      <3>1. o[p] = Corner
        BY <2>2, <2>4
      <3>2. Cn!Near(Corner, Corner)
        BY <1>1, NearIs
      <3> QED BY <3>1, <3>2
    <2>5. CASE Cn!TopOf(l)[x] # p
      <3>1. Cn!TopOf(l)[x] \in Floor /\ Cn!Near(Cn!TopOf(l)[x], o[p])
        BY <2>3, <2>5 DEF Reached
      <3>2. Corner = Cn!TopOf(l)[x]
        BY <2>2, <3>1, Names
      <3>3. Cn!Near(Corner, o[p])
        BY <3>1, <3>2
      <3> QED BY <1>1, <3>3, NearIs
    <2> QED BY <2>4, <2>5
  <1> QED BY <1>2, <1>3 DEF Cn!Shown

(* To move up shows what is around, which lies in the same place, or the   *)
(* browse field of its cell.                                               *)
LEMMA MoveUpIsKept == WindowsInv /\ Cn!MoveUpContainer => WindowsInv'
  <1> SUFFICES ASSUME WindowsInv, Cn!MoveUpContainer PROVE WindowsInv'
    OBVIOUS
  <1> DEFINE inside(c) == c \in Boxes /\ lies[c] \in Boxes
             around(c) == IF inside(c) THEN Cn!Self ELSE Cn!WithField(Cn!Self)
             up(c) == IF inside(c) THEN lies[c] ELSE around(c).field
  <1>1. PICK p \in Viewers, i \in Panes :
          LET c == windowOf[p][i] IN
          /\ standsAt[p] # Nobody /\ c # Nobody
          /\ inside(c) \/ (Cn!CellOf(standsAt, lies, c) = Corner /\ Cn!CanMake)
          /\ Cn!Becomes([Cn!AddContainer(around(c), p, i, up(c)) EXCEPT !.client[p][i] = up(c)])
          /\ UNCHANGED Cn!Others
    BY DEF Cn!MoveUpContainer
  <1> DEFINE c == windowOf[p][i]
             w == around(c)
             x == up(c)
             v == [Cn!AddContainer(w, p, i, x) EXCEPT !.client[p][i] = x]
  <1>2. /\ lies \in Layouts /\ standsAt \in [Viewers -> Floor \union {Nobody}]
        /\ Counted(Cn!Self, forgotten) /\ Fair(lies, standsAt, windowOf, shown) /\ forgotten \in Nat
    BY DEF WindowsInv
  <1>3. c \in Cn!Shown /\ c # Nobody /\ Rightful(lies, standsAt, p, c)
    <2>1. windowOf \in Windowing
      BY <1>2, SelfIs DEF Counted, Record
    <2> QED BY <1>1, <1>2, <2>1 DEF Windowing, Fair
  <1>4. /\ Counted(w, forgotten) /\ w.win = windowOf /\ w.client = shown
        /\ x \in Cn!Shown /\ x # Nobody /\ (x \in Cn!Fields => x = w.field)
        /\ Rightful(lies, standsAt, p, x)
    <2>1. CASE inside(c)
      <3>1. w = Cn!Self /\ x = lies[c] /\ x \in Boxes /\ c \in Boxes
        BY <2>1
      <3>2. Cn!TopOf(lies)[c] = Cn!TopOf(lies)[x]
        <4>1. Uncircled(lies)
          BY <1>2 DEF Layouts
        <4> HIDE DEF c, x
        <4> QED BY <3>1, <4>1, TopIs
      <3> HIDE DEF c, x, w
      <3>3. Rightful(lies, standsAt, p, x)
        BY <1>3, <3>1, <3>2, Names DEF Rightful, Reached
      <3> QED BY <1>2, <3>1, <3>3, SelfIs, Names DEF Cn!Shown
    <2>2. CASE ~inside(c)
      <3>1. w = Cn!WithField(Cn!Self) /\ x = w.field
        BY <2>2
      <3>2. Cn!CellOf(standsAt, lies, c) = Corner /\ (Cn!Self.field # 0 \/ Cn!Self.fields < MaxFields)
        BY <1>1, <2>2, SelfIs DEF Cn!CanMake
      <3>3. /\ Counted(w, forgotten) /\ w.field \in Cn!Fields
            /\ w.win = windowOf /\ w.client = shown
        BY <1>2, <3>1, <3>2, WithFieldIs, SelfIs
      <3> HIDE DEF c, x, w
      <3>4. Cn!Near(standsAt[p], Corner)
        BY <1>2, <1>3, <3>2, ReachesTheField
      <3>5. x \in Cn!Fields /\ x \notin Boxes /\ x # Nobody /\ x \in Cn!Shown
        BY <3>1, <3>3, Names DEF Cn!Shown
      <3>6. standsAt[p] # Nobody
        BY <1>3 DEF Rightful
      <3> QED BY <3>1, <3>3, <3>4, <3>5, <3>6 DEF Rightful
    <2> QED BY <2>1, <2>2
  <1>5. Cn!Becomes(v) /\ UNCHANGED Cn!Others
    BY <1>1
  <1>6. v = Tells(Cn!AddContainer(w, p, i, x), p, i, x)
    BY DEF Tells
  <1> HIDE DEF c, w, x, v
  <1> QED BY <1>4, <1>5, <1>6, MoveUpIs

(* What a window may show is nothing, a container or a browse field, and   *)
(* only one of them.                                                       *)
LEMMA FieldIsShown == /\ Nobody \in Cn!Shown /\ Cn!Fields \subseteq Cn!Shown /\ Boxes \subseteq Cn!Shown
                      /\ \A x \in Cn!Fields : x \notin Boxes /\ x # Nobody
                      /\ \A x \in Cn!Shown : x \in Boxes \/ x \in Cn!Fields \/ x = Nobody
  BY Names DEF Cn!Shown

(* To browse a cell needs to be near it.                                   *)
LEMMA BrowseIsKept == WindowsInv /\ Cn!BrowseField => WindowsInv'
  <1> SUFFICES ASSUME WindowsInv, Cn!BrowseField PROVE WindowsInv'
    OBVIOUS
  <1> DEFINE w == Cn!WithField(Cn!Self)
  <1>1. PICK p \in Viewers :
          LET old == windowOf[p][LastPane] IN
          /\ standsAt[p] # Nobody /\ Cn!Near(standsAt[p], Corner) /\ Cn!CanMake
          /\ Cn!Becomes(IF old # Nobody
                        THEN Cn!CloseContainer(Cn!OnCloseContainer(w, p, old), p, LastPane)
                        ELSE [Cn!AddContainer(w, p, LastPane, w.field) EXCEPT
                               !.client[p][LastPane] = w.field])
          /\ UNCHANGED Cn!Others
    BY DEF Cn!BrowseField
  <1> DEFINE old == windowOf[p][LastPane]
  <1>2. /\ forgotten' = forgotten /\ lies' = lies /\ standsAt' = standsAt /\ shifts' = shifts
        /\ forgotten \in Nat /\ lies \in Layouts /\ shifts \in 0..MaxShifts
        /\ standsAt \in [Viewers -> Floor \union {Nobody}]
        /\ Counted(Cn!Self, forgotten) /\ Fair(lies, standsAt, windowOf, shown)
    BY <1>1 DEF Cn!Others, WindowsInv
  <1>3. /\ Counted(w, forgotten) /\ w.field \in Cn!Fields /\ w.win = windowOf /\ w.client = shown
    <2>1. Cn!Self.field # 0 \/ Cn!Self.fields < MaxFields
      BY <1>1, SelfIs DEF Cn!CanMake
    <2> QED BY <1>2, <2>1, WithFieldIs, SelfIs
  <1>4. windowOf \in Windowing /\ shown \in Windowing /\ LastPane \in Panes /\ old \in Cn!Shown
    <2>1. windowOf \in Windowing /\ shown \in Windowing
      BY <1>3 DEF Counted, Record
    <2> QED BY <2>1, Names DEF Windowing
  <1>5. CASE old # Nobody
    <2> DEFINE u == Cn!OnCloseContainer(w, p, old)
               v == Cn!CloseContainer(u, p, LastPane)
    <2>1. Cn!Becomes(v)
      BY <1>1, <1>5
    <2> HIDE DEF w
    <2>2. Counted(u, forgotten) /\ u.win = windowOf /\ u.client = Notice(w, p, old, Nobody)
      <3> HIDE DEF old
      <3> QED BY <1>2, <1>3, <1>4, SendIs
    <2> HIDE DEF u
    <2>3. Counted(v, forgotten) /\ v.win = PutAt(windowOf, p, LastPane, Nobody) /\ v.client = u.client
      BY <1>2, <1>4, <2>2, CloseIs
    <2>4. \A q \in Viewers, k \in Panes : v.client[q][k] = IF q = p /\ windowOf[q][k] = old THEN Nobody ELSE shown[q][k]
      <3>1. w \in Record
        BY <1>3 DEF Counted
      <3> HIDE DEF old, v
      <3> QED BY <1>3, <1>4, <2>2, <2>3, <3>1, NoticeIs
    <2>5. \A q \in Viewers, k \in Panes : v.win[q][k] = IF q = p /\ k = LastPane THEN Nobody ELSE windowOf[q][k]
      BY <1>4, <2>3, PutAtIs, FieldIsShown
    <2> HIDE DEF v
    <2>6. Fair(lies, standsAt, v.win, v.client)
      BY <1>2, <2>4, <2>5 DEF Fair
    <2> QED BY <1>2, <2>1, <2>3, <2>6, StepIs
  <1>6. CASE old = Nobody
    <2> DEFINE x == w.field
               v == [Cn!AddContainer(w, p, LastPane, x) EXCEPT !.client[p][LastPane] = x]
    <2>1. Cn!Becomes(v) /\ UNCHANGED Cn!Others
      BY <1>1, <1>6
    <2>2. v = Tells(Cn!AddContainer(w, p, LastPane, x), p, LastPane, x)
      BY DEF Tells
    <2> HIDE DEF w, v
    <2>3. Rightful(lies, standsAt, p, x) /\ x \in Cn!Shown /\ x # Nobody
      BY <1>1, <1>3, FieldIsShown DEF Rightful
    <2>4. x \in Cn!Fields => x = w.field
      OBVIOUS
    <2> HIDE DEF x
    <2> QED BY <1>3, <1>4, <2>1, <2>2, <2>3, <2>4, MoveUpIs
  <1> QED BY <1>5, <1>6

(* A window that is closed lets go of the field.                           *)
LEMMA CloseIsKept == WindowsInv /\ Cn!PlayerCloseContainer => WindowsInv'
  <1> SUFFICES ASSUME WindowsInv, Cn!PlayerCloseContainer PROVE WindowsInv'
    OBVIOUS
  <1>1. PICK p \in Viewers, i \in Panes :
          /\ Cn!Becomes([Cn!CloseContainer(Cn!Self, p, i) EXCEPT !.client[p][i] = Nobody])
          /\ UNCHANGED Cn!Others
    BY DEF Cn!PlayerCloseContainer
  <1> DEFINE u == Cn!CloseContainer(Cn!Self, p, i)
             v == Tells(u, p, i, Nobody)
  <1>2. /\ forgotten' = forgotten /\ lies' = lies /\ standsAt' = standsAt /\ shifts' = shifts
        /\ forgotten \in Nat /\ lies \in Layouts /\ shifts \in 0..MaxShifts
        /\ standsAt \in [Viewers -> Floor \union {Nobody}]
        /\ Counted(Cn!Self, forgotten) /\ Fair(lies, standsAt, windowOf, shown)
    BY <1>1 DEF Cn!Others, WindowsInv
  <1>3. Counted(u, forgotten) /\ u.win = PutAt(windowOf, p, i, Nobody) /\ u.client = shown
    BY <1>2, CloseIs, SelfIs
  <1>4. Cn!Becomes(v)
    BY <1>1 DEF Tells
  <1> HIDE DEF u
  <1>5. Counted(v, forgotten) /\ v.win = u.win /\ v.client = PutAt(shown, p, i, Nobody)
    BY <1>2, <1>3, TellIs, FieldIsShown
  <1>6. windowOf \in Windowing /\ shown \in Windowing
    BY <1>2, SelfIs DEF Counted, Record
  <1> HIDE DEF v
  <1>7. \A q \in Viewers, k \in Panes : v.win[q][k] = IF q = p /\ k = i THEN Nobody ELSE windowOf[q][k]
    BY <1>3, <1>5, <1>6, PutAtIs, FieldIsShown
  <1>8. \A q \in Viewers, k \in Panes : v.client[q][k] = IF q = p /\ k = i THEN Nobody ELSE shown[q][k]
    BY <1>5, <1>6, PutAtIs, FieldIsShown
  <1>9. Fair(lies, standsAt, v.win, v.client)
    BY <1>2, <1>7, <1>8 DEF Fair
  <1> QED BY <1>2, <1>4, <1>5, <1>9, StepIs

(* The event lets go of the field that is there, which is its own: the     *)
(* field cannot have ended before.                                         *)
LEMMA TimerIsKept == WindowsInv /\ Cn!Timer => WindowsInv'
  <1> SUFFICES ASSUME WindowsInv, Cn!Timer PROVE WindowsInv'
    OBVIOUS
  <1> DEFINE v == [Cn!LetGo(Cn!Self, IF Cn!Self.field = 0 THEN Nobody ELSE Cn!Self.field) EXCEPT !.timers = @ - 1]
  <1>1. /\ Cn!Self.timers > 0 /\ UNCHANGED Cn!Others
        /\ Cn!Becomes([Cn!LetGo(Cn!Self, IF field = 0 THEN Nobody ELSE field) EXCEPT !.timers = @ - 1])
    BY SelfIs DEF Cn!Timer
  <1>2. Cn!Becomes(v)
    BY <1>1, SelfIs
  <1>3. /\ forgotten' = forgotten /\ lies' = lies /\ standsAt' = standsAt /\ shifts' = shifts
        /\ forgotten \in Nat /\ lies \in Layouts /\ shifts \in 0..MaxShifts
        /\ standsAt \in [Viewers -> Floor \union {Nobody}]
        /\ Counted(Cn!Self, forgotten) /\ Fair(lies, standsAt, windowOf, shown)
    BY <1>1 DEF Cn!Others, WindowsInv
  <1>4. Counted(v, forgotten) /\ v.win = windowOf /\ v.client = shown
    BY <1>1, <1>3, TimerIs, SelfIs
  <1> HIDE DEF v
  <1>5. Fair(lies, standsAt, v.win, v.client)
    BY <1>3, <1>4
  <1> QED BY <1>2, <1>3, <1>4, <1>5, StepIs

(* Windows on containers come and go without the browse field.             *)
LEMMA StillCounted ==
  ASSUME NEW w, NEW n \in Nat, Counted(w, n), NEW win \in Windowing, NEW cl \in Windowing,
         \A q \in Viewers, j \in Panes :
           win[q][j] = w.win[q][j] \/ (win[q][j] = Nobody /\ w.win[q][j] \notin Cn!Fields)
  PROVE  LET v == Rec(win, cl, w.field, w.refs, w.fields, w.timers) IN
         Counted(v, n) /\ v.win = win /\ v.client = cl
  <1> DEFINE v == Rec(win, cl, w.field, w.refs, w.fields, w.timers)
  <1>0. w \in Record
    BY DEF Counted
  <1>1. /\ w.field \in Cn!Fields \union {0} /\ w.refs \in Int /\ w.fields \in 0..MaxFields
        /\ w.timers \in Nat
    BY <1>0, RecordIs
  <1>2. /\ v \in Record /\ v.win = win /\ v.client = cl /\ v.field = w.field /\ v.refs = w.refs
        /\ v.fields = w.fields /\ v.timers = w.timers
    BY <1>1 DEF Rec, Record
  <1> HIDE DEF v
  <1>3. OnlyField(v.win, v.field)
    <2>1. OnlyField(w.win, w.field)
      BY DEF Counted
    <2> QED BY <1>2, <2>1, Names DEF OnlyField
  <1>4. w.field # 0 => Showing(v.win, v.field) = Showing(w.win, w.field)
    <2> SUFFICES ASSUME w.field # 0 PROVE Showing(v.win, v.field) = Showing(w.win, w.field)
      OBVIOUS
    <2>1. w.field \in Cn!Fields /\ w.field # Nobody
      BY <1>1, Names
    <2>2. \A q \in Viewers, j \in Panes : v.win[q][j] = w.field <=> w.win[q][j] = w.field
      BY <1>2, <2>1
    <2>3. Showing(v.win, w.field) = Showing(w.win, w.field)
      BY <2>2, SameShowing
    <2> QED BY <1>2, <2>3
  <1>5. Counted(v, n)
    BY <1>2, <1>3, <1>4 DEF Counted
  <1> QED BY <1>2, <1>5 DEF v

(* A player walks: the windows on what is no longer near are closed.       *)
Faraway(p, c, o) == {x \in Cn!Shown \ {Nobody} :
                      (\E i \in Panes : windowOf[p][i] = x) /\ ~Cn!Near(Cn!CellOf(o, lies, x), c)}
Leaving(w, p, far) == {i \in Panes : w.win[p][i] \in Boxes /\ Cn!Outwards(lies, w.win[p][i]) \intersect far # {}}
Emptied(w, p, G) ==
  Rec(ClosedAll(w.win, p, G), ClosedAll(w.client, p, G), w.field, w.refs, w.fields, w.timers)

(* Several windows of containers are closed at once.                       *)
LEMMA EmptiedIs ==
  ASSUME NEW w \in Record, NEW p \in Viewers, NEW G
  PROVE  [w EXCEPT !.win[p] = [i \in Panes |-> IF i \in G THEN Nobody ELSE @[i]],
                   !.client[p] = [i \in Panes |-> IF i \in G THEN Nobody ELSE @[i]]]
           = Emptied(w, p, G)
  <1> DEFINE a == ClosedAll(w.win, p, G)
             b == ClosedAll(w.client, p, G)
             v == [w EXCEPT !.win = a]
  <1>1. v = Rec(a, w.client, w.field, w.refs, w.fields, w.timers)
    <2> HIDE DEF a
    <2> QED BY DEF Rec, Record
  <1>2. [v EXCEPT !.client = b] = Rec(a, b, w.field, w.refs, w.fields, w.timers)
    <2> HIDE DEF v, a, b
    <2> QED BY <1>1 DEF Rec
  <1>3. [w EXCEPT !.win = a, !.client = b] = Emptied(w, p, G)
    BY <1>2 DEF Emptied
  <1> QED BY <1>3 DEF ClosedAll

(* To walk closes first the windows of a browse field that is out of       *)
(* reach, then those of containers.                                        *)
LEMMA WalkIs ==
  ASSUME Cn!Walk, Counted(Cn!Self, forgotten)
  PROVE  \E p \in Viewers, c \in Floor :
           LET o == [standsAt EXCEPT ![p] = c]
               far == Faraway(p, c, o)
               inField == far \intersect Cn!Fields
               w == IF inField = {} THEN Cn!Self
                    ELSE Cn!AutoCloseContainers(Cn!Self, p, CHOOSE x \in inField : TRUE, lies)
           IN  /\ standsAt[p] # Nobody /\ standsAt' = o
               /\ w \in Record => Cn!Becomes(Emptied(w, p, Leaving(w, p, far)))
               /\ UNCHANGED <<lies, forgotten, shifts>>
  <1>1. PICK p \in Viewers, c \in Floor :
          LET o == [standsAt EXCEPT ![p] = c]
              far == Faraway(p, c, o)
              inField == far \intersect Cn!Fields
              w == IF inField = {} THEN Cn!Self
                   ELSE Cn!AutoCloseContainers(Cn!Self, p, CHOOSE x \in inField : TRUE, lies)
              u == [w EXCEPT
                     !.win[p] = [i \in Panes |-> IF @[i] \in Boxes /\ Cn!Outwards(lies, @[i]) \intersect far # {}
                                                 THEN Nobody ELSE @[i]],
                     !.client[p] = [i \in Panes |->
                       IF w.win[p][i] \in Boxes /\ Cn!Outwards(lies, w.win[p][i]) \intersect far # {}
                       THEN Nobody ELSE @[i]]]
          IN  /\ standsAt[p] # Nobody /\ Cn!Near(c, standsAt[p]) /\ c # standsAt[p]
              /\ standsAt' = o /\ Cn!Becomes(u)
              /\ UNCHANGED <<lies, forgotten, shifts>>
    BY Zenon DEF Cn!Walk, Faraway
  <1> DEFINE o == [standsAt EXCEPT ![p] = c]
             far == Faraway(p, c, o)
             inField == far \intersect Cn!Fields
             w == IF inField = {} THEN Cn!Self
                  ELSE Cn!AutoCloseContainers(Cn!Self, p, CHOOSE x \in inField : TRUE, lies)
             u == [w EXCEPT
                     !.win[p] = [i \in Panes |-> IF @[i] \in Boxes /\ Cn!Outwards(lies, @[i]) \intersect far # {}
                                                 THEN Nobody ELSE @[i]],
                     !.client[p] = [i \in Panes |->
                       IF w.win[p][i] \in Boxes /\ Cn!Outwards(lies, w.win[p][i]) \intersect far # {}
                       THEN Nobody ELSE @[i]]]
  <1>2. /\ standsAt[p] # Nobody /\ standsAt' = o /\ Cn!Becomes(u)
        /\ UNCHANGED <<lies, forgotten, shifts>>
    BY <1>1
  <1>3. ASSUME w \in Record PROVE u = Emptied(w, p, Leaving(w, p, far))
    <2> HIDE DEF w, far
    <2>1. \A i \in Panes : i \in Leaving(w, p, far)
            <=> w.win[p][i] \in Boxes /\ Cn!Outwards(lies, w.win[p][i]) \intersect far # {}
      BY DEF Leaving
    <2> DEFINE G == Leaving(w, p, far)
    <2>2. u = [w EXCEPT !.win[p] = [i \in Panes |-> IF i \in G THEN Nobody ELSE @[i]],
                        !.client[p] = [i \in Panes |-> IF i \in G THEN Nobody ELSE @[i]]]
      <3> HIDE DEF G
      <3>1. \A i \in Panes : i \in G
              <=> w.win[p][i] \in Boxes /\ Cn!Outwards(lies, w.win[p][i]) \intersect far # {}
        BY <2>1 DEF G
      <3>2. [i \in Panes |-> IF w.win[p][i] \in Boxes /\ Cn!Outwards(lies, w.win[p][i]) \intersect far # {}
                             THEN Nobody ELSE w.win[p][i]]
              = [i \in Panes |-> IF i \in G THEN Nobody ELSE w.win[p][i]]
        BY <3>1
      <3>3. [i \in Panes |-> IF w.win[p][i] \in Boxes /\ Cn!Outwards(lies, w.win[p][i]) \intersect far # {}
                             THEN Nobody ELSE w.client[p][i]]
              = [i \in Panes |-> IF i \in G THEN Nobody ELSE w.client[p][i]]
        BY <3>1
      <3> QED BY <3>2, <3>3, Zenon
    <2>3. [w EXCEPT !.win[p] = [i \in Panes |-> IF i \in G THEN Nobody ELSE @[i]],
                    !.client[p] = [i \in Panes |-> IF i \in G THEN Nobody ELSE @[i]]]
            = Emptied(w, p, G)
      <3> HIDE DEF G
      <3> QED BY <1>3, EmptiedIs
    <2> QED BY <2>2, <2>3
  <1> HIDE DEF u
  <1>4. w \in Record => Cn!Becomes(Emptied(w, p, Leaving(w, p, far)))
    BY <1>2, <1>3
  <1> QED BY <1>2, <1>4

(* What is left open is near the new place.                                *)
LEMMA WalkIsKept == WindowsInv /\ Cn!Walk => WindowsInv'
  <1> SUFFICES ASSUME WindowsInv, Cn!Walk PROVE WindowsInv'
    OBVIOUS
  <1>0. /\ forgotten \in Nat /\ lies \in Layouts /\ shifts \in 0..MaxShifts
        /\ standsAt \in [Viewers -> Floor \union {Nobody}]
        /\ Counted(Cn!Self, forgotten) /\ Fair(lies, standsAt, windowOf, shown)
    BY DEF WindowsInv
  <1>1. PICK p \in Viewers, c \in Floor :
          LET o == [standsAt EXCEPT ![p] = c]
              far == Faraway(p, c, o)
              inField == far \intersect Cn!Fields
              w == IF inField = {} THEN Cn!Self
                   ELSE Cn!AutoCloseContainers(Cn!Self, p, CHOOSE x \in inField : TRUE, lies)
          IN  /\ standsAt[p] # Nobody /\ standsAt' = o
              /\ w \in Record => Cn!Becomes(Emptied(w, p, Leaving(w, p, far)))
              /\ UNCHANGED <<lies, forgotten, shifts>>
    BY <1>0, WalkIs
  <1> DEFINE o == [standsAt EXCEPT ![p] = c]
             far == Faraway(p, c, o)
             inField == far \intersect Cn!Fields
             f == CHOOSE x \in inField : TRUE
             w == IF inField = {} THEN Cn!Self ELSE Cn!AutoCloseContainers(Cn!Self, p, f, lies)
             shut == IF inField = {} THEN {} ELSE Gone(Cn!Self, p, f, lies)
             G == Leaving(w, p, far)
             v == Emptied(w, p, G)
  <1>2. /\ standsAt[p] # Nobody /\ standsAt' = o /\ UNCHANGED <<lies, forgotten, shifts>>
        /\ w \in Record => Cn!Becomes(v)
    BY <1>1
  <1>3. o \in [Viewers -> Floor \union {Nobody}] /\ o[p] = c /\ \A q \in Viewers \ {p} : o[q] = standsAt[q]
    BY <1>0
  <1> HIDE DEF o
  <1>4. windowOf \in Windowing /\ shown \in Windowing /\ OnlyField(windowOf, field)
    BY <1>0, SelfIs DEF Counted, Record
  <1>5. /\ Counted(w, forgotten)
        /\ \A q \in Viewers, j \in Panes :
             /\ w.win[q][j] = IF q = p /\ j \in shut THEN Nobody ELSE windowOf[q][j]
             /\ w.client[q][j] = IF q = p /\ j \in shut THEN Nobody ELSE shown[q][j]
    <2>1. CASE inField = {}
      BY <1>0, <2>1, SelfIs
    <2>2. CASE inField # {}
      <3> HIDE DEF inField, f
      <3>1. /\ Counted(w, forgotten)
            /\ w.win = ClosedAll(windowOf, p, shut) /\ w.client = ClosedAll(shown, p, shut)
        BY <1>0, <2>2, AutoCloseIs, SelfIs
      <3> HIDE DEF w, shut
      <3> QED BY <1>4, <3>1, ClosedAllIs
    <2> QED BY <2>1, <2>2
  <1>6. inField # {} => \A j \in Panes : windowOf[p][j] \in Cn!Fields => j \in shut
    <2> SUFFICES ASSUME inField # {}, NEW j \in Panes, windowOf[p][j] \in Cn!Fields PROVE j \in shut
      OBVIOUS
    <2>1. f \in inField
      OBVIOUS
    <2>2. \E i \in Panes : windowOf[p][i] = f
      BY <2>1 DEF Faraway
    <2>3. windowOf[p][j] = f
      BY <1>4, <2>1, <2>2 DEF OnlyField
    <2>4. f \in Cn!Outwards(lies, windowOf[p][j])
      <3>1. Uncircled(lies)
        BY <1>0 DEF Layouts
      <3> HIDE DEF f
      <3> QED BY <2>3, <3>1, OutwardsIs
    <2>5. windowOf[p][j] # Nobody
      BY FieldIsShown
    <2>6. shut = Gone(Cn!Self, p, f, lies)
      OBVIOUS
    <2> HIDE DEF f, shut
    <2> QED BY <2>4, <2>5, <2>6, SelfIs DEF Gone
  <1>7. w.win \in Windowing /\ w.client \in Windowing /\ w \in Record
    BY <1>5 DEF Counted, Record
  <1> HIDE DEF shut, w, f
  <1>8. \A q \in Viewers, j \in Panes :
          /\ v.win[q][j] = IF q = p /\ j \in G THEN Nobody ELSE w.win[q][j]
          /\ v.client[q][j] = IF q = p /\ j \in G THEN Nobody ELSE w.client[q][j]
    <2> HIDE DEF G
    <2>1. v.win = ClosedAll(w.win, p, G) /\ v.client = ClosedAll(w.client, p, G)
      BY DEF Emptied, Rec
    <2> QED BY <1>7, <2>1, ClosedAllIs
  <1>9. Counted(v, forgotten)
    <2> DEFINE win == ClosedAll(w.win, p, G)
               cl == ClosedAll(w.client, p, G)
    <2>1. win \in Windowing /\ cl \in Windowing
      BY <1>7, ClosedAllIs
    <2>2. \A q \in Viewers, j \in Panes :
            win[q][j] = w.win[q][j] \/ (win[q][j] = Nobody /\ w.win[q][j] \notin Cn!Fields)
      <3>1. \A q \in Viewers, j \in Panes : win[q][j] = IF q = p /\ j \in G THEN Nobody ELSE w.win[q][j]
        BY <1>7, ClosedAllIs
      <3>2. \A j \in G : w.win[p][j] \notin Cn!Fields
        BY FieldIsShown DEF Leaving
      <3> HIDE DEF win, G
      <3> QED BY <3>1, <3>2
    <2>3. v = Rec(win, cl, w.field, w.refs, w.fields, w.timers)
      BY DEF Emptied
    <2> HIDE DEF win, cl, v
    <2> QED BY <1>0, <1>5, <2>1, <2>2, <2>3, StillCounted
  <1>10. ASSUME NEW q \in Viewers, NEW j \in Panes, v.win[q][j] # Nobody
         PROVE  Rightful(lies, o, q, v.win[q][j])
    <2> DEFINE y == v.win[q][j]
    <2>1. y = w.win[q][j] /\ y = windowOf[q][j] /\ ~(q = p /\ j \in G) /\ ~(q = p /\ j \in shut) /\ y # Nobody
      BY <1>5, <1>8, <1>10
    <2>2. Rightful(lies, standsAt, q, y) /\ y \in Cn!Shown
      BY <1>0, <1>4, <2>1 DEF Fair, Windowing
    <2> SUFFICES Rightful(lies, o, q, y)
      OBVIOUS
    <2> HIDE DEF y, v
    <2>3. CASE q # p
      BY <1>3, <2>2, <2>3 DEF Rightful, Reached
    <2>4. CASE q = p /\ y \in Boxes
      <3>1. y \in Cn!Outwards(lies, y)
        BY <1>0, <2>4, OutwardsClosed
      <3>2. y \notin far
        <4> HIDE DEF far
        <4> QED BY <2>1, <2>4, <3>1 DEF Leaving
      <3>3. Cn!Near(Cn!CellOf(o, lies, y), c)
        BY <2>1, <2>2, <2>4, <3>2 DEF Faraway
      <3>4. y \notin Cn!Fields
        BY <2>4, FieldIsShown
      <3>5. CASE Cn!TopOf(lies)[y] = p
        BY <1>3, <2>4, <3>4, <3>5, Names DEF Rightful, Reached
      <3>6. CASE Cn!TopOf(lies)[y] # p
        <4>1. Cn!TopOf(lies)[y] \in Floor
          BY <2>2, <2>4, <3>6 DEF Rightful, Reached
        <4>2. Cn!CellOf(o, lies, y) = Cn!TopOf(lies)[y]
          BY <3>4, <4>1, CellIs, Names
        <4> QED BY <1>3, <2>4, <3>3, <3>4, <4>1, <4>2, Names DEF Rightful, Reached
      <3> QED BY <3>5, <3>6
    <2>5. CASE q = p /\ y \in Cn!Fields
      <3>1. inField = {}
        <4> HIDE DEF inField
        <4> QED BY <1>6, <2>1, <2>5
      <3>2. Cn!Near(Cn!CellOf(o, lies, y), c)
        BY <2>1, <2>2, <2>5, <3>1 DEF Faraway
      <3>3. Cn!CellOf(o, lies, y) = Corner
        BY <2>5, CellIs
      <3>4. Cn!Near(c, Corner)
        BY <3>2, <3>3, NearIs, Names
      <3> QED BY <1>3, <2>5, <3>4, FieldIsShown, Names DEF Rightful
    <2> QED BY <2>1, <2>2, <2>3, <2>4, <2>5, FieldIsShown
  <1>11. Fair(lies, o, v.win, v.client)
    <2>1. \A q \in Viewers, j \in Panes :
            /\ v.win[q][j] # Nobody => Rightful(lies, o, q, v.win[q][j])
            /\ v.client[q][j] \in {Nobody, v.win[q][j]} \/ (v.client[q][j] = shown[q][j] /\ v.win[q][j] = windowOf[q][j])
      <3> HIDE DEF v, G
      <3> QED BY <1>5, <1>8, <1>10
    <2> HIDE DEF v
    <2> QED BY <1>0, <2>1, StaysFair
  <1>12. Cn!Becomes(v)
    BY <1>2, <1>7
  <1> HIDE DEF v
  <1>13. /\ forgotten' = forgotten /\ forgotten' \in Nat /\ lies' \in Layouts /\ shifts' \in 0..MaxShifts
         /\ standsAt' \in [Viewers -> Floor \union {Nobody}] /\ lies = lies' /\ o = standsAt'
    BY <1>0, <1>2, <1>3
  <1> QED BY <1>9, <1>11, <1>12, <1>13, StepIs

(* A container is moved: those who are told close what shows it or see it  *)
(* again, and what they keep is within reach.                              *)
Moved(c, to) == Shifted(lies, c, to)

(* One who is told either closes all windows of what was moved, or may     *)
(* reach it still.                                                         *)
LEMMA NoticedIs ==
  ASSUME WindowsInv, NEW p \in Viewers, NEW c \in Boxes, NEW to \in Spots,
         to \in Boxes => c \notin Cn!Outwards(lies, to)
  PROVE  LET k == Moved(c, to)
             v == Cn!Noticed(Cn!Self, p, c, k) IN
         /\ v.win \in Windowing /\ v.client \in Windowing
         /\ \A i \in Panes :
              /\ v.win[p][i] = windowOf[p][i] \/ (v.win[p][i] = Nobody /\ windowOf[p][i] \notin Cn!Fields)
              /\ v.win[p][i] # Nobody => Rightful(k, standsAt, p, v.win[p][i])
              /\ v.client[p][i] \in {Nobody, v.win[p][i]} \/ (v.client[p][i] = shown[p][i] /\ v.win[p][i] = windowOf[p][i])
  <1> DEFINE k == Moved(c, to)
             v == Cn!Noticed(Cn!Self, p, c, k)
             t == Cn!TopOf(k)[c]
             leaves == t = Nobody \/ ~Cn!Near(Cn!CellOf(standsAt, k, c), standsAt[p]) \/ (t \in Viewers /\ t # p)
  <1>0. /\ forgotten \in Nat /\ lies \in Layouts
        /\ standsAt \in [Viewers -> Floor \union {Nobody}]
        /\ Counted(Cn!Self, forgotten) /\ Fair(lies, standsAt, windowOf, shown)
    BY DEF WindowsInv
  <1>1. v = IF leaves THEN Cn!AutoCloseContainers(Cn!Self, p, c, k) ELSE Cn!OnSendContainer(Cn!Self, p, c)
    BY DEF Cn!Noticed
  <1>2. /\ k \in Layouts
        /\ \A y \in Boxes : /\ c \notin Cn!Outwards(k, y) => Cn!TopOf(k)[y] = Cn!TopOf(lies)[y]
                            /\ c \in Cn!Outwards(k, y) => c \in Cn!Outwards(lies, y)
    BY <1>0, ShiftedIsLayout, TopWhenShifted DEF Moved
  <1>3. windowOf \in Windowing /\ shown \in Windowing /\ Cn!Self \in Record
    BY <1>0, SelfIs DEF Counted, Record
  <1> HIDE DEF k
  <1>4. \A y \in Boxes : c \notin Cn!Outwards(k, y) /\ Rightful(lies, standsAt, p, y)
                           => Rightful(k, standsAt, p, y)
    BY <1>2, FieldIsShown DEF Rightful, Reached
  <1>5. \A y \in Cn!Fields : Rightful(lies, standsAt, p, y) => Rightful(k, standsAt, p, y)
    BY FieldIsShown DEF Rightful
  <1>6. CASE leaves
    <2> DEFINE gone == Gone(Cn!Self, p, c, k)
    <2>1. v = Cn!AutoCloseContainers(Cn!Self, p, c, k)
      BY <1>1, <1>6
    <2>2. Counted(v, forgotten) /\ v.win = ClosedAll(windowOf, p, gone) /\ v.client = ClosedAll(shown, p, gone)
      BY <1>0, <2>1, AutoCloseIs, SelfIs
    <2> HIDE DEF v
    <2>3. \A i \in Panes : /\ v.win[p][i] = IF i \in gone THEN Nobody ELSE windowOf[p][i]
                           /\ v.client[p][i] = IF i \in gone THEN Nobody ELSE shown[p][i]
      <3> HIDE DEF gone
      <3> QED BY <1>3, <2>2, ClosedAllIs
    <2>4. \A i \in gone : windowOf[p][i] \notin Cn!Fields
      <3>1. ASSUME NEW i \in gone, windowOf[p][i] \in Cn!Fields PROVE FALSE
        <4> DEFINE y == windowOf[p][i]
        <4>1. y \notin Boxes /\ Uncircled(k)
          BY <1>2, <3>1, FieldIsShown DEF Layouts
        <4>2. c \in Cn!Outwards(k, y)
          BY <4>1, SelfIs DEF Gone
        <4>3. Cn!Outwards(k, y) = {y}
          <5> HIDE DEF y
          <5>1. Cn!Outwards(k, y) = {y} \union (IF y \in Boxes /\ k[y] \in Boxes THEN Cn!Outwards(k, k[y]) ELSE {})
            BY <4>1, OutwardsIs
          <5> QED BY <4>1, <5>1
        <4> QED BY <4>1, <4>2, <4>3
      <3> QED BY <3>1
    <2>5. ASSUME NEW i \in Panes, i \notin gone, windowOf[p][i] # Nobody
          PROVE  Rightful(k, standsAt, p, windowOf[p][i])
      <3> DEFINE y == windowOf[p][i]
      <3>1. c \notin Cn!Outwards(k, y)
        BY <2>5, SelfIs DEF Gone
      <3>2. Rightful(lies, standsAt, p, y) /\ y \in Cn!Shown
        BY <1>0, <1>3, <2>5 DEF Fair, Windowing
      <3> HIDE DEF y
      <3>3. y # Nobody => Rightful(k, standsAt, p, y)
        BY <1>4, <1>5, <3>1, <3>2, FieldIsShown
      <3> QED BY <2>5, <3>3 DEF y
    <2>6. \A i \in Panes : shown[p][i] \in {Nobody, windowOf[p][i]}
      BY <1>0 DEF Fair
    <2>7. v.win \in Windowing /\ v.client \in Windowing
      BY <2>2 DEF Counted, Record
    <2> HIDE DEF gone
    <2>8. \A i \in Panes :
                /\ v.win[p][i] = windowOf[p][i] \/ (v.win[p][i] = Nobody /\ windowOf[p][i] \notin Cn!Fields)
                /\ v.win[p][i] # Nobody => Rightful(k, standsAt, p, v.win[p][i])
                /\ v.client[p][i] \in {Nobody, v.win[p][i]}
      BY <2>3, <2>4, <2>5, <2>6
    <2> QED BY <2>7, <2>8 DEF k, v
  <1>7. CASE ~leaves
    <2>1. v = Cn!OnSendContainer(Cn!Self, p, c)
      BY <1>1, <1>7
    <2>2. Counted(v, forgotten) /\ v.win = windowOf /\ v.client = Notice(Cn!Self, p, c, c)
      BY <1>0, <2>1, SendIs, SelfIs, FieldIsShown
    <2> HIDE DEF v
    <2>3. \A i \in Panes : v.client[p][i] = IF windowOf[p][i] = c THEN c ELSE shown[p][i]
      BY <1>3, <2>2, NoticeIs, SelfIs, FieldIsShown
    <2>4. ASSUME NEW i \in Panes, windowOf[p][i] # Nobody
          PROVE  Rightful(k, standsAt, p, windowOf[p][i])
      <3> DEFINE y == windowOf[p][i]
      <3>1. Rightful(lies, standsAt, p, y) /\ y \in Cn!Shown
        BY <1>0, <1>3, <2>4 DEF Fair, Windowing
      <3> SUFFICES Rightful(k, standsAt, p, y)
        OBVIOUS
      <3>2. y # Nobody
        BY <2>4
      <3> HIDE DEF y
      <3>3. CASE y \in Cn!Fields \/ (y \in Boxes /\ c \notin Cn!Outwards(k, y))
        BY <1>4, <1>5, <3>1, <3>3
      <3>4. CASE y \in Boxes /\ c \in Cn!Outwards(k, y)
        <4>1. Cn!TopOf(k)[y] = t
          BY <1>2, <3>4, SameTop
        <4>2. t \in Floor \union Viewers \union {Nobody}
          BY <1>2, TopTyped
        <4>3. c \notin Cn!Fields
          BY FieldIsShown
        <4>4. t # Nobody /\ (t \in Viewers => t = p) /\ Cn!Near(Cn!CellOf(standsAt, k, c), standsAt[p])
          BY <1>7
        <4>5. t \in Floor => Cn!CellOf(standsAt, k, c) = t
          BY <4>3, CellIs, Names
        <4> HIDE DEF t
        <4>6. Reached(k, standsAt, p, y)
          BY <4>1, <4>2, <4>4, <4>5 DEF Reached
        <4> QED BY <3>1, <3>4, <4>6, FieldIsShown DEF Rightful
      <3> QED BY <3>1, <3>2, <3>3, <3>4, FieldIsShown
    <2>5. v.win \in Windowing /\ v.client \in Windowing
      BY <2>2 DEF Counted, Record
    <2>8. \A i \in Panes :
                /\ v.win[p][i] = windowOf[p][i]
                /\ v.win[p][i] # Nobody => Rightful(k, standsAt, p, v.win[p][i])
                /\ v.client[p][i] = v.win[p][i] \/ v.client[p][i] = shown[p][i]
      BY <2>2, <2>3, <2>4
    <2> QED BY <2>5, <2>8 DEF k, v
  <1> QED BY <1>6, <1>7

(* Nobody else has it open: who carried it would have been told.           *)
LEMMA UntoldIs ==
  ASSUME WindowsInv, NEW p \in Viewers, NEW c \in Boxes, NEW to \in Spots,
         to \in Boxes => c \notin Cn!Outwards(lies, to),
         standsAt[p] # Nobody => Cn!TopOf(lies)[c] \in Viewers /\ p # Cn!TopOf(lies)[c],
         NEW i \in Panes, windowOf[p][i] # Nobody
  PROVE  Rightful(Moved(c, to), standsAt, p, windowOf[p][i])
  <1> DEFINE k == Moved(c, to)
             y == windowOf[p][i]
  <1>0. /\ lies \in Layouts /\ Counted(Cn!Self, forgotten) /\ Fair(lies, standsAt, windowOf, shown)
    BY DEF WindowsInv
  <1>1. \A x \in Boxes : /\ c \notin Cn!Outwards(k, x) => Cn!TopOf(k)[x] = Cn!TopOf(lies)[x]
                         /\ c \in Cn!Outwards(k, x) => c \in Cn!Outwards(lies, x)
    BY <1>0, TopWhenShifted DEF Moved
  <1>2. y \in Cn!Shown /\ Rightful(lies, standsAt, p, y)
    <2>1. windowOf \in Windowing
      BY <1>0, SelfIs DEF Counted, Record
    <2> QED BY <1>0, <2>1 DEF Fair, Windowing
  <1>3. y # Nobody
    OBVIOUS
  <1>4. Cn!TopOf(lies)[c] \in Viewers /\ p # Cn!TopOf(lies)[c]
    BY <1>2 DEF Rightful
  <1> SUFFICES Rightful(k, standsAt, p, y)
    OBVIOUS
  <1> HIDE DEF k, y
  <1>5. CASE y \in Cn!Fields
    BY <1>2, <1>5, FieldIsShown DEF Rightful
  <1>6. CASE y \in Boxes
    <2>1. c \notin Cn!Outwards(lies, y)
      <3>1. ASSUME c \in Cn!Outwards(lies, y) PROVE FALSE
        <4>1. Cn!TopOf(lies)[c] = Cn!TopOf(lies)[y]
          BY <1>0, <1>6, <3>1, SameTop
        <4>2. Reached(lies, standsAt, p, y)
          BY <1>2, <1>6 DEF Rightful
        <4> QED BY <1>4, <4>1, <4>2, Names DEF Reached
      <3> QED BY <3>1
    <2>2. Cn!TopOf(k)[y] = Cn!TopOf(lies)[y]
      BY <1>1, <1>6, <2>1
    <2> QED BY <1>2, <1>6, <2>2, FieldIsShown DEF Rightful, Reached
  <1> QED BY <1>2, <1>3, <1>5, <1>6, FieldIsShown

(* All who are told change their own windows, and nobody else.             *)
LEMMA ToldAllIs ==
  ASSUME NEW w \in Record, NEW after
  PROVE  Cn!ToldAll(w, after)
           = Rec([p \in Viewers |-> IF p \in DOMAIN after THEN after[p].win[p] ELSE w.win[p]],
                 [p \in Viewers |-> IF p \in DOMAIN after THEN after[p].client[p] ELSE w.client[p]],
                 w.field, w.refs, w.fields, w.timers)
  <1> DEFINE a == [p \in Viewers |-> IF p \in DOMAIN after THEN after[p].win[p] ELSE w.win[p]]
             b == [p \in Viewers |-> IF p \in DOMAIN after THEN after[p].client[p] ELSE w.client[p]]
             v == [w EXCEPT !.win = a]
  <1>1. v = Rec(a, w.client, w.field, w.refs, w.fields, w.timers)
    <2> HIDE DEF a
    <2> QED BY DEF Rec, Record
  <1>2. [v EXCEPT !.client = b] = Rec(a, b, w.field, w.refs, w.fields, w.timers)
    <2> HIDE DEF v, a, b
    <2> QED BY <1>1 DEF Rec
  <1>3. [w EXCEPT !.win = a, !.client = b] = Rec(a, b, w.field, w.refs, w.fields, w.timers)
    BY <1>2
  <1> QED BY <1>3 DEF Cn!ToldAll

(* Who is told of it: the player who carried it, or all in the game.       *)
Told(c) == {p \in Viewers : standsAt[p] # Nobody /\ (Cn!TopOf(lies)[c] \in Viewers => p = Cn!TopOf(lies)[c])}
Tidings(c, to) == [p \in Told(c) |-> Cn!Noticed(Cn!Self, p, c, Moved(c, to))]

(* What a step that moves a container consists of.                         *)
LEMMA MoveIs ==
  ASSUME Cn!MoveContainer
  PROVE  \E c \in Boxes, to \in Spots :
           /\ shifts < MaxShifts /\ shifts' = shifts + 1
           /\ to \in Boxes => c \notin Cn!Outwards(lies, to)
           /\ lies' = Moved(c, to)
           /\ Cn!Becomes(Cn!ToldAll(Cn!Self, Tidings(c, to)))
           /\ UNCHANGED <<standsAt, forgotten>>
  <1>1. PICK c \in Boxes, to \in Floor \union Viewers \union Boxes \union {Nobody} :
          LET l == [lies EXCEPT ![c] = to]
              from == Cn!TopOf(lies)[c]
              told == {p \in Viewers : standsAt[p] # Nobody /\ (from \in Viewers => p = from)}
          IN  /\ from # Nobody /\ to # lies[c] /\ shifts < MaxShifts /\ shifts' = shifts + 1
              /\ to \in Boxes => c \notin Cn!Outwards(lies, to) /\ Cn!TopOf(lies)[to] # Nobody
              /\ to \in Viewers => standsAt[to] # Nobody /\ Cn!InReach(to, c)
              /\ lies' = l
              /\ Cn!Becomes(Cn!ToldAll(Cn!Self, [p \in told |-> Cn!Noticed(Cn!Self, p, c, l)]))
              /\ UNCHANGED <<standsAt, forgotten>>
    BY Zenon DEF Cn!MoveContainer
  <1>2. to \in Spots
    BY DEF Spots
  <1>3. /\ shifts < MaxShifts /\ shifts' = shifts + 1
        /\ to \in Boxes => c \notin Cn!Outwards(lies, to)
        /\ UNCHANGED <<standsAt, forgotten>>
    BY <1>1
  <1>4. lies' = Moved(c, to)
    BY <1>1, Zenon DEF Moved, Shifted
  <1>5. Cn!Becomes(Cn!ToldAll(Cn!Self, Tidings(c, to)))
    BY <1>1, Zenon DEF Tidings, Told, Moved, Shifted
  <1> QED BY <1>2, <1>3, <1>4, <1>5

(* Nobody is left with a window of what went out of reach: one who is not  *)
(* told had no window of it.                                               *)
LEMMA MoveIsKept == WindowsInv /\ Cn!MoveContainer => WindowsInv'
  <1> SUFFICES ASSUME WindowsInv, Cn!MoveContainer PROVE WindowsInv'
    OBVIOUS
  <1>0. /\ forgotten \in Nat /\ lies \in Layouts /\ shifts \in 0..MaxShifts
        /\ standsAt \in [Viewers -> Floor \union {Nobody}]
        /\ Counted(Cn!Self, forgotten) /\ Fair(lies, standsAt, windowOf, shown)
    BY DEF WindowsInv
  <1>1. PICK c \in Boxes, to \in Spots :
             /\ shifts < MaxShifts /\ shifts' = shifts + 1
             /\ to \in Boxes => c \notin Cn!Outwards(lies, to)
             /\ lies' = Moved(c, to)
             /\ Cn!Becomes(Cn!ToldAll(Cn!Self, Tidings(c, to)))
             /\ UNCHANGED <<standsAt, forgotten>>
    BY MoveIs
  <1>2. windowOf \in Windowing /\ shown \in Windowing /\ Cn!Self \in Record
    BY <1>0, SelfIs DEF Counted, Record
  <1> DEFINE k == Moved(c, to)
             after == Tidings(c, to)
             win == [p \in Viewers |-> IF p \in DOMAIN after THEN after[p].win[p] ELSE windowOf[p]]
             cl == [p \in Viewers |-> IF p \in DOMAIN after THEN after[p].client[p] ELSE shown[p]]
             v == Rec(win, cl, Cn!Self.field, Cn!Self.refs, Cn!Self.fields, Cn!Self.timers)
  <1>3. Cn!Becomes(v)
    <2>1. Cn!ToldAll(Cn!Self, after) = v
      <3> HIDE DEF after
      <3> QED BY <1>2, ToldAllIs, SelfIs
    <2> HIDE DEF v
    <2> QED BY <1>1, <2>1
  <1>4. ASSUME NEW p \in Viewers
        PROVE  /\ win[p] \in [Panes -> Cn!Shown] /\ cl[p] \in [Panes -> Cn!Shown]
               /\ \A i \in Panes :
                    /\ win[p][i] = windowOf[p][i] \/ (win[p][i] = Nobody /\ windowOf[p][i] \notin Cn!Fields)
                    /\ win[p][i] # Nobody => Rightful(k, standsAt, p, win[p][i])
                    /\ cl[p][i] \in {Nobody, win[p][i]} \/ (cl[p][i] = shown[p][i] /\ win[p][i] = windowOf[p][i])
    <2>1. CASE p \in Told(c)
      <3> DEFINE u == Cn!Noticed(Cn!Self, p, c, k)
      <3>1. win[p] = u.win[p] /\ cl[p] = u.client[p]
        <4>1. DOMAIN after = Told(c) /\ after[p] = u
          BY <2>1 DEF Tidings
        <4> HIDE DEF after, u
        <4> QED BY <2>1, <4>1
      <3>2. /\ u.win \in Windowing /\ u.client \in Windowing
            /\ \A i \in Panes :
                /\ u.win[p][i] = windowOf[p][i] \/ (u.win[p][i] = Nobody /\ windowOf[p][i] \notin Cn!Fields)
                /\ u.win[p][i] # Nobody => Rightful(k, standsAt, p, u.win[p][i])
                /\ u.client[p][i] \in {Nobody, u.win[p][i]} \/ (u.client[p][i] = shown[p][i] /\ u.win[p][i] = windowOf[p][i])
        BY <1>1, NoticedIs
      <3> HIDE DEF u, win, cl, k
      <3>3. win[p] \in [Panes -> Cn!Shown] /\ cl[p] \in [Panes -> Cn!Shown]
        BY <3>1, <3>2 DEF Windowing
      <3> QED BY <3>1, <3>2, <3>3
    <2>2. CASE p \notin Told(c)
      <3>1. win[p] = windowOf[p] /\ cl[p] = shown[p]
        BY <2>2 DEF Tidings
      <3>2. standsAt[p] # Nobody => Cn!TopOf(lies)[c] \in Viewers /\ p # Cn!TopOf(lies)[c]
        BY <2>2 DEF Told
      <3>3. \A i \in Panes : windowOf[p][i] # Nobody => Rightful(k, standsAt, p, windowOf[p][i])
        BY <1>1, <3>2, UntoldIs
      <3>4. win[p] \in [Panes -> Cn!Shown] /\ cl[p] \in [Panes -> Cn!Shown]
        BY <1>2, <3>1 DEF Windowing
      <3> HIDE DEF win, cl, k
      <3> QED BY <3>1, <3>3, <3>4
    <2> QED BY <2>1, <2>2
  <1>5. win \in Windowing /\ cl \in Windowing
    <2>1. \A p \in Viewers : win[p] \in [Panes -> Cn!Shown] /\ cl[p] \in [Panes -> Cn!Shown]
      BY <1>4
    <2>2. win = [p \in Viewers |-> win[p]] /\ cl = [p \in Viewers |-> cl[p]]
      OBVIOUS
    <2> HIDE DEF win, cl
    <2> QED BY <2>1, <2>2 DEF Windowing
  <1> HIDE DEF win, cl, k
  <1>6. Counted(v, forgotten) /\ v.win = win /\ v.client = cl
    <2>1. \A q \in Viewers, j \in Panes :
            win[q][j] = Cn!Self.win[q][j] \/ (win[q][j] = Nobody /\ Cn!Self.win[q][j] \notin Cn!Fields)
      BY <1>4, SelfIs
    <2> QED BY <1>0, <1>5, <2>1, StillCounted
  <1>7. Fair(k, standsAt, v.win, v.client)
    <2>1. Fair(k, standsAt, win, cl)
      <3>1. \A p \in Viewers, i \in Panes :
              /\ win[p][i] # Nobody => Rightful(k, standsAt, p, win[p][i])
              /\ cl[p][i] \in {Nobody, win[p][i]} \/ (cl[p][i] = shown[p][i] /\ win[p][i] = windowOf[p][i])
        BY <1>4
      <3> QED BY <1>0, <3>1, StaysFair
    <2> HIDE DEF v
    <2> QED BY <1>6, <2>1
  <1>8. k \in Layouts
    BY <1>0, <1>1, ShiftedIsLayout DEF Moved, k
  <1>9. /\ forgotten' = forgotten /\ forgotten' \in Nat /\ lies' \in Layouts /\ shifts' \in 0..MaxShifts
        /\ standsAt' \in [Viewers -> Floor \union {Nobody}] /\ k = lies' /\ standsAt = standsAt'
    <2>1. lies' = k
      BY <1>1 DEF k
    <2>2. shifts' \in 0..MaxShifts
      BY <1>0, <1>1, Names
    <2> QED BY <1>0, <1>1, <1>8, <2>1, <2>2
  <1> HIDE DEF v
  <1> QED BY <1>3, <1>6, <1>7, <1>9, StepIs

(* A player leaves: its windows are closed, what it carries is gone, and   *)
(* the browse field is held for it nevertheless.                           *)
LEMMA LogOutIsKept == WindowsInv /\ Cn!LogOut => WindowsInv'
  <1> SUFFICES ASSUME WindowsInv, Cn!LogOut PROVE WindowsInv'
    OBVIOUS
  <1>0. /\ forgotten \in Nat /\ lies \in Layouts /\ shifts \in 0..MaxShifts
        /\ standsAt \in [Viewers -> Floor \union {Nobody}]
        /\ Counted(Cn!Self, forgotten) /\ Fair(lies, standsAt, windowOf, shown)
    BY DEF WindowsInv
  <1>1. PICK p \in Viewers :
          /\ standsAt[p] # Nobody /\ shifts < MaxShifts /\ shifts' = shifts + 1
          /\ standsAt' = [standsAt EXCEPT ![p] = Nobody]
          /\ lies' = [c \in Boxes |-> IF lies[c] = p THEN Nobody ELSE lies[c]]
          /\ forgotten' = forgotten + Cn!Cardinality({i \in Panes : windowOf[p][i] \in Cn!Fields})
          /\ windowOf' = [windowOf EXCEPT ![p] = [i \in Panes |-> Nobody]]
          /\ shown' = [shown EXCEPT ![p] = [i \in Panes |-> Nobody]]
          /\ UNCHANGED <<field, fieldRefs, fields, timers>>
    BY Zenon DEF Cn!LogOut
  <1>2. windowOf \in Windowing /\ shown \in Windowing /\ Cn!Self \in Record /\ OnlyField(windowOf, field)
    BY <1>0, SelfIs DEF Counted, Record
  <1> DEFINE held == Cardinality({i \in Panes : windowOf[p][i] \in Cn!Fields})
             k == LeftBehind(lies, p)
             win == ClosedAll(windowOf, p, Panes)
             cl == ClosedAll(shown, p, Panes)
             o == [standsAt EXCEPT ![p] = Nobody]
             v == Rec(win, cl, field, fieldRefs, fields, timers)
  <1>3. windowOf' = win /\ shown' = cl
    BY <1>1, <1>2 DEF ClosedAll, Windowing
  <1>4. Cn!Self' = v /\ Cn!Becomes(v)
    BY <1>1, <1>3 DEF Cn!Self, Rec, Cn!Becomes
  <1>5. k \in Layouts /\ lies' = k
        /\ \A y \in Boxes : Cn!TopOf(k)[y] = IF Cn!TopOf(lies)[y] = p THEN Nobody ELSE Cn!TopOf(lies)[y]
    BY <1>0, <1>1, LeftBehindIsLayout DEF LeftBehind
  <1>6. held \in Nat /\ forgotten' = forgotten + held /\ forgotten' \in Nat
    <2> DEFINE H == {i \in Panes : windowOf[p][i] \in Cn!Fields}
    <2>1. H \in SUBSET Panes
      OBVIOUS
    <2>2. Cardinality(H) \in Nat
      <3> HIDE DEF H
      <3> QED BY <2>1, Names, FS_Subset, FS_CardinalityType
    <2> QED BY <1>0, <1>1, <2>2, SameCount
  <1>7. /\ win \in Windowing /\ cl \in Windowing
        /\ \A q \in Viewers, i \in Panes : /\ win[q][i] = IF q = p THEN Nobody ELSE windowOf[q][i]
                                           /\ cl[q][i] = IF q = p THEN Nobody ELSE shown[q][i]
    BY <1>2, ClosedAllIs
  <1>8. /\ o \in [Viewers -> Floor \union {Nobody}] /\ \A q \in Viewers \ {p} : o[q] = standsAt[q]
        /\ standsAt' = o
    BY <1>0, <1>1
  <1>9. /\ v \in Record /\ v.win = win /\ v.client = cl /\ v.field = field /\ v.refs = fieldRefs
        /\ v.fields = fields /\ v.timers = timers
    <2>1. field \in Cn!Fields \union {0} /\ fieldRefs \in Int /\ fields \in 0..MaxFields /\ timers \in Nat
      BY <1>2, SelfIs DEF Record
    <2> HIDE DEF win, cl
    <2> QED BY <1>7, <2>1 DEF Rec, Record
  <1>10. Counted(v, forgotten + held)
    <2>1. OnlyField(v.win, v.field)
      <3> HIDE DEF v, win, cl
      <3> QED BY <1>2, <1>7, <1>9, FieldIsShown DEF OnlyField
    <2>2. field # 0 => Cardinality(Showing(win, field)) = Cardinality(Showing(windowOf, field)) - held
      <3> SUFFICES ASSUME field # 0 PROVE Cardinality(Showing(win, field)) = Cardinality(Showing(windowOf, field)) - held
        OBVIOUS
      <3>1. field \in Cn!Fields /\ field # Nobody
        BY <1>2, SelfIs, FieldIsShown DEF Record
      <3>2. {i \in Panes : windowOf[p][i] \in Cn!Fields} = {i \in Panes : windowOf[p][i] = field}
        BY <1>2, <3>1 DEF OnlyField
      <3> QED BY <1>2, <3>1, <3>2, RecountAll
    <2>3. field = 0 => held = 0
      <3> SUFFICES ASSUME field = 0 PROVE held = 0
        OBVIOUS
      <3>1. {i \in Panes : windowOf[p][i] \in Cn!Fields} = {}
        BY <1>0, NoField, SelfIs
      <3> QED BY <3>1, FS_EmptySet
    <2>4. Cardinality(Showing(windowOf, field)) \in Nat
      BY ShowingIsFinite
    <2>5. /\ timers <= 1 /\ (field = 0 <=> fieldRefs = 0) /\ timers \in Nat
          /\ fieldRefs = (IF field = 0 THEN 0 ELSE Cardinality(Showing(windowOf, field))) + timers + forgotten
      BY <1>0, SelfIs DEF Counted, Record
    <2> HIDE DEF v, win, cl, held
    <2>6. fieldRefs = (IF field = 0 THEN 0 ELSE Cardinality(Showing(win, field))) + timers + (forgotten + held)
      BY <1>0, <1>6, <2>2, <2>3, <2>4, <2>5
    <2> QED BY <1>9, <2>1, <2>5, <2>6 DEF Counted
  <1>11. Fair(k, o, v.win, v.client)
    <2>1. ASSUME NEW q \in Viewers, NEW i \in Panes, win[q][i] # Nobody
          PROVE  Rightful(k, o, q, win[q][i])
      <3>1. q # p /\ win[q][i] = windowOf[q][i] /\ o[q] = standsAt[q]
        BY <1>7, <1>8, <2>1
      <3>2. Rightful(lies, standsAt, q, win[q][i])
        BY <1>0, <2>1, <3>1 DEF Fair
      <3> HIDE DEF win, k, o
      <3> QED BY <1>5, <3>1, <3>2, Names DEF Rightful, Reached
    <2>2. \A q \in Viewers, i \in Panes : cl[q][i] = Nobody \/ (cl[q][i] = shown[q][i] /\ win[q][i] = windowOf[q][i])
      <3> HIDE DEF win, cl
      <3> QED BY <1>7
    <2> HIDE DEF v, win, cl, k, o
    <2>3. Fair(k, o, win, cl)
      BY <1>0, <2>1, <2>2, StaysFair
    <2> QED BY <1>9, <2>3
  <1>12. shifts' \in 0..MaxShifts
    BY <1>0, <1>1, Names
  <1> HIDE DEF v, k, o, held, win, cl
  <1> QED BY <1>4, <1>5, <1>6, <1>8, <1>10, <1>11, <1>12, StepIs

(* Who comes back has no window open.                                      *)
LEMMA LogInIsKept == WindowsInv /\ Cn!LogIn => WindowsInv'
  <1> SUFFICES ASSUME WindowsInv, Cn!LogIn PROVE WindowsInv'
    OBVIOUS
  <1>0. /\ forgotten \in Nat /\ lies \in Layouts /\ shifts \in 0..MaxShifts
        /\ standsAt \in [Viewers -> Floor \union {Nobody}]
        /\ Counted(Cn!Self, forgotten) /\ Fair(lies, standsAt, windowOf, shown)
    BY DEF WindowsInv
  <1>1. PICK p \in Viewers :
          /\ standsAt[p] = Nobody /\ standsAt' = [standsAt EXCEPT ![p] = Corner]
          /\ UNCHANGED <<lies, windowOf, shown, field, fieldRefs, fields, timers, forgotten, shifts>>
    BY DEF Cn!LogIn
  <1>2. standsAt' \in [Viewers -> Floor \union {Nobody}] /\ \A q \in Viewers \ {p} : standsAt'[q] = standsAt[q]
    BY <1>0, <1>1, Names
  <1>3. \A i \in Panes : windowOf[p][i] = Nobody
    BY <1>0, <1>1 DEF Fair, Rightful
  <1>4. Fair(lies, standsAt', windowOf, shown)
    <2>1. ASSUME NEW q \in Viewers, NEW i \in Panes, windowOf[q][i] # Nobody
          PROVE  Rightful(lies, standsAt', q, windowOf[q][i])
      <3>1. q # p
        BY <1>3, <2>1
      <3>2. Rightful(lies, standsAt, q, windowOf[q][i])
        BY <1>0, <2>1 DEF Fair
      <3> QED BY <1>2, <3>1, <3>2 DEF Rightful, Reached
    <2>2. \A q \in Viewers, i \in Panes : shown[q][i] # Nobody => shown[q][i] = windowOf[q][i]
      BY <1>0 DEF Fair
    <2> QED BY <2>1, <2>2 DEF Fair
  <1>5. Cn!Self' = Cn!Self
    BY <1>1 DEF Cn!Self
  <1>6. Counted(Cn!Self', forgotten') /\ Fair(lies', standsAt', windowOf', shown')
    BY <1>0, <1>1, <1>4, <1>5
  <1> QED BY <1>0, <1>1, <1>2, <1>6 DEF WindowsInv

(* It holds at first.                                                      *)
LEMMA WindowsInvInit == Cn!Init => WindowsInv
  <1> SUFFICES ASSUME Cn!Init PROVE WindowsInv
    OBVIOUS
  <1>1. /\ standsAt = [p \in Viewers |-> Corner] /\ lies = Stowed
        /\ windowOf = [p \in Viewers |-> [i \in Panes |-> Nobody]] /\ shown = windowOf
        /\ field = 0 /\ fieldRefs = 0 /\ fields = 0 /\ timers = 0 /\ forgotten = 0 /\ shifts = 0
    BY DEF Cn!Init
  <1>2. standsAt \in [Viewers -> Floor \union {Nobody}] /\ shifts \in 0..MaxShifts /\ forgotten \in Nat
    BY <1>1, Names
  <1>3. lies \in Layouts
    <2>1. lies \in [Boxes -> Spots]
      BY <1>1, WindowsAssumption DEF Spots
    <2>2. Uncircled(lies)
      BY <1>1, WindowsAssumption DEF Uncircled
    <2> QED BY <2>1, <2>2 DEF Layouts
  <1>4. windowOf \in Windowing /\ shown \in Windowing
    BY <1>1, FieldIsShown DEF Windowing
  <1>5. Cn!Self \in Record
    <2>1. 0 \in Cn!Fields \union {0} /\ 0 \in Int /\ 0 \in 0..MaxFields /\ 0 \in Nat
      BY Names
    <2> QED BY <1>1, <1>4, <2>1, SelfIs DEF Rec, Record
  <1>6. OnlyField(windowOf, field)
    BY <1>1, FieldIsShown DEF OnlyField
  <1>7. Counted(Cn!Self, forgotten)
    BY <1>1, <1>5, <1>6, SelfIs DEF Counted
  <1>8. Fair(lies, standsAt, windowOf, shown)
    BY <1>1 DEF Fair
  <1> QED BY <1>2, <1>3, <1>7, <1>8 DEF WindowsInv

(* It implies what the run checks.                                         *)
LEMMA WindowsInvSound == WindowsInv => Cn!TypeOK /\ Cn!WindowsAreSound
  <1> SUFFICES ASSUME WindowsInv PROVE Cn!TypeOK /\ Cn!WindowsAreSound
    OBVIOUS
  <1>0. /\ forgotten \in Nat /\ lies \in Layouts /\ shifts \in 0..MaxShifts
        /\ standsAt \in [Viewers -> Floor \union {Nobody}]
        /\ Counted(Cn!Self, forgotten) /\ Fair(lies, standsAt, windowOf, shown)
    BY DEF WindowsInv
  <1>1. /\ windowOf \in Windowing /\ shown \in Windowing /\ OnlyField(windowOf, field)
        /\ field \in Cn!Fields \union {0} /\ fieldRefs \in Int /\ fields \in 0..MaxFields /\ timers \in Nat
        /\ timers <= 1 /\ (field = 0 <=> fieldRefs = 0)
        /\ fieldRefs = (IF field = 0 THEN 0 ELSE Cardinality(Showing(windowOf, field))) + timers + forgotten
    BY <1>0, SelfIs DEF Counted, Record
  <1>2. Cardinality(Showing(windowOf, field)) \in Nat
    BY ShowingIsFinite
  <1>3. fieldRefs \in Nat /\ (timers = 1 => field # 0)
    BY <1>0, <1>1, <1>2
  <1>4. timers \in 0..MaxFields
    BY <1>1, <1>3, Names
  <1>5. Cn!TypeOK
    <2>1. lies \in [Boxes -> Floor \union Viewers \union Boxes \union {Nobody}]
      BY <1>0 DEF Layouts, Spots
    <2> QED BY <1>0, <1>1, <1>3, <1>4, <2>1 DEF Cn!TypeOK, Windowing
  <1>6. fieldRefs = (IF field = 0 THEN 0 ELSE Cn!Cardinality(Cn!Windowed(field))) + timers + forgotten
    <2>1. Cn!Windowed(field) = Showing(windowOf, field)
      BY DEF Cn!Windowed, Showing
    <2> QED BY <1>1, <2>1, SameCount
  <1>7. \A p \in Viewers, i \in Panes :
         /\ windowOf[p][i] \in Boxes => Cn!InReach(p, windowOf[p][i])
         /\ windowOf[p][i] \in Cn!Fields => windowOf[p][i] = field /\ Cn!Near(standsAt[p], Corner)
         /\ shown[p][i] # Nobody => shown[p][i] = windowOf[p][i]
    <2>1. ASSUME NEW p \in Viewers, NEW i \in Panes
          PROVE  /\ windowOf[p][i] \in Boxes => Cn!InReach(p, windowOf[p][i])
                 /\ windowOf[p][i] \in Cn!Fields => windowOf[p][i] = field /\ Cn!Near(standsAt[p], Corner)
      <3>1. windowOf[p][i] # Nobody => Rightful(lies, standsAt, p, windowOf[p][i])
        BY <1>0 DEF Fair
      <3> QED BY <1>1, <3>1, InReachIs, Names DEF Rightful, OnlyField
    <2> QED BY <1>0, <2>1 DEF Fair
  <1> QED BY <1>1, <1>5, <1>6, <1>7 DEF Cn!WindowsAreSound

(* Every step keeps it.                                                    *)
LEMMA WindowsInvNext == WindowsInv /\ [Cn!Next]_(Cn!windowVars) => WindowsInv'
  <1> SUFFICES ASSUME WindowsInv, [Cn!Next]_(Cn!windowVars) PROVE WindowsInv'
    OBVIOUS
  <1>1. CASE UNCHANGED Cn!windowVars
    <2>1. /\ UNCHANGED <<standsAt, lies, windowOf, shown, field, fieldRefs>>
          /\ UNCHANGED <<fields, timers, forgotten, shifts>>
      BY <1>1 DEF Cn!windowVars
    <2>2. Cn!Self' = Cn!Self
      BY <2>1 DEF Cn!Self
    <2> QED BY <2>1, <2>2 DEF WindowsInv
  <1>2. CASE Cn!UseContainer
    BY <1>2, UseIsKept
  <1>3. CASE Cn!MoveUpContainer
    BY <1>3, MoveUpIsKept
  <1>4. CASE Cn!BrowseField
    BY <1>4, BrowseIsKept
  <1>5. CASE Cn!PlayerCloseContainer
    BY <1>5, CloseIsKept
  <1>6. CASE Cn!Walk
    BY <1>6, WalkIsKept
  <1>7. CASE Cn!MoveContainer
    BY <1>7, MoveIsKept
  <1>8. CASE Cn!Timer
    BY <1>8, TimerIsKept
  <1>9. CASE Cn!LogOut
    BY <1>9, LogOutIsKept
  <1>10. CASE Cn!LogIn
    BY <1>10, LogInIsKept
  <1> QED BY <1>1, <1>2, <1>3, <1>4, <1>5, <1>6, <1>7, <1>8, <1>9, <1>10 DEF Cn!Next
-----------------------------------------------------------------------------
(* The theorems.                                                           *)

(* A party and its members agree on who is in it and who is invited, it    *)
(* has a leader who is not a member of the list and never is alone, and    *)
(* its shared experience is up to date (party.cpp).                        *)
THEOREM Parties_hold == MCSpec => []PartiesHold
  <1>1. MCInit => PartyInv
    BY PartyBegins DEF MCInit
  <1>2. PartyInv /\ [MCNext]_allVars => PartyInv'
    <2> SUFFICES ASSUME PartyInv, [MCNext]_allVars PROVE PartyInv'
      OBVIOUS
    <2>1. [Next]_vars
      BY DEF MCNext, PartyNext, ChatNext, SpeechNext, SpawnsNext,
             RaidsNext, HousesNext, WindowsNext, allVars
    <2> QED BY <2>1, PartyStep
  <1>3. PartyInv => PartiesHold
    BY PartyInvSuffices DEF PartiesHold
  <1> QED BY <1>1, <1>2, <1>3, PTL DEF MCSpec

(* Whoever hears a channel is in the game and may hear it, a guild points  *)
(* at its members in the game only, unless a player left it for one that   *)
(* has no rank of level 1, and a muted player stays so until its buffer    *)
(* has drained (chat.cpp, guild.cpp, player.cpp).                          *)
THEOREM Channels_are_sound == MCSpec => []ChannelsAreSound
  <1>1. MCInit => ChatInv /\ SpeechInv
    BY ChatBegins, SpeechBegins DEF MCInit
  <1>2. ChatInv /\ SpeechInv /\ [MCNext]_allVars => ChatInv' /\ SpeechInv'
    <2> SUFFICES ASSUME ChatInv, SpeechInv, [MCNext]_allVars PROVE ChatInv' /\ SpeechInv'
      OBVIOUS
    <2>1. [Ta!ChatNext]_chatVars /\ [Ta!SpeechNext]_speechVars
      BY DEF MCNext, PartyNext, ChatNext, SpeechNext, SpawnsNext,
             RaidsNext, HousesNext, WindowsNext, allVars, talkVars
    <2> QED BY <2>1, ChatStep, SpeechStep
  <1>3. ChatInv /\ SpeechInv => ChannelsAreSound
    BY ChatInvSuffices DEF SpeechInv, ChannelsAreSound
  <1> QED BY <1>1, <1>2, <1>3, PTL DEF MCSpec

(* A spawn files no monster twice and none that is dead for good; a raid   *)
(* that is said to be running has a task pending; the raids are looked at  *)
(* for ever, by one task and one more for each reload that came too late   *)
(* to stop it; and a task of a raid that was deleted is one that no reload *)
(* could have stopped (spawn.cpp, raids.cpp).                              *)
THEOREM Wildlife_is_sound == MCSpec => []WildlifeIsSound
  <1>1. MCInit => SpawnsInv /\ RaidsInv
    BY SpawnsBegin, RaidsBegin DEF MCInit
  <1>2. SpawnsInv /\ RaidsInv /\ [MCNext]_allVars => SpawnsInv' /\ RaidsInv'
    <2> SUFFICES ASSUME SpawnsInv, RaidsInv, [MCNext]_allVars PROVE SpawnsInv' /\ RaidsInv'
      OBVIOUS
    <2>1. [Wi!SpawnsNext]_spawnVars /\ [Wi!RaidsNext]_raidVars
      BY DEF MCNext, PartyNext, ChatNext, SpeechNext, SpawnsNext,
             RaidsNext, HousesNext, WindowsNext, allVars
    <2> QED BY <2>1, SpawnsStep, RaidsStep
  <1>3. SpawnsInv /\ RaidsInv => WildlifeIsSound
    BY SpawnsInvSuffices DEF RaidsInv, WildlifeIsSound
  <1> QED BY <1>1, <1>2, <1>3, PTL DEF MCSpec

(* Nobody stays in a house that does not let him in - but for one about to *)
(* be kicked, one who lay down in its bed from outside and one whose guild *)
(* changed since -, nobody owns two, a sleeper is found in the bed that    *)
(* the game has noted for him, and a house is bound to no trade that is    *)
(* over (house.cpp, bed.cpp).                                              *)
THEOREM Houses_are_sound == MCSpec => []HousesAreSound
  <1>1. MCInit => HouseInv
    BY HousesBegin DEF MCInit
  <1>2. HouseInv /\ [MCNext]_allVars => HouseInv'
    <2> SUFFICES ASSUME HouseInv, [MCNext]_allVars PROVE HouseInv'
      OBVIOUS
    <2>1. [Ho!Next]_houseVars
      BY DEF MCNext, PartyNext, ChatNext, SpeechNext, SpawnsNext,
             RaidsNext, HousesNext, WindowsNext, allVars
    <2> QED BY <2>1, HousesStep
  <1>3. HouseInv => HousesAreSound
    BY HousesSuffice DEF HousesAreSound
  <1> QED BY <1>1, <1>2, <1>3, PTL DEF MCSpec

(* A player has open only what it can reach, its client shows nothing as   *)
(* open that is closed, and the browse field of a tile lives exactly as    *)
(* long as its references, which are those of the windows that show it, of *)
(* its event and of the players who left (Player::autoCloseContainers,     *)
(* Player::addContainer, Game::decreaseBrowseFieldRef).                    *)
THEOREM Windows_are_sound == MCSpec => []WindowsAreSound
  <1>1. MCInit => WindowsInv
    BY WindowsInvInit DEF MCInit
  <1>2. WindowsInv /\ [MCNext]_allVars => WindowsInv'
    <2> SUFFICES ASSUME WindowsInv, [MCNext]_allVars PROVE WindowsInv'
      OBVIOUS
    <2>1. [Cn!Next]_(Cn!windowVars)
      BY DEF MCNext, PartyNext, ChatNext, SpeechNext, SpawnsNext,
             RaidsNext, HousesNext, WindowsNext, allVars, windowsVars, Cn!windowVars
    <2> QED BY <2>1, WindowsInvNext
  <1>3. WindowsInv => WindowsAreSound
    BY WindowsInvSound DEF WindowsAreSound
  <1> QED BY <1>1, <1>2, <1>3, PTL DEF MCSpec
===============================================================================
