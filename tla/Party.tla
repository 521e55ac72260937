-------------------------------- MODULE Party ---------------------------------
(***************************************************************************)
(* Parties (party.cpp, game.cpp, player.cpp): a Party object knows its     *)
(* leader, its members and whom it has invited, every player knows its     *)
(* party and its invitations, and all of these are raw pointers, so that   *)
(* the two sides must agree whenever a party is deleted or a player leaves *)
(* the game.  A party also caches whether its experience may be shared.    *)
(* All of it runs on the dispatcher thread, one handler at a time.         *)
(*                                                                         *)
(* The party scripts are taken to allow what they are asked (events.cpp    *)
(* answers so when there is no script): a refusal of onJoin or onLeave     *)
(* changes nothing, but for the one of a player who leaves the game.       *)
(***************************************************************************)
EXTENDS Integers, FiniteSets, FiniteSetsExt, SequencesExt

CONSTANTS
  Players,
  Parties,         (* Party objects; bound: as many as may exist at once   *)
  None,            (* nullptr                                              *)
  Levels,
  Areas,           (* positions; in range are equal and neighbouring ones  *)
  InitialLevel, InitialArea,
  MaxChanged       (* bound: how many levels and places differ from these  *)

ASSUME PartyAssumption ==
  /\ None \notin Players \union Parties
  /\ Levels \subseteq Nat /\ Areas \subseteq Int
  /\ InitialLevel \in [Players -> Levels]
  /\ InitialArea \in [Players -> Areas]

VARIABLES
  parties,         (* the Party objects                                    *)
  party,           (* Player::party                                        *)
  invitePartyList, (* Player::invitePartyList                              *)
  level,
  area

vars == <<parties, party, invitePartyList, level, area>>

(* When a player last fought: not in ticksMap, within PZ_LOCKED, or before.*)
Ticks == {"none", "recent", "old"}

(* A new object, and one that was deleted.                                 *)
NoParty == [leader |-> None, memberList |-> <<>>, inviteList |-> {},
            ticksMap |-> [p \in Players |-> "none"],
            sharedExpActive |-> FALSE, sharedExpEnabled |-> FALSE]

TypeOK ==
  /\ parties \in [Parties ->
       [leader : Players \union {None},
        memberList : Seq(Players),
        inviteList : SUBSET Players,
        ticksMap : [Players -> Ticks],
        sharedExpActive : BOOLEAN, sharedExpEnabled : BOOLEAN]]
  /\ party \in [Players -> Parties \union {None}]
  /\ invitePartyList \in [Players -> SUBSET Parties]
  /\ level \in [Players -> Levels]
  /\ area \in [Players -> Areas]

Init ==
  /\ parties = [P \in Parties |-> NoParty]
  /\ party = [p \in Players |-> None]
  /\ invitePartyList = [p \in Players |-> {}]
  /\ level = InitialLevel
  /\ area = InitialArea

Bounded(lv, ar) ==
  Cardinality({p \in Players : lv[p] # InitialLevel[p]})
    + Cardinality({p \in Players : ar[p] # InitialArea[p]}) <= MaxChanged
-----------------------------------------------------------------------------
(* One Party object r; lv and ar are the levels and the areas it reads.    *)

Company(r) == {r.leader} \union ToSet(r.memberList)

Empty(r) == r.memberList = <<>> /\ r.inviteList = {}

(* canUseSharedExperience, for somebody who fought at one of the times.    *)
CanUse(r, p, lv, ar, times) ==
  LET highest == Max({lv[q] : q \in Company(r)})
      distance == ar[r.leader] - ar[p]
  IN  /\ r.memberList # <<>>
      /\ lv[p] >= (2 * highest + 2) \div 3
      /\ distance \in -1..1
      /\ r.ticksMap[p] \in times

CanEnable(r, lv, ar, times) == \A p \in Company(r) : CanUse(r, p, lv, ar, times)

(* updateSharedExperience                                                  *)
Updated(r, lv, ar) ==
  IF r.sharedExpActive
  THEN [r EXCEPT !.sharedExpEnabled = CanEnable(r, lv, ar, {"recent"})] ELSE r

LedBy(r, p) ==
  [r EXCEPT !.leader = p,
            !.memberList = <<r.leader>> \o RemoveFirst(@, p)]
(* passPartyLeadership                                                     *)
Passed(r, p) == Updated(LedBy(r, p), level, area)

Without(r, p) == [r EXCEPT !.memberList = RemoveFirst(@, p)]

(* clearPlayerPoints                                                       *)
Cleared(r, p, ar) ==
  IF r.ticksMap[p] = "none" THEN r
  ELSE Updated([r EXCEPT !.ticksMap[p] = "none"], level, ar)
-----------------------------------------------------------------------------
(* All parties and what the players know of them: these operators take a   *)
(* triple of the three variables and return the next.                      *)

Now == [parties |-> parties, party |-> party, invites |-> invitePartyList]

Becomes(w) ==
  /\ parties' = w.parties
  /\ party' = w.party
  /\ invitePartyList' = w.invites

(* Every Party object of D is deleted.                                     *)
DisbandedQuietly(w, D) ==
  [w EXCEPT !.parties = [P \in Parties |-> IF P \in D THEN NoParty ELSE @[P]],
            !.party = [p \in Players |->
                         IF \E P \in D : p \in Company(w.parties[P])
                         THEN None ELSE @[p]]]
Disbanded(w, D) ==
  [w EXCEPT !.parties = [P \in Parties |-> IF P \in D THEN NoParty ELSE @[P]],
            !.party = [p \in Players |->
                         IF \E P \in D : p \in Company(w.parties[P])
                         THEN None ELSE @[p]],
            !.invites = [p \in Players |->
                           @[p] \ {P \in D : p \in w.parties[P].inviteList}]]

NotInviting(r, p) == [r EXCEPT !.inviteList = @ \ {p}]

(* removeInvite of p by every party of S that invites p: an invitation     *)
(* concerns nobody but p and the one party.                                *)
Uninvited(w, S, p) ==
  LET asking == {P \in S : p \in w.parties[P].inviteList}
      gone == [w EXCEPT
                !.parties = [P \in Parties |->
                               IF P \in asking THEN NotInviting(@[P], p) ELSE @[P]],
                !.invites = [q \in Players |->
                               IF q = p THEN @[q] \ asking ELSE @[q]]]
  IN  Disbanded(gone, {P \in asking : Empty(gone.parties[P])})

(* clearPartyInvitations                                                   *)
UninvitedByAll(w, p) == Uninvited(w, w.invites[p], p)

(* leaveParty: a leader hands the party on unless it would be left alone.  *)
LastToLead(r) ==
  \/ r.memberList = <<>>
  \/ Len(r.memberList) = 1 /\ r.inviteList = {}

Left(w, P, p) ==
  LET r == w.parties[P]
      missingLeader == r.leader = p /\ LastToLead(r)
      led == IF r.leader = p /\ ~missingLeader
             THEN Passed(r, Head(r.memberList)) ELSE r
      after == Cleared(Updated(Without(led, p), level, area), p, area)
      gone == [w EXCEPT !.parties[P] = after, !.party[p] = None]
  IN  IF missingLeader \/ Empty(after) THEN Disbanded(gone, {P}) ELSE gone
-----------------------------------------------------------------------------
IsInviting(p, q) ==
  /\ party[p] # None
  /\ parties[party[p]].leader = p
  /\ q \in parties[party[p]].inviteList

Leads(p) == party[p] # None /\ parties[party[p]].leader = p

(* playerInviteToParty                                                     *)
InviteFirst(p, q) ==
  /\ party[p] = None
  /\ party[q] = None
  /\ \E P \in {Q \in Parties : parties[Q].leader = None} :
       /\ parties' = [parties EXCEPT ![P].leader = p, ![P].inviteList = {q}]
       /\ party' = [party EXCEPT ![p] = P]
       /\ invitePartyList' = [invitePartyList EXCEPT ![q] = @ \union {P}]
  /\ UNCHANGED <<level, area>>

Invite(p, q) ==
  /\ Leads(p)
  /\ party[q] = None
  /\ ~IsInviting(p, q)
  /\ parties' = [parties EXCEPT ![party[p]].inviteList = @ \union {q}]
  /\ invitePartyList' = [invitePartyList EXCEPT ![q] = @ \union {party[p]}]
  /\ UNCHANGED <<party, level, area>>

(* playerJoinParty, joinParty                                              *)
Join(p, leader) ==
  LET P == party[leader]
      joined == [parties[P] EXCEPT !.inviteList = @ \ {p},
                                   !.memberList = Append(@, p)]
  IN  /\ IsInviting(leader, p)
      /\ party[p] = None
      /\ parties' = [parties EXCEPT ![P] = Updated(joined, level, area)]
      /\ party' = [party EXCEPT ![p] = P]
      /\ invitePartyList' = [invitePartyList EXCEPT ![p] = @ \ {P}]
      /\ UNCHANGED <<level, area>>

(* playerRevokePartyInvitation                                             *)
Revoke(p, q) ==
  /\ IsInviting(p, q)
  /\ Becomes(Uninvited(Now, {party[p]}, q))
  /\ UNCHANGED <<level, area>>

(* playerPassPartyLeadership                                               *)
PassLeadership(p, q) ==
  /\ Leads(p)
  /\ q # p /\ party[q] = party[p]
  /\ parties' = [parties EXCEPT ![party[p]] = Passed(@, q)]
  /\ UNCHANGED <<party, invitePartyList, level, area>>

(* playerLeaveParty; one who fights may not, and nothing happens           *)
Leave(p) ==
  /\ party[p] # None
  /\ Becomes(Left(Now, party[p], p))
  /\ UNCHANGED <<level, area>>

(* onRemoveCreature, at a logout or a death; the level that a death costs  *)
(* is lost before, and a player who comes back is as good as new.          *)
LeaveGame(p) ==
  LET w == UninvitedByAll(Now, p)
  IN  /\ Becomes(IF w.party[p] = None THEN w ELSE Left(w, w.party[p], p))
      /\ level' \in {[level EXCEPT ![p] = l] : l \in Levels}
      /\ Bounded(level', area)
      /\ UNCHANGED area

(* setSharedExperience                                                     *)
SetSharedExperience(p, on) ==
  LET r == parties[party[p]]
  IN  /\ Leads(p)
      /\ r.sharedExpActive # on
      /\ parties' = [parties EXCEPT ![party[p]] =
           Updated([r EXCEPT !.sharedExpActive = on], level, area)]
      /\ UNCHANGED <<party, invitePartyList, level, area>>

(* updatePlayerTicks: the player hits a monster or heals a companion.      *)
Fight(p) ==
  /\ party[p] # None
  /\ parties' = [parties EXCEPT ![party[p]] =
       Updated([@ EXCEPT !.ticksMap[p] = "recent"], level, area)]
  /\ UNCHANGED <<party, invitePartyList, level, area>>

(* onIdleStatus                                                            *)
Idle(p) ==
  /\ party[p] # None
  /\ parties' = [parties EXCEPT ![party[p]] = Cleared(@, p, area)]
  /\ UNCHANGED <<party, invitePartyList, level, area>>

(* PZ_LOCKED goes by; nobody looks.                                        *)
TimePasses(p) ==
  /\ party[p] # None
  /\ parties[party[p]].ticksMap[p] = "recent"
  /\ parties' = [parties EXCEPT ![party[p]].ticksMap[p] = "old"]
  /\ UNCHANGED <<party, invitePartyList, level, area>>

PartyUpdated(p, lv, ar) ==
  IF party[p] = None THEN parties
  ELSE [parties EXCEPT ![party[p]] = Updated(@, lv, ar)]

(* onCreatureMove                                                          *)
Move(p, a) ==
  /\ area' = [area EXCEPT ![p] = a]
  /\ Bounded(level, area')
  /\ parties' = PartyUpdated(p, level, area')
  /\ UNCHANGED <<party, invitePartyList, level>>

(* addExperience, removeExperience                                         *)
ChangeLevel(p, l) ==
  /\ level' = [level EXCEPT ![p] = l]
  /\ Bounded(level', area)
  /\ parties' = PartyUpdated(p, level', area)
  /\ UNCHANGED <<party, invitePartyList, area>>
-----------------------------------------------------------------------------
Next ==
  \E p \in Players :
    \/ \E q \in Players : \/ InviteFirst(p, q) \/ Invite(p, q) \/ Join(p, q)
                          \/ Revoke(p, q) \/ PassLeadership(p, q)
    \/ Leave(p) \/ LeaveGame(p)
    \/ \E on \in BOOLEAN : SetSharedExperience(p, on)
    \/ Fight(p) \/ Idle(p) \/ TimePasses(p)
    \/ \E a \in Areas : Move(p, a)
    \/ \E l \in Levels : ChangeLevel(p, l)

Spec == Init /\ [][Next]_vars
-----------------------------------------------------------------------------
Existing == {P \in Parties : parties[P].leader # None}

(* The pointers of the two sides agree: a player's party is the one that   *)
(* it leads or is a member of, once; its invitations are those of the      *)
(* parties that invite it; and no pointer leads to a deleted party.        *)
PointersAgree ==
  /\ \A p \in Players, P \in Parties :
       /\ party[p] = P <=> P \in Existing /\ p \in Company(parties[P])
       /\ P \in invitePartyList[p] <=> p \in parties[P].inviteList
  /\ \A P \in Parties :
       LET r == parties[P]
       IN  /\ r.leader \notin ToSet(r.memberList)
           /\ IsInjective(r.memberList)
           /\ P \notin Existing => r = NoParty

(* A party of one is disbanded, however it came to that: those who wait    *)
(* for an answer to an invitation keep it alive.                           *)
NobodyIsAlone ==
  \A P \in Existing : ToSet(parties[P].memberList)
                         \union parties[P].inviteList # {}

(* The cached answer whether the experience is shared is the one that the  *)
(* party would find now, but for fights that time alone made too old: a    *)
(* party whose members, leader, levels or places changed asks again.       *)
SharingIsCurrent ==
  \A P \in Existing :
    LET r == parties[P]
    IN  r.sharedExpActive =>
          /\ CanEnable(r, level, area, {"recent"}) => r.sharedExpEnabled
          /\ r.sharedExpEnabled =>
               CanEnable(r, level, area, {"recent", "old"})

(* Invariant: no sequence of invitations, answers, departures and logouts  *)
(* leaves a dangling pointer behind, nor a party without anybody to play   *)
(* with, nor one that shares experience when it may not or does not though *)
(* it may (Party::joinParty, leaveParty, disband, updateSharedExperience). *)
PartiesAreSound == PointersAgree /\ NobodyIsAlone /\ SharingIsCurrent
=============================================================================
