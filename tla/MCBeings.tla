------------------------------- MODULE MCBeings -------------------------------
(***************************************************************************)
(* Who plays with or against whom, in one run: parties, chat channels,     *)
(* speech, spawns, raids, who owns, visits and sleeps in houses, and who   *)
(* looks into which containers.  The components share no state, so that    *)
(* each behaviour is one of a single component, the one that part names;   *)
(* the others stay as they began.                                          *)
(***************************************************************************)
EXTENDS Party, TLC

CONSTANTS
  ann, bob, Nobody, guild, r1, r2, r3, r4,
  Talkers, Premium, News, Barred, PrivateNumbers, Brotherhoods, Troops,
  Merchants, Spot, Whisper, Hearing, Shout, Novices, Immune,
  MaxBuffer, MuteUnit, Exhaustion, MaxMutes,
  Blocks, Brood, Rate, Loads, Length, Repeated, MaxChains,
  h1, h2, bed1,
  Tenants, Orders, Estates, Bunks, StandsIn, Walls, Outdoors, Writings, Landlords, Sworn, Recruits,
  bag, box,
  Viewers, Boxes, Floor, Corner, Panes, LastPane, Stowed, MaxFields, MaxShifts

VARIABLES
  part,
  inGame, users, owner, invites, guildOf, guilds, membersOnline, dangling, deserted,
  partyOf, been,
  spawnedMap, due, checkSpawnEvent, scheduled, life, away, mine, counter, started,
  load, raidList, running, startedUp, nextEvent, nextEventEvent, tasks, handed,
  chains, checks, deleted, missed, blurred, struck,
  buffer, ticks, muted, muteCount, exhausted, said, pardoned, served,
  houseOwner, lists, memberOf, place, changed, playing, sleeper, bedSleepers,
  dialog, window, deal, kicks,
  standsAt, lies, windowOf, shown, field, fieldRefs, fields, timers, forgotten,
  shifts

(* Everybody starts at the higher level; two thirds of it are 2, not 1.    *)
SameLevel == [p \in Players |-> 2]

(* Within range of each other only when they are the same.                 *)
Places == {0, 2}
Together == [p \in Players |-> 0]

(* Sound: these players occur in Party only.                               *)
Symmetry == Permutations(Players)

LoadedTwice == <<{r1, r2}, {r3, r4}>>
Lengths == r1 :> 2 @@ r2 :> 1 @@ r3 :> 1 @@ r4 :> 0
Wi == INSTANCE Wildlife WITH
  Ids <- Blocks, Monsters <- Brood, None <- Nobody

(* Blocks and monsters are numbered, from one, and Nobody is no raid.      *)
ASSUME WildlifeAssumption ==
  /\ Blocks \subseteq Nat \ {0} /\ Brood \subseteq Nat
  /\ Loads \in Seq(SUBSET Wi!AllRaids) /\ Loads # <<>>
  /\ \A i, j \in DOMAIN Loads : i # j => Loads[i] \intersect Loads[j] = {}
  /\ Length \in [Wi!AllRaids -> Nat] /\ MaxChains \in Nat
  /\ Nobody \notin Wi!AllRaids

(* Bob, at level 1, cannot be muted; he is two cells from ann, who can,    *)
(* and an NPC between them.                                                *)
OnALine == ann :> 0 @@ "merchant" :> 1 @@ bob :> 2
Ta == INSTANCE Talk WITH
  Players <- Talkers, PublicIds <- News, PrivateIds <- PrivateNumbers,
  Guilds <- Brotherhoods, Parties <- Troops, None <- Nobody,
  Npcs <- Merchants, Place <- Spot, Sight <- Hearing

(* Whoever talks is not an NPC, numbers are numbers, Nobody is nobody, and *)
(* the first mute lasts some time.                                         *)
ASSUME TalkAssumption ==
  /\ Nobody \notin Talkers \union News \union PrivateNumbers
                    \union Brotherhoods \union Troops
  /\ PrivateNumbers \subseteq Nat /\ Talkers # {} /\ Talkers \intersect Merchants = {}
  /\ Spot \in [Talkers \union Merchants -> Nat]
  /\ {Whisper, Hearing, Shout, Exhaustion, MaxBuffer, MaxMutes, MuteUnit} \subseteq Nat
  /\ MuteUnit >= 2

(* Each of two players owns a house; the bed stands in the first.           *)
InTheFirst == bed1 :> h1
ByTheWall == bed1 :> {h1, Outdoors}
OneEach == h1 :> ann @@ h2 :> bob
Brother == ann :> Nobody @@ bob :> guild
GuildOrNobody == h1 :> {{}, {guild}} @@ h2 :> {}
Ho == INSTANCE House WITH
  Players <- Tenants, Guilds <- Orders, Houses <- Estates, Beds <- Bunks, HouseOf <- StandsIn,
  Outside <- Outdoors, Beside <- Walls, Texts <- Writings, FirstOwner <- Landlords,
  FirstGuild <- Sworn

(* Every bed stands in a house, and nobody owns two houses when they are    *)
(* loaded.                                                                 *)
ASSUME HouseAssumption ==
  /\ Nobody \notin Tenants \union Orders \union Ho!BedHalves \union (Estates \X Ho!Lists)
                    \union (Tenants \X Tenants)
  /\ Outdoors \notin Estates /\ StandsIn \in [Bunks -> Estates]
  /\ Walls \in [Bunks -> SUBSET (Estates \union {Outdoors})]
  /\ Writings \in [Estates -> SUBSET SUBSET (Tenants \union Orders)]
  /\ Sworn \in [Tenants -> Orders \union {Nobody}]
  /\ Landlords \in [Estates -> Tenants \union {Nobody}]
  /\ \A g, h \in Estates : Landlords[g] = Landlords[h] => g = h \/ Landlords[g] = Nobody

(* The box is in the bag, which lies on the floor.                         *)
BoxInBag == bag :> 1 @@ box :> bag
Cn == INSTANCE Windows WITH
  Players <- Viewers, Containers <- Boxes, Cells <- Floor, Browsable <- Corner,
  Ids <- Panes, DummyId <- LastPane, Place <- Stowed, MaxDeeds <- MaxShifts,
  None <- Nobody, pos <- standsAt, loc <- lies, window <- windowOf,
  client <- shown, refs <- fieldRefs, lost <- forgotten, deeds <- shifts

(* What containers lie in is no circle, and a cell, a player, a container, *)
(* a browse field and Nobody are not one another.                          *)
ASSUME WindowsAssumption ==
  /\ IsFiniteSet(Viewers) /\ IsFiniteSet(Panes) /\ IsFiniteSet(Boxes)
  /\ Floor \subseteq Int /\ Corner \in Floor
  /\ Panes \subseteq Nat /\ LastPane \in Panes
  /\ MaxFields \in Nat /\ MaxShifts \in Nat
  /\ Nobody \notin Floor \union Viewers \union Boxes \union Cn!Fields
  /\ Viewers \intersect (Floor \union Boxes) = {}
  /\ Boxes \intersect (Floor \union Cn!Fields) = {}
  /\ Stowed \in [Boxes -> Floor \union Viewers \union Boxes]
  /\ \A S \in SUBSET Boxes : S # {} => \E c \in S : Stowed[c] \notin S

chatVars == <<inGame, users, owner, invites, <<guildOf, guilds, membersOnline,
              dangling, deserted>>, partyOf, been>>
spawnVars == <<spawnedMap, due, checkSpawnEvent, scheduled, life, away, mine,
               counter, started>>
raidVars == <<load, raidList, running, startedUp, nextEvent, nextEventEvent,
              tasks, handed, chains, checks, deleted, missed, blurred, struck>>
speechVars == <<buffer, ticks, muted, muteCount, exhausted, said, pardoned,
                served>>
houseVars == <<houseOwner, lists, memberOf, <<place, changed>>, playing,
               sleeper, bedSleepers, dialog, window, deal, kicks>>
windowsVars == <<standsAt, lies, windowOf, shown, field, fieldRefs, fields,
                 timers, forgotten, shifts>>
talkVars == <<chatVars, speechVars>>
allVars == <<part, vars, talkVars, spawnVars, raidVars,
             houseVars, windowsVars>>

MCInit ==
  /\ Init /\ Ta!ChatInit /\ Ta!SpeechInit
  /\ Wi!SpawnsInit /\ Wi!RaidsInit /\ Ho!Init /\ Cn!Init
  /\ part \in {"party", "chat", "speech", "spawns", "raids",
               "houses", "windows"}

PartyNext ==
  /\ part = "party" /\ Next
  /\ UNCHANGED <<part, talkVars, spawnVars, raidVars, houseVars,
                 windowsVars>>
ChatNext ==
  /\ part = "chat" /\ Ta!ChatNext
  /\ UNCHANGED <<part, vars, speechVars, spawnVars, raidVars, houseVars,
                 windowsVars>>
SpeechNext ==
  /\ part = "speech" /\ Ta!SpeechNext
  /\ UNCHANGED <<part, vars, chatVars, spawnVars, raidVars, houseVars,
                 windowsVars>>
SpawnsNext ==
  /\ part = "spawns" /\ Wi!SpawnsNext
  /\ UNCHANGED <<part, vars, talkVars, raidVars, houseVars,
                 windowsVars>>
RaidsNext ==
  /\ part = "raids" /\ Wi!RaidsNext
  /\ UNCHANGED <<part, vars, talkVars, spawnVars, houseVars,
                 windowsVars>>
HousesNext ==
  /\ part = "houses" /\ Ho!Next
  /\ UNCHANGED <<part, vars, talkVars, spawnVars, raidVars,
                 windowsVars>>
WindowsNext ==
  /\ part = "windows" /\ Cn!Next
  /\ UNCHANGED <<part, vars, talkVars, spawnVars, raidVars,
                 houseVars>>
MCNext ==
  \/ PartyNext \/ ChatNext \/ SpeechNext
  \/ SpawnsNext \/ RaidsNext \/ HousesNext
  \/ WindowsNext

MCSpec == MCInit /\ [][MCNext]_allVars
-----------------------------------------------------------------------------
(* Invariants: see those of the same names in the components, each of      *)
(* which comes with the types of its variables.                            *)
PartiesHold == part = "party" => TypeOK /\ PartiesAreSound
HousesAreSound == part = "houses" => Ho!TypeOK /\ Ho!HousesAreSound
WindowsAreSound == part = "windows" => Cn!TypeOK /\ Cn!WindowsAreSound

(* Invariant: who talks to whom; see ChannelsAreSound and SpeechIsSound    *)
(* in Talk.                                                                *)
ChannelsAreSound ==
  /\ part = "chat" => Ta!ChatTypeOK /\ Ta!ChannelsAreSound
  /\ part = "speech" => Ta!SpeechTypeOK /\ Ta!SpeechIsSound

(* Invariant: what brings monsters into the world; see SpawnsAreSound and  *)
(* RaidsAreSound in Wildlife.                                              *)
WildlifeIsSound ==
  /\ part = "spawns" => Wi!SpawnsTypeOK /\ Wi!SpawnsAreSound
  /\ part = "raids" => Wi!RaidsTypeOK /\ Wi!RaidsAreSound
===============================================================================
