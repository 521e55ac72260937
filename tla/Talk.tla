--------------------------------- MODULE Talk ---------------------------------
(***************************************************************************)
(* Who hears whom: the channels, and what is said to those around; no      *)
(* state is shared but the players.                                        *)
(***************************************************************************)
EXTENDS Naturals, FiniteSets
-----------------------------------------------------------------------------
(***************************************************************************)
(* Chat channels and guilds (chat.cpp, guild.cpp, game.cpp).  A channel    *)
(* holds pointers to the players that hear it, a private one also to those *)
(* who are invited, and a Guild to its members in the game; none of these  *)
(* is looked at again unless an operation of its own does so.              *)
(*                                                                         *)
(* The channel of a party is found by the address of the Party object, and *)
(* is never deleted: a new party may come to lie where an old one was.     *)
(* Scripts of public channels may refuse, and then nothing happens.  A     *)
(* guild that a player is moved out of into one that has no rank of level  *)
(* 1 keeps the pointer, and so does its list when that player is gone.     *)
(***************************************************************************)
CONSTANTS
  Players,
  Premium,         (* those who may have a channel of their own            *)
  PublicIds,       (* channels that the file may list                      *)
  Barred,          (* those whom the scripts of these never let in: bound  *)
  PrivateIds,      (* ids of private channels; bound                       *)
  Guilds,
  Parties,         (* addresses of Party objects                           *)
  None

VARIABLES
  inGame,          (* the players in the game                              *)
  users,           (* by channel: the players that hear it                 *)
  owner,           (* PrivateChatChannel::owner                            *)
  invites,         (* PrivateChatChannel::invites                          *)
  guildOf,         (* Player::guild, and what the database says of others  *)
  guilds,          (* Game::guilds: the Guild objects                      *)
  membersOnline,   (* Guild::membersOnline: those in the game, ...         *)
  dangling,        (* ... and the guilds that have one who is gone, too    *)
  deserted,        (* history: those that a player left unnoticed          *)
  partyOf,         (* Player::party                                        *)
  been             (* guilds and parties of a player since it connected    *)

guildVars == <<guildOf, guilds, membersOnline, dangling, deserted>>
chatVars == <<inGame, users, owner, invites, guildVars, partyOf, been>>

Kinds == {"guild", "party", "public", "private"}
Names == PublicIds \union PrivateIds \union Guilds \union Parties
Existing == DOMAIN users
Private(i) == <<"private", i>>

ChatTypeOK ==
  /\ inGame \subseteq Players
  /\ Existing \subseteq Kinds \X Names /\ \A k \in Existing : users[k] \subseteq Players
  /\ owner \in [PrivateIds -> Players \union {None}]
  /\ invites \in [PrivateIds -> SUBSET Players]
  /\ guildOf \in [Players -> Guilds \union {None}]
  /\ guilds \subseteq Guilds /\ membersOnline \in [Guilds -> SUBSET Players]
  /\ dangling \subseteq Guilds /\ deserted \subseteq Guilds
  /\ partyOf \in [Players -> Parties \union {None}]
  /\ been \in [Players -> SUBSET (Guilds \union Parties)]

ChatInit ==
  /\ inGame = {} /\ guilds = {}
  /\ users = [k \in {"public"} \X PublicIds |-> {}]
  /\ owner = [i \in PrivateIds |-> None]
  /\ invites = [i \in PrivateIds |-> {}]
  /\ guildOf = [p \in Players |-> None]
  /\ membersOnline = [g \in Guilds |-> {}] /\ dangling = {} /\ deserted = {}
  /\ partyOf = [p \in Players |-> None]
  /\ been = [p \in Players |-> {}]
-----------------------------------------------------------------------------
(* Chat::getChannel: the channels that p can name.                         *)
IsInvited(p, i) == owner[i] = p \/ p \in invites[i]

Visible(p, party) ==
  {k \in Existing :
     CASE k[1] = "guild" -> guildOf[p] = k[2]
       [] k[1] = "party" -> party[p] = k[2]
       [] k[1] = "public" -> p \notin Barred
       [] k[1] = "private" -> IsInvited(p, k[2])}

(* The map of channels with S added, and with S deleted.                   *)
Opened(u, S) == [k \in DOMAIN u \union S |-> IF k \in DOMAIN u THEN u[k] ELSE {}]
Deleted(u, S) == [k \in DOMAIN u \ S |-> u[k]]

OwnChannels(p) == {Private(i) : i \in {j \in PrivateIds : owner[j] = p}}

(* removeUserFromChannel, for a channel that p can name.                   *)
Without(u, p, k) ==
  IF k \in OwnChannels(p) /\ p \in u[k] THEN Deleted(u, {k})
  ELSE [u EXCEPT ![k] = @ \ {p}]

ButForParties(u, p) ==
  [k \in DOMAIN u \ OwnChannels(p) |-> IF k[1] = "party" THEN u[k] ELSE u[k] \ {p}]
(* removeUserFromAllChannels, which takes the invitations too.             *)
WithoutAnywhere(u, p) ==
  [k \in DOMAIN u \ OwnChannels(p) |-> u[k] \ {p}]

Disowned(p) ==
  /\ owner' = [i \in PrivateIds |-> IF owner[i] = p THEN None ELSE owner[i]]
  /\ invites' = [i \in PrivateIds |-> IF owner[i] = p THEN {} ELSE invites[i] \ {p}]

ClosedChannels(k) ==
  /\ owner' = [i \in PrivateIds |-> IF Private(i) = k THEN None ELSE owner[i]]
  /\ invites' = [i \in PrivateIds |-> IF Private(i) = k THEN {} ELSE invites[i]]
-----------------------------------------------------------------------------
(* playerRequestChannels: getChannelList makes the channels of the party   *)
(* and the guild of p when nobody has asked for them before.               *)
RequestChannels(p) ==
  /\ p \in inGame
  /\ users' = Opened(users, {<<"guild", g>> : g \in {guildOf[p]} \ {None}}
                     \union {<<"party", P>> : P \in {partyOf[p]} \ {None}})
  /\ UNCHANGED <<inGame, owner, invites, guildVars, partyOf, been>>

(* playerOpenChannel                                                       *)
OpenChannel(p, k) ==
  /\ p \in inGame /\ k \in Visible(p, partyOf) /\ p \notin users[k]
  /\ users' = [users EXCEPT ![k] = @ \union {p}]
  /\ UNCHANGED <<inGame, owner, invites, guildVars, partyOf, been>>

(* playerCloseChannel                                                      *)
CloseChannel(p, k) ==
  /\ p \in inGame /\ k \in Visible(p, partyOf) /\ p \in users[k]
  /\ users' = Without(users, p, k)
  /\ IF k \in OwnChannels(p) THEN ClosedChannels(k) ELSE UNCHANGED <<owner, invites>>
  /\ UNCHANGED <<inGame, guildVars, partyOf, been>>

(* playerCreatePrivateChannel: the first free id, one for each player.     *)
CreatePrivateChannel(p) ==
  /\ p \in inGame \intersect Premium /\ OwnChannels(p) = {}
  /\ \E i \in PrivateIds :
       /\ Private(i) \notin Existing
       /\ \A j \in PrivateIds : j < i => Private(j) \in Existing
       /\ users' = [Opened(users, {Private(i)}) EXCEPT ![Private(i)] = {p}]
       /\ owner' = [owner EXCEPT ![i] = p]
  /\ UNCHANGED <<inGame, invites, guildVars, partyOf, been>>

(* playerChannelInvite                                                     *)
ChannelInvite(p, q) ==
  /\ p \in inGame /\ q \in inGame /\ p # q
  /\ \E i \in PrivateIds :
       /\ owner[i] = p
       /\ invites' = [invites EXCEPT ![i] = @ \union {q}]
  /\ UNCHANGED <<inGame, users, owner, guildVars, partyOf, been>>

(* playerChannelExclude                                                    *)
ChannelExclude(p, q) ==
  /\ p \in inGame /\ q \in inGame /\ p # q
  /\ \E i \in PrivateIds :
       /\ owner[i] = p /\ q \in invites[i]
       /\ invites' = [invites EXCEPT ![i] = @ \ {q}]
       /\ users' = [users EXCEPT ![Private(i)] = @ \ {q}]
  /\ UNCHANGED <<inGame, owner, guildVars, partyOf, been>>

(* The file is read again: every public channel is a new one.              *)
Load(ids) ==
  /\ users' = [k \in (Existing \ ({"public"} \X PublicIds)) \union ({"public"} \X ids)
                |-> IF k[1] = "public" THEN {} ELSE users[k]]
  /\ UNCHANGED <<inGame, owner, invites, guildVars, partyOf, been>>
-----------------------------------------------------------------------------
(* Guild::removeMember: the last member takes the object with it.          *)
LastOf(g, p) == membersOnline[g] \subseteq {p} /\ g \notin dangling
LeftBy(p) == {g \in Guilds : guildOf[p] = g /\ LastOf(g, p)}

(* loadPlayer finds or makes the guild, onCreatureAppear joins it.         *)
LogIn(p, g) ==
  /\ p \notin inGame
  /\ inGame' = inGame \union {p}
  /\ guildOf' = [guildOf EXCEPT ![p] = g]
  /\ guilds' = guilds \union ({g} \ {None})
  /\ membersOnline' = [x \in Guilds |-> IF x = g THEN membersOnline[x] \union {p}
                                        ELSE membersOnline[x]]
  /\ been' = [been EXCEPT ![p] = {g} \ {None}]
  /\ UNCHANGED <<users, owner, invites, dangling, deserted, partyOf>>

(* A player is loaded for its mail or its bank account only.               *)
LoadForAWhile(g) ==
  /\ guilds' = guilds \union {g}
  /\ UNCHANGED <<inGame, users, owner, invites, guildOf, membersOnline, dangling, deserted,
                 partyOf, been>>

(* Player::onRemoveCreature: the party, the channels, then the guild; any  *)
(* other guild that has the player keeps a pointer to an object that is    *)
(* deleted.                                                                *)
LogOut(p) ==
  /\ p \in inGame
  /\ inGame' = inGame \ {p}
  /\ partyOf' = [partyOf EXCEPT ![p] = None]
  /\ users' = WithoutAnywhere(users, p)
  /\ Disowned(p)
  /\ guilds' = guilds \ LeftBy(p)
  /\ membersOnline' = [g \in Guilds |-> membersOnline[g] \ {p}]
  /\ dangling' = dangling \union {g \in Guilds : p \in membersOnline[g] /\ guildOf[p] # g}
  /\ guildOf' = [guildOf EXCEPT ![p] = None]
  /\ been' = [been EXCEPT ![p] = {}]
  /\ deserted' = deserted \ LeftBy(p)

(* ProtocolGame::connect: a new client takes the player over.              *)
Connect(p) ==
  /\ p \in inGame
  /\ users' = WithoutAnywhere(users, p)
  /\ Disowned(p)
  /\ been' = [been EXCEPT ![p] = {guildOf[p], partyOf[p]} \ {None}]
  /\ UNCHANGED <<inGame, guildVars, partyOf>>

(* Player::setGuild, from a script.  The channel of the old guild keeps    *)
(* the player; so does the old guild itself if the new one, of which there *)
(* is no more to say, has no rank of level 1, and then he has none.        *)
SetGuild(p, g) ==
  /\ p \in inGame /\ guildOf[p] # g
  /\ g # None => g \in guilds
  /\ guildOf' = [guildOf EXCEPT ![p] = g]
  /\ been' = [been EXCEPT ![p] = @ \union ({g} \ {None})]
  /\ guilds' = guilds \ LeftBy(p)
  /\ membersOnline' = [x \in Guilds |->
                         IF x = g THEN membersOnline[x] \union {p}
                         ELSE IF x = guildOf[p] THEN membersOnline[x] \ {p}
                         ELSE membersOnline[x]]
  /\ deserted' = deserted \ LeftBy(p)
  /\ UNCHANGED <<inGame, users, owner, invites, dangling, partyOf>>
SetRanklessGuild(p) ==
  /\ p \in inGame /\ guildOf[p] # None
  /\ guildOf' = [guildOf EXCEPT ![p] = None]
  /\ deserted' = deserted \union {guildOf[p]}
  /\ UNCHANGED <<inGame, users, owner, invites, guilds, membersOnline, dangling, partyOf, been>>

(* p joins or leaves a party, or it is disbanded: setParty(nullptr) comes  *)
(* first, and then sendClosePrivate looks for the channel of no party.     *)
SetParty(p, P) ==
  /\ p \in inGame /\ partyOf[p] # P
  /\ partyOf[p] = None \/ P = None
  /\ partyOf' = [partyOf EXCEPT ![p] = P]
  /\ users' = IF P = None
              THEN [k \in Existing |-> IF k[1] = "party" /\ k \in Visible(p, partyOf')
                                       THEN users[k] \ {p} ELSE users[k]]
              ELSE users
  /\ been' = [been EXCEPT ![p] = @ \union ({P} \ {None})]
  /\ UNCHANGED <<inGame, owner, invites, guildVars>>
-----------------------------------------------------------------------------
ChatNext ==
  \/ \E p \in Players :
       \/ RequestChannels(p) \/ CreatePrivateChannel(p) \/ LogOut(p) \/ Connect(p)
       \/ SetRanklessGuild(p)
       \/ \E k \in Existing : OpenChannel(p, k) \/ CloseChannel(p, k)
       \/ \E q \in Players : ChannelInvite(p, q) \/ ChannelExclude(p, q)
       \/ \E g \in Guilds \union {None} : LogIn(p, g) \/ SetGuild(p, g)
       \/ \E P \in Parties \union {None} : SetParty(p, P)
  \/ \E ids \in SUBSET PublicIds : Load(ids)
  \/ \E g \in Guilds : LoadForAWhile(g)

ChatSpec == ChatInit /\ [][ChatNext]_chatVars
-----------------------------------------------------------------------------
(* talkToChannel: those who hear what p says, for a channel p can name.    *)
Audience(p, k) == IF k \in Visible(p, partyOf) /\ p \in users[k] THEN users[k] ELSE {}

(* No pointer to a player who is gone, in a channel or an invitation; a    *)
(* player's guild exists and has him; and a guild has no one else, and     *)
(* nobody who is gone, unless a player left it for one without ranks.      *)
NobodyDangles ==
  /\ \A k \in Existing : users[k] \subseteq inGame
  /\ \A i \in PrivateIds : invites[i] \subseteq inGame
  /\ \A p \in inGame : guildOf[p] # None => guildOf[p] \in guilds
                                            /\ p \in membersOnline[guildOf[p]]
  /\ \A g \in Guilds \ deserted :
       g \notin dangling /\ \A p \in membersOnline[g] : p \in inGame /\ guildOf[p] = g

(* A private channel has an owner who hears it, one for each owner, and    *)
(* what is said there reaches the owner and those who are invited only.    *)
PrivateIsPrivate ==
  \A i \in PrivateIds :
    /\ Private(i) \in Existing <=> owner[i] # None
    /\ owner[i] # None =>
         /\ owner[i] \in users[Private(i)]
         /\ OwnChannels(owner[i]) = {Private(i)}
         /\ \A p \in inGame : Audience(p, Private(i)) \subseteq {owner[i]} \union invites[i]

(* A guild or party channel may keep those who left, and the next party at *)
(* the same place inherits them, but it has nobody who was in neither.     *)
OnlyFormerMembers ==
  \A k \in Existing : k[1] \in {"guild", "party"} => \A p \in users[k] : k[2] \in been[p]

(* Invariant: through logins, takeovers, invitations, reloads and changes  *)
(* of party and guild, no channel points at a player who is gone, and a    *)
(* guild only if somebody left it for one without a rank of level 1; a     *)
(* private channel stays private, and a closed circle hears itself, its    *)
(* former members, and nobody else.                                        *)
ChannelsAreSound == NobodyDangles /\ PrivateIsPrivate /\ OnlyFormerMembers
-----------------------------------------------------------------------------
(***************************************************************************)
(* What players say (Game::playerSay and what it calls): who hears it, and *)
(* the buffer that mutes a player who says too much.  Each message counts  *)
(* up, one in two seconds counts down, and whoever is above the limit is   *)
(* muted, each time for longer, but still heard with the message that was  *)
(* one too many.  The number of times outlives the session, and the mute   *)
(* is stored with the player; the buffer is not.  Commands and spells, and *)
(* what is told to NPCs, do not count.                                     *)
(*                                                                         *)
(* A step of Think is a second of the player, in which it thinks and then  *)
(* its conditions are executed.  Nobody walks.                             *)
(***************************************************************************)
CONSTANTS
  Npcs,
  Place,           (* where everybody stands, on a line                    *)
  Whisper,         (* how far a whisper is understood                      *)
  Sight,           (* how far speech is heard                              *)
  Shout,           (* how far a yell is heard                              *)
  Novices,         (* the players at level 1                               *)
  Immune,          (* those with PlayerFlag_CannotBeMuted                  *)
  MaxBuffer,       (* maxMessageBuffer                                     *)
  MuteUnit,        (* seconds of the first mute: 5                         *)
  Exhaustion,      (* seconds between two yells: 30                        *)
  MaxMutes         (* bound: times a player is muted                       *)

VARIABLES
  buffer,          (* MessageBufferCount                                   *)
  ticks,           (* MessageBufferTicks, in seconds                       *)
  muted,           (* seconds of CONDITION_MUTED                           *)
  muteCount,       (* muteCountMap                                         *)
  exhausted,       (* seconds of CONDITION_YELLTICKS                       *)
  said,            (* history: what was said last, and who understood it   *)
  pardoned,        (* history: players whose mute a script took away       *)
  served           (* history: the longest mute a player was given         *)

speechVars == <<buffer, ticks, muted, muteCount, exhausted, said, pardoned, served>>

Listeners == Players \cup Npcs
Ways == {"say", "whisper", "yell", "private", "toNpc", "spell", "command", "failed"}
Distance(p, q) == IF Place[p] > Place[q] THEN Place[p] - Place[q] ELSE Place[q] - Place[p]
MuteTime(n) == MuteUnit * n * n

SpeechTypeOK ==
  /\ \A p \in Players :
       /\ buffer[p] \in 0 .. MaxBuffer + 2 /\ ticks[p] \in 0 .. 1
       /\ muted[p] \in 0 .. MuteTime(MaxMutes) /\ muteCount[p] \in 1 .. MaxMutes + 1
       /\ exhausted[p] \in 0 .. Exhaustion
       /\ served[p] \in 0 .. MuteTime(MaxMutes)
  /\ said \in [by : Players, kind : Ways, to : Players, heard : SUBSET Listeners]
  /\ pardoned \subseteq Players

SpeechInit ==
  /\ buffer = [p \in Players |-> 0] /\ ticks = buffer /\ muted = buffer
  /\ exhausted = buffer /\ served = buffer
  /\ muteCount = [p \in Players |-> 1]
  /\ LET somebody == CHOOSE p \in Players : TRUE
     IN said = [by |-> somebody, kind |-> "command", to |-> somebody, heard |-> {}]
  /\ pardoned = {}
-----------------------------------------------------------------------------
(* Who understands: everybody in range, whoever it is meant for; one who   *)
(* whispers is heard by those who are near.                                *)
InRange(p, d) == {q \in Listeners : Distance(p, q) <= d}
CreatureSay(p, kind) == InRange(p, IF kind = "yell" THEN Shout ELSE Sight)
WhisperTo(p) == InRange(p, Whisper) \cup (InRange(p, Sight) \cap Npcs)
SpeakToNpc(p) == InRange(p, Sight) \cap Npcs
Understands(p, kind, to) ==
  CASE kind \in {"say", "spell", "yell"} -> CreatureSay(p, kind)
    [] kind = "whisper" -> WhisperTo(p)
    [] kind = "toNpc" -> SpeakToNpc(p)
    [] kind = "private" -> {to}
    [] OTHER -> {}

Heard(p, kind, to) ==
  said' = [by |-> p, kind |-> kind, to |-> IF kind = "private" THEN to ELSE p,
           heard |-> Understands(p, kind, to)]

(* isMuted().                                                              *)
IsMuted(p) == p \notin Immune /\ muted[p] > 0

(* removeMessageBuffer(): a full buffer is counted on once more, never     *)
(* beyond.                                                                 *)
TooMuch(n) == n > MaxBuffer
RemoveMessageBuffer(p) ==
  IF p \in Immune \/ buffer[p] > MaxBuffer + 1
  THEN UNCHANGED <<buffer, muted, muteCount, served>>
  ELSE /\ buffer' = [buffer EXCEPT ![p] = @ + 1]
       /\ IF TooMuch(buffer[p] + 1)
          THEN /\ muteCount[p] <= MaxMutes
               /\ muted' = [muted EXCEPT ![p] = MuteTime(muteCount[p])]
               /\ muteCount' = [muteCount EXCEPT ![p] = @ + 1]
               /\ served' = [served EXCEPT ![p] = MuteTime(muteCount[p])]
          ELSE UNCHANGED <<muted, muteCount, served>>

(* playerSayCommand() and playerSaySpell() come before the buffer: a       *)
(* command, a talk action or a spell is not counted, and only the words of *)
(* a spell that was cast are said.                                         *)
SaysSpell(p, kind) ==
  /\ kind \in {"spell", "command", "failed"}
  /\ Heard(p, kind, p)
  /\ UNCHANGED <<buffer, muted, muteCount, served, exhausted>>

(* playerYell(): it is counted, whether it is heard or not.                *)
Yell(p) ==
  IF p \in Novices \/ exhausted[p] > 0
  THEN UNCHANGED <<exhausted, said>>
  ELSE /\ exhausted' = [exhausted EXCEPT ![p] = Exhaustion]
       /\ Heard(p, "yell", p)

Counted(kind) == kind # "toNpc"
Speak(p, kind, to) ==
  /\ kind \notin {"spell", "command", "failed"}
  /\ IF Counted(kind) THEN RemoveMessageBuffer(p)
     ELSE UNCHANGED <<buffer, muted, muteCount, served>>
  /\ IF kind = "yell" THEN Yell(p)
     ELSE Heard(p, kind, to) /\ UNCHANGED exhausted

(* playerSay().                                                            *)
PlayerSay(p, kind, to) ==
  /\ ~IsMuted(p)
  /\ SaysSpell(p, kind) \/ Speak(p, kind, to)
  /\ UNCHANGED <<ticks, pardoned>>

(* A second: addMessageBuffer() when one and a half have gone by, which is *)
(* after every other; then the conditions.                                 *)
Less(n) == IF n = 0 THEN 0 ELSE n - 1
Think(p) ==
  /\ ticks' = [ticks EXCEPT ![p] = 1 - @]
  /\ buffer' = [buffer EXCEPT ![p] = IF ticks[p] = 1 /\ p \notin Immune THEN Less(@) ELSE @]
  /\ muted' = [muted EXCEPT ![p] = Less(@)]
  /\ exhausted' = [exhausted EXCEPT ![p] = Less(@)]
  /\ UNCHANGED <<muteCount, said, pardoned, served>>

(* The player logs out and in again: a new object, with its conditions.    *)
Relog(p) ==
  /\ buffer' = [buffer EXCEPT ![p] = 0] /\ ticks' = [ticks EXCEPT ![p] = 0]
  /\ UNCHANGED <<muted, muteCount, exhausted, said, pardoned, served>>

(* A script removes the condition.                                         *)
Pardon(p) ==
  /\ muted[p] > 0
  /\ muted' = [muted EXCEPT ![p] = 0] /\ pardoned' = pardoned \cup {p}
  /\ UNCHANGED <<buffer, ticks, muteCount, exhausted, said, served>>

SpeechNext ==
  \E p \in Players :
    \/ \E kind \in Ways, to \in Players \ {p} : PlayerSay(p, kind, to)
    \/ Think(p)
    \/ Relog(p)
    \/ Pardon(p)
-----------------------------------------------------------------------------
(* Who was muted and has waited may speak at least once more before it is  *)
(* muted again, for the buffer drains while it waits; nobody's buffer runs *)
(* away; and every mute is longer than those before it, also in a later    *)
(* session.                                                                *)
MutesAreServed ==
  \A p \in Players :
    /\ p \notin pardoned /\ ~IsMuted(p) => buffer[p] < MaxBuffer + 1
    /\ muted[p] <= served[p]
    /\ served[p] = MuteTime(muteCount[p] - 1)
    /\ p \in Immune => buffer[p] = 0 /\ muted[p] = 0

(* What is whispered is understood by the players who are near, what is    *)
(* told to an NPC or to one player by nobody else, and a command by none.  *)
SecretsAreKept ==
  \A q \in said.heard \ {said.by} :
    /\ said.kind = "whisper" /\ q \in Players => Distance(said.by, q) <= Whisper
    /\ said.kind = "private" => q = said.to
    /\ said.kind = "toNpc" => q \in Npcs
    /\ said.kind = "yell" => said.by \notin Novices
    /\ said.kind # "command"

SpeechIsSound == MutesAreServed /\ SecretsAreKept
===============================================================================
