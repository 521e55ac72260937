-------------------------------- MODULE Entries -------------------------------
(***************************************************************************)
(* Who may come in: the throttle of the accepting port (ban.cpp), what the *)
(* login of a character checks and writes, and the premium days of an      *)
(* account; no state is shared.                                            *)
(***************************************************************************)
EXTENDS Integers, Sequences, FiniteSets
-----------------------------------------------------------------------------
(***************************************************************************)
(* How often one address may connect (Ban::acceptConnection) and ask for   *)
(* the status (ProtocolStatus::onRecvFirstMessage).  The first counts the  *)
(* connections that follow each other closely enough, and blocks on one    *)
(* that comes too fast after several others; what it remembers is the last *)
(* attempt that was not in a block.                                        *)
(*                                                                         *)
(* Times are kept as what has passed since, up to where it makes no        *)
(* difference any more.  Other addresses have entries of their own.        *)
(***************************************************************************)
CONSTANTS
  Window, Rapid,   (* 5000 and 500 ms                                      *)
  Limit,           (* five connections in a row                            *)
  BlockTime, Penalty, (* 3000 and 250 ms                                   *)
  StatusTimeout,   (* STATUSQUERY_TIMEOUT                                  *)
  Trusted,         (* is it the server's own address?                      *)
  MaxBlock         (* bound on what refused attempts add to a block        *)

VARIABLES
  known,           (* has it an entry in ipConnectMap?                     *)
  lastAttempt,     (* what has passed since                                *)
  blockTime,       (* what is left of the block                            *)
  count,
  statusAsked,     (* what has passed since the answered query, or more    *)
  waiting,         (* is there a connection whose message is to come?      *)
  sinceAccepted, burst, (* history: how long ago it was let in, and how    *)
                   (* often in a row without longer pauses than Rapid      *)
  chain,           (* history: connections in a row within Window          *)
  refused          (* history: was the last attempt refused, out of a block?*)

throttleVars == <<known, lastAttempt, blockTime, count, statusAsked, waiting,
                  sinceAccepted, burst, chain, refused>>

Long == IF Window > StatusTimeout THEN Window + 1 ELSE StatusTimeout + 1
Older(age, by) == IF age + by > Long THEN Long ELSE age + by

ThrottleTypeOK ==
  /\ known \in BOOLEAN /\ lastAttempt \in 0..Long /\ blockTime \in 0..(MaxBlock + Penalty)
  /\ count \in 0..Limit /\ statusAsked \in 0..Long /\ waiting \in BOOLEAN
  /\ sinceAccepted \in 0..Long /\ burst \in Nat /\ chain \in 0..(Limit + 1)
  /\ refused \in BOOLEAN

ThrottleInit ==
  /\ known = FALSE /\ lastAttempt = Long /\ blockTime = 0 /\ count = 0
  /\ statusAsked = Long /\ waiting = FALSE
  /\ sinceAccepted = Long /\ burst = 0 /\ chain = 0 /\ refused = FALSE
-----------------------------------------------------------------------------
(* Ban::acceptConnection: the count after an attempt, and does it block?   *)
Counted == IF lastAttempt > Window THEN 1 ELSE IF count + 1 > Limit THEN 0 ELSE count + 1
Blocks == lastAttempt <= Rapid /\ count + 1 > Limit

Accepted ==
  /\ sinceAccepted' = 0 /\ refused' = FALSE /\ waiting' = TRUE
  /\ burst' = IF sinceAccepted <= Rapid THEN burst + 1 ELSE 1

InARow == IF lastAttempt > Window THEN 1 ELSE IF chain > Limit THEN chain ELSE chain + 1

First ==
  /\ ~known /\ known' = TRUE /\ lastAttempt' = 0 /\ blockTime' = 0 /\ count' = 1
  /\ chain' = 1 /\ Accepted /\ UNCHANGED statusAsked

InBlock ==
  /\ blockTime > 0 /\ blockTime <= MaxBlock /\ blockTime' = blockTime + Penalty
  /\ UNCHANGED <<known, lastAttempt, count, statusAsked, waiting, sinceAccepted, burst,
                 chain, refused>>

Attempt ==
  /\ known /\ blockTime = 0 /\ lastAttempt' = 0 /\ count' = Counted /\ chain' = InARow
  /\ IF Blocks
     THEN /\ blockTime' = BlockTime /\ refused' = TRUE
          /\ UNCHANGED <<waiting, sinceAccepted, burst>>
     ELSE blockTime' = 0 /\ Accepted
  /\ UNCHANGED <<known, statusAsked>>

(* The message of a connection asks for the status, or for something else. *)
Query ==
  /\ waiting /\ waiting' = FALSE
  /\ statusAsked' = IF Trusted \/ statusAsked >= StatusTimeout THEN 0 ELSE statusAsked
  /\ UNCHANGED <<known, lastAttempt, blockTime, count, sinceAccepted, burst, chain, refused>>

Pass(time) ==
  /\ lastAttempt' = Older(lastAttempt, time) /\ statusAsked' = Older(statusAsked, time)
  /\ sinceAccepted' = Older(sinceAccepted, time)
  /\ blockTime' = IF blockTime > time THEN blockTime - time ELSE 0
  /\ UNCHANGED <<known, count, waiting, burst, chain, refused>>

ThrottleNext == First \/ InBlock \/ Attempt \/ Query \/ Pass(1)
ThrottleSpec == ThrottleInit /\ [][ThrottleNext]_throttleVars
-----------------------------------------------------------------------------
(* Nobody gets in more often in a burst than Limit allows, the one before  *)
(* it included; and only who came more often than that, at least once in   *)
(* each Window, is ever blocked.                                           *)
BurstsAreCut == burst <= Limit + 1 /\ (refused => chain > Limit)
-----------------------------------------------------------------------------
(***************************************************************************)
(* The way of a character into the game: first on the network's thread,    *)
(* where the address and the account are looked up, and then, by a task,   *)
(* on the dispatcher's (ProtocolGame::onRecvFirstMessage, login); the bans *)
(* (IOBan); and the table of the players that are online.                  *)
(*                                                                         *)
(* There is one account.  An expired ban is moved to the history and       *)
(* erased by two jobs of the database's thread (see DatabaseTasks).  Web   *)
(* sites and scripts write the tables of accounts, players and bans.  What *)
(* else may keep a player out see in WaitingList, PlayerSession and Server.*)
(***************************************************************************)
CONSTANTS
  Characters,      (* of the account                                       *)
  Immune,          (* those with PlayerFlag_CannotBeBanned                 *)
  MaxBans, MaxWrites, MaxJobs, MaxLogins (* bounds                         *)

VARIABLES
  gamemaster,      (* is the account's type at least GAMEMASTER?           *)
  deleted, locked, (* characters                                           *)
  ban,             (* of the account and of the address                    *)
  archived,        (* account_ban_history                                  *)
  playersOnline,   (* the table                                            *)
  jobs,            (* of the database's thread                             *)
  logins,          (* the login tasks of the dispatcher                    *)
  online, ghosts,
  ordinary,        (* history: who was no gamemaster's when he came in     *)
  wrongly,         (* history: who came in deleted, locked or banned       *)
  ended, lost, doubled, (* history: bans that ran out, was one in force    *)
                   (* erased, was one seen that was to be erased already?  *)
  bans, writes

tableVars == <<gamemaster, deleted, locked, writes>>
banVars == <<ban, archived, jobs, ended, lost, doubled, bans>>
gameVars == <<playersOnline, online, ghosts, ordinary, wrongly>>
entryVars == <<tableVars, banVars, gameVars, logins>>

BanKinds == {"account", "ip"}
EntriesTypeOK ==
  /\ gamemaster \in BOOLEAN
  /\ deleted \subseteq Characters /\ locked \subseteq Characters
  /\ ban \in [BanKinds -> {"none", "running", "expired"}]
  /\ archived \in Nat /\ ended \in 0..MaxBans /\ lost \in BOOLEAN /\ doubled \in BOOLEAN
  /\ jobs \in Seq([op : {"archive", "erase"}, of : BanKinds])
  /\ online \subseteq Characters /\ ghosts \subseteq online
  /\ playersOnline \subseteq Characters
  /\ ordinary \subseteq online /\ wrongly \subseteq online
  /\ logins \in Seq(Characters)
  /\ bans \in 0..MaxBans /\ writes \in 0..MaxWrites

EntriesInit ==
  /\ gamemaster = FALSE /\ deleted = {} /\ locked = {}
  /\ ban = [k \in BanKinds |-> "none"] /\ archived = 0 /\ jobs = <<>>
  /\ ended = 0 /\ lost = FALSE /\ doubled = FALSE
  /\ playersOnline = {} /\ online = {} /\ ghosts = {} /\ logins = <<>>
  /\ ordinary = {} /\ wrongly = {} /\ bans = 0 /\ writes = 0
-----------------------------------------------------------------------------
(* IOBan: whoever meets an expired ban has it moved by two jobs.           *)
Move(k) == IF k = "ip" THEN <<[op |-> "erase", of |-> k]>>
           ELSE <<[op |-> "archive", of |-> k], [op |-> "erase", of |-> k]>>
Erasing(k) == \E i \in 1..Len(jobs) : jobs[i] = [op |-> "erase", of |-> k]
IsBanned(k) == ban[k] = "running"
CheckBan(k) ==
  /\ Len(jobs) < MaxJobs
  /\ jobs' = IF ban[k] = "expired" THEN jobs \o Move(k) ELSE jobs
  /\ doubled' = (doubled \/ (ban[k] = "expired" /\ Erasing(k)))
  /\ UNCHANGED <<ban, archived, ended, lost, bans>>

Job ==
  /\ jobs # <<>> /\ jobs' = Tail(jobs)
  /\ LET j == Head(jobs)
     IN  IF j.op = "archive"
         THEN archived' = archived + 1 /\ UNCHANGED <<ban, lost>>
         ELSE /\ ban' = [ban EXCEPT ![j.of] = "none"]
              /\ lost' = (lost \/ ban[j.of] = "running") /\ UNCHANGED archived
  /\ UNCHANGED <<tableVars, gameVars, logins, ended, doubled, bans>>

(* A row is added where there is none.                                     *)
PlaceBan(k) ==
  /\ ban[k] = "none" /\ bans < MaxBans /\ bans' = bans + 1
  /\ ban' = [ban EXCEPT ![k] = "running"]
  /\ UNCHANGED <<tableVars, gameVars, logins, archived, jobs, ended, lost, doubled>>

Expire(k) ==
  /\ ban[k] = "running" /\ ban' = [ban EXCEPT ![k] = "expired"]
  /\ ended' = IF k = "account" THEN ended + 1 ELSE ended
  /\ UNCHANGED <<tableVars, gameVars, logins, archived, jobs, lost, doubled, bans>>

Write == writes < MaxWrites /\ writes' = writes + 1
Delete(c) ==
  /\ Write /\ deleted' = deleted \union {c}
  /\ UNCHANGED <<gamemaster, locked, banVars, gameVars, logins>>
Lock(c) ==
  /\ Write /\ locked' = locked \union {c}
  /\ UNCHANGED <<gamemaster, deleted, banVars, gameVars, logins>>

(* player:setAccountType                                                   *)
SetAccountType(c) ==
  /\ Write /\ c \in online /\ gamemaster' = ~gamemaster
  /\ UNCHANGED <<deleted, locked, banVars, gameVars, logins>>
-----------------------------------------------------------------------------
(* The network: the address, and gameworldAuthentication                   *)
RecvFirstMessage(c) ==
  /\ Len(logins) < MaxLogins
  /\ CheckBan("ip")
  /\ logins' = IF IsBanned("ip") \/ c \in deleted THEN logins ELSE Append(logins, c)
  /\ UNCHANGED <<tableVars, gameVars>>

(* ProtocolGame::login, of one who is not in the game; onCreatureAppear    *)
(* enters him into the table                                               *)
Loaded(c) == c \notin deleted /\ c \notin locked
OneOnAccount == gamemaster \/ online = {}
Login ==
  /\ logins # <<>> /\ logins' = Tail(logins)
  /\ LET c == Head(logins)
         reaches == c \notin online /\ Loaded(c) /\ OneOnAccount
         enters == reaches /\ (c \in Immune \/ ~IsBanned("account"))
         With(set, in) == IF in THEN set \union {c} ELSE set
     IN  /\ IF reaches /\ c \notin Immune THEN CheckBan("account") ELSE UNCHANGED banVars
         /\ online' = With(online, enters) /\ playersOnline' = With(playersOnline, enters)
         /\ ordinary' = With(ordinary, enters /\ ~gamemaster)
         /\ wrongly' = With(wrongly, enters /\ \/ c \in deleted \union locked
                                               \/ c \notin Immune /\ ban["account"] = "running")
  /\ UNCHANGED <<tableVars, ghosts>>

(* Player::onRemoveCreature                                                *)
Logout(c) ==
  /\ c \in online /\ online' = online \ {c} /\ ghosts' = ghosts \ {c}
  /\ playersOnline' = playersOnline \ {c}
  /\ ordinary' = ordinary \ {c} /\ wrongly' = wrongly \ {c}
  /\ UNCHANGED <<tableVars, banVars, logins>>

(* player:setGhostMode, of what it is not yet                              *)
SetGhostMode(c, enabled) ==
  /\ c \in online /\ (c \in ghosts) # enabled
  /\ ghosts' = IF enabled THEN ghosts \union {c} ELSE ghosts \ {c}
  /\ playersOnline' = IF enabled THEN playersOnline \ {c} ELSE playersOnline \union {c}
  /\ UNCHANGED <<tableVars, banVars, logins, online, ordinary, wrongly>>

EntriesNext ==
  \/ Job \/ Login
  \/ \E k \in BanKinds : PlaceBan(k) \/ Expire(k)
  \/ \E c \in Characters :
       \/ Delete(c) \/ Lock(c) \/ SetAccountType(c) \/ RecvFirstMessage(c) \/ Logout(c)
       \/ \E enabled \in BOOLEAN : SetGhostMode(c, enabled)

EntriesSpec == EntriesInit /\ [][EntriesNext]_entryVars
-----------------------------------------------------------------------------
(* Of the characters in the game at most one came as an ordinary one's,    *)
(* nobody came in deleted, locked or banned, whatever changed between the  *)
(* two threads, and the table holds those who show themselves.             *)
EntryIsLawful ==
  /\ Cardinality(ordinary) <= 1
  /\ wrongly = {}
  /\ playersOnline = online \ ghosts

(* A ban in force is not erased, and one that ran out is archived once:    *)
(* unless two connections saw the same expired ban.                        *)
BansAreKept == lost \/ archived > ended => doubled

EntriesAreSound == EntryIsLawful /\ BansAreKept
-----------------------------------------------------------------------------
(***************************************************************************)
(* The premium days of an account: they are counted when the list of       *)
(* characters is asked for (ProtocolLogin::getCharacterList,               *)
(* Game::updatePremium), and scripts give and take them                    *)
(* (player:addPremiumDays, removePremiumDays).                             *)
(*                                                                         *)
(* The row of the account is read and written at once by each task of the  *)
(* dispatcher.  But a player has a copy of the days from when he came in,  *)
(* and the scripts reckon with that copy.                                  *)
(***************************************************************************)
CONSTANTS
  DayLength,       (* 86400 s, in units of time                            *)
  Granted,         (* the days at first                                    *)
  Most,            (* 0xFFFE                                               *)
  Amounts,         (* of days that scripts give and take                   *)
  MaxSince, MaxGifts (* bounds                                             *)

VARIABLES
  days, counting, since, (* premdays; is lastday set, and how long ago?    *)
  onAccount,
  premiumCopy,     (* Player::premiumDays                                  *)
  told,            (* does the list that was sent last promise premium?    *)
  left,            (* history: what is left, counted as it passes          *)
  overdrawn,       (* history: did a script take more than there was, or   *)
                   (* give more than there may be?                         *)
  gifts

accountVars == <<days, counting, since, onAccount, premiumCopy, told, left, overdrawn, gifts>>

Unlimited == Most + 1
AccountsTypeOK ==
  /\ days \in Int /\ counting \in BOOLEAN /\ since \in 0..MaxSince
  /\ onAccount \subseteq Characters /\ premiumCopy \in [Characters -> 0..Unlimited]
  /\ told \in BOOLEAN /\ left \in Int /\ overdrawn \in BOOLEAN /\ gifts \in 0..MaxGifts

AccountsInit ==
  /\ days = Granted /\ counting = FALSE /\ since = 0 /\ left = Granted * DayLength
  /\ onAccount = {} /\ premiumCopy = [c \in Characters |-> 0] /\ told = FALSE
  /\ overdrawn = FALSE /\ gifts = 0
-----------------------------------------------------------------------------
(* The column is read as a uint16_t: what is negative becomes very much,   *)
(* and what is too much or too little for that nothing                     *)
(* (DBResult::getNumber).                                                  *)
AsRead(d) ==
  IF d \in -Unlimited .. -1 THEN Unlimited + 1 + d ELSE IF d \in 0 .. Unlimited THEN d ELSE 0

(* Game::updatePremium: whole days are taken off, and the rest of the day  *)
(* that has begun is kept                                                  *)
WholeDays == since \div DayLength
Rest(time) == time % DayLength

UpdatePremium(had) ==
  CASE had \in 1..Most /\ ~counting ->
         days' = had /\ counting' = TRUE /\ since' = 0
    [] had \in 1..Most /\ counting /\ WholeDays >= had ->
         days' = 0 /\ counting' = FALSE /\ since' = 0
    [] had \in 1..Most /\ counting /\ WholeDays \in 1..(had - 1) ->
         days' = had - WholeDays /\ since' = Rest(since) /\ UNCHANGED counting
    [] had \notin 1..Most /\ counting ->
         days' = had /\ counting' = FALSE /\ since' = 0
    [] OTHER -> UNCHANGED <<days, counting, since>>

GetCharacterList ==
  /\ UpdatePremium(AsRead(days))
  /\ told' = (days' > 0)
  /\ left' = IF left < 0 THEN 0 ELSE left
  /\ UNCHANGED <<onAccount, premiumCopy, overdrawn, gifts>>

Elapse ==
  /\ since < MaxSince
  /\ IF counting THEN since' = since + 1 /\ left' = left - 1 ELSE UNCHANGED <<since, left>>
  /\ told' = FALSE
  /\ UNCHANGED <<days, counting, onAccount, premiumCopy, overdrawn, gifts>>
-----------------------------------------------------------------------------
(* IOLoginData::preloadPlayer *)
Preload(c) ==
  /\ c \notin onAccount /\ onAccount' = onAccount \union {c}
  /\ premiumCopy' = [premiumCopy EXCEPT ![c] = AsRead(days)]
  /\ UNCHANGED <<days, counting, since, told, left, overdrawn, gifts>>

Unload(c) ==
  /\ c \in onAccount /\ onAccount' = onAccount \ {c} /\ premiumCopy' = [premiumCopy EXCEPT ![c] = 0]
  /\ UNCHANGED <<days, counting, since, told, left, overdrawn, gifts>>

Least(a, b) == IF a < b THEN a ELSE b
ChangeDays(c, by) ==
  /\ c \in onAccount /\ premiumCopy[c] # Unlimited /\ by # 0 /\ gifts < MaxGifts /\ gifts' = gifts + 1
  /\ premiumCopy' = [premiumCopy EXCEPT ![c] = @ + by] /\ days' = days + by
  /\ left' = left + by * DayLength /\ overdrawn' = (overdrawn \/ days + by \notin 0..Most)
  /\ told' = FALSE /\ UNCHANGED <<counting, since, onAccount>>
AddPremiumDays(c, n) == ChangeDays(c, Least(Most - premiumCopy[c], n))
RemovePremiumDays(c, n) == ChangeDays(c, -Least(premiumCopy[c], n))

AccountsNext ==
  \/ GetCharacterList \/ Elapse
  \/ \E c \in Characters :
       \/ Preload(c) \/ Unload(c)
       \/ \E n \in Amounts : AddPremiumDays(c, n) \/ RemovePremiumDays(c, n)

AccountsSpec == AccountsInit /\ [][AccountsNext]_accountVars
-----------------------------------------------------------------------------
(* However often and whenever the list is asked for, each day is counted   *)
(* once and not before it is over, and nobody is promised what has run     *)
(* out: unless a script took days that the list had already counted, or    *)
(* scripts for several characters gave more than the most.                 *)
(* (What is given after all has run out, but before the next list, is      *)
(* taken for the time that has passed.)                                    *)
AccountsAreSound ==
  overdrawn \/ /\ left = days * DayLength - (IF counting THEN since ELSE 0)
               /\ told => left > 0
===============================================================================
