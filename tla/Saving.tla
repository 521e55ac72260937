------------------------------- MODULE Saving -------------------------------
(***************************************************************************)
(* How the world is kept: the tables of one player, the store of one house *)
(* tile and the rows of one house, each saved in a transaction of its own  *)
(* (IOLoginData::savePlayer, IOMapSerialize, Map::save, DBTransaction).    *)
(* The dispatcher waits for every statement, so that nothing moves during  *)
(* a save; a statement may be refused, and the server may crash, between   *)
(* any two.  Containers keep the order of what they hold through the rows  *)
(* and streams they are written to.                                        *)
(***************************************************************************)
EXTENDS Integers, Sequences, FiniteSets, SequencesExt

CONSTANTS
  Things,          (* items                                                *)
  Bags,            (* those that are containers                            *)
  Places,          (* "slot", "depot", "inbox", "tile" and the bags        *)
  FirstContents,   (* what lies where at first                             *)
  FirstSid,        (* rows with a smaller pid lie at the top; 101 in code  *)
  MaxMoves, MaxMishaps             (* bounds on moves, failures and crashes *)

VARIABLES
  contents,        (* in memory: the things at each place, in their order  *)
  online, opened,  (* the player is in the game; lastDepotId is not -1     *)
  deed,            (* who owns the house and whom its lists are for        *)
  disk,            (* the database                                         *)
  transaction,     (* the database as the open transaction sees it         *)
  statements,      (* what the transaction has still to execute            *)
  job, tries,      (* what is saved, and how often it may be tried         *)
  kept,            (* what was in memory when it was last committed        *)
  crossed,         (* the things that went from the player to the tile or  *)
                   (* back, since each of the two was saved, and those for *)
                   (* which that was undone on one side                    *)
  ignored,         (* the owner was not updated, and nobody noticed        *)
  moves, mishaps

saveVars == <<contents, online, opened, deed, disk, transaction, statements, job,
              tries, kept, crossed, ignored, moves, mishaps>>

Tops == {"slot", "depot", "inbox"}
Tables == {"items", "depot", "inbox"}
Nowhere == [p \in Places |-> <<>>]

(* saveItems: the contents of the containers in a queue, each with the sid *)
(* of the container that it is in.                                         *)
Row == [pid : Nat, sid : Nat, item : Things]
Below(m, queue, next) ==
  LET below[q \in Seq(Row), n \in Nat] ==
        IF q = <<>> THEN <<>>
        ELSE LET inside == m[Head(q).item]
                 rows == [k \in DOMAIN inside |->
                           [pid |-> Head(q).sid, sid |-> n + k - 1, item |-> inside[k]]]
             IN  rows \o below[Tail(q) \o SelectSeq(rows, LAMBDA r : r.item \in Bags),
                               n + Len(rows)]
  IN  below[queue, next]

TopRows(m, place) ==
  [k \in DOMAIN m[place] |-> [pid |-> IF place = "slot" THEN 1 ELSE 0,
                              sid |-> FirstSid + k - 1, item |-> m[place][k]]]
Rows(m, place) ==
  LET top == TopRows(m, place)
  IN  top \o Below(m, SelectSeq(top, LAMBDA r : r.item \in Bags), FirstSid + Len(top))

(* The rows come back in the order of falling sids, and each goes to the   *)
(* front of the place or container that its pid names.                     *)
ToItsPlace(m, rows, r, place) ==
  LET parents == {q \in Range(rows) : q.sid = r.pid}
      p == IF r.pid < FirstSid THEN place ELSE (CHOOSE q \in parents : TRUE).item
  IN  [m EXCEPT ![p] = <<r.item>> \o @]
LoadItems(m, rows, place) ==
  FoldLeft(LAMBDA v, r : ToItsPlace(v, rows, r, place), m, Reverse(rows))
LoadPlayer(m, d) ==
  LoadItems(LoadItems(LoadItems(m, d.items, "slot"), d.depot, "depot"), d.inbox, "inbox")

(* saveTile and saveItem write what they hold from the end to the front,   *)
(* an item before its contents and a mark after them; loadItem puts what   *)
(* is complete to the front of the place or the container that is open.    *)
SaveItem(m, place) ==
  LET items[p \in Places] ==
        FlattenSeq([k \in DOMAIN m[p] |->
          LET i == Reverse(m[p])[k]
          IN  <<i>> \o (IF i \in Bags THEN items[i] ELSE <<>>) \o <<"end">>])
  IN  items[place]
SaveTile(m) == SaveItem(m, "tile")

Read(v, token) ==
  IF token = "end"
  THEN [m |-> [v.m EXCEPT ![v.open[2]] = <<Head(v.open)>> \o @], open |-> Tail(v.open)]
  ELSE [v EXCEPT !.open = <<token>> \o @]
LoadItem(m, stream, place) == FoldLeft(Read, [m |-> m, open |-> <<place>>], stream).m
LoadHouseItems(m, d) == LoadItem(m, d.tile, "tile")
-----------------------------------------------------------------------------
(* The things at a place, with what is in them.                            *)
Within(m, place) ==
  LET within[p \in Places] ==
        Range(m[p]) \union UNION {within[b] : b \in Range(m[p]) \intersect Bags}
  IN  within[place]
PlayersThings(m) == UNION {Within(m, p) : p \in Tops}

(* Only the part of the memory that a save of the player writes.           *)
Of(m, owned) == [p \in Places |-> IF p \in owned THEN m[p] ELSE <<>>]
OfPlayer(m) == Of(m, Tops \union (PlayersThings(m) \intersect Bags))
OfTile(m) == Of(m, {"tile"} \union (Within(m, "tile") \intersect Bags))

Stored(m, owner) ==
  [items |-> Rows(m, "slot"), depot |-> Rows(m, "depot"), inbox |-> Rows(m, "inbox"),
   tile |-> SaveTile(m), owner |-> owner, lists |-> owner]

PlayerStatements ==
  <<"-items", "+items">> \o (IF opened THEN <<"-depot", "+depot">> ELSE <<>>)
  \o <<"-inbox", "+inbox">>
StatementsOf(j) ==
  CASE j = "info" -> <<"-lists", "owner", "+lists">>
    [] j = "tile" -> <<"-tile", "+tile">>
    [] OTHER -> PlayerStatements

Executed(s, d) ==
  CASE s = "-items" -> [d EXCEPT !.items = <<>>]
    [] s = "+items" -> [d EXCEPT !.items = Rows(contents, "slot")]
    [] s = "-depot" -> [d EXCEPT !.depot = <<>>]
    [] s = "+depot" -> [d EXCEPT !.depot = Rows(contents, "depot")]
    [] s = "-inbox" -> [d EXCEPT !.inbox = <<>>]
    [] s = "+inbox" -> [d EXCEPT !.inbox = Rows(contents, "inbox")]
    [] s = "-lists" -> [d EXCEPT !.lists = "none"]
    [] s = "owner" -> [d EXCEPT !.owner = deed]
    [] s = "+lists" -> [d EXCEPT !.lists = deed]
    [] s = "-tile" -> [d EXCEPT !.tile = <<>>]
    [] s = "+tile" -> [d EXCEPT !.tile = SaveTile(contents)]

Init ==
  /\ contents = FirstContents /\ online = TRUE /\ opened = FALSE
  /\ deed = "ann" /\ disk = Stored(FirstContents, "ann")
  /\ transaction = disk /\ statements = <<>>
  /\ job = "none" /\ tries = 0
  /\ kept = [player |-> OfPlayer(FirstContents), tile |-> OfTile(FirstContents)]
  /\ crossed = [player |-> {}, tile |-> {}, spoilt |-> {}] /\ ignored = FALSE /\ moves = 0 /\ mishaps = 0

(* After a crash a thing may be with the player and in the house: the      *)
(* model goes no further there.                                            *)
Doubled ==
  PlayersThings(LoadPlayer(Nowhere, disk)) \intersect Within(contents, "tile") # {}

Idle == job = "none"
Begin(j, n, d) == job' = j /\ tries' = n /\ statements' = StatementsOf(j) /\ transaction' = d
Finished == job' = "none" /\ tries' = 0 /\ statements' = <<>> /\ transaction' = disk'

(* A thing changes sides, with what is in it.                              *)
IsOnTile(p) == p \in {"tile"} \union Within(contents, "tile")
Crossing(i, from, to) ==
  IF IsOnTile(from) = IsOnTile(to) THEN {}
  ELSE {i} \union (IF i \in Bags THEN Within(contents, i) ELSE {})
Crossed(x) == [crossed EXCEPT !.player = @ \union x, !.tile = @ \union x]
Spoilt(x) == [player |-> crossed.player \ x, tile |-> crossed.tile \ x,
              spoilt |-> crossed.spoilt \union x]

Carried(m, i, from, to) ==
  [m EXCEPT ![from] = SelectSeq(@, LAMBDA j : j # i), ![to] = <<i>> \o @]
-----------------------------------------------------------------------------
(* The depot and the inbox, and what is in them, are reached by way of a   *)
(* locker.                                                                 *)
Locked == UNION {{p} \union Within(contents, p) : p \in {"depot", "inbox"}}

Move ==
  \E from, to \in Places : \E i \in Range(contents[from]) :
    /\ Idle /\ online /\ moves < MaxMoves /\ moves' = moves + 1
    /\ from # to /\ to # "inbox" /\ (to = "slot" => contents[to] = <<>>)
    /\ {from, to} \intersect Locked # {} => opened
    /\ to \in Bags =>
         /\ to # i /\ (i \in Bags => to \notin Within(contents, i))
         /\ to \in Within(contents, "tile") \union PlayersThings(contents)
    /\ contents' = Carried(contents, i, from, to)
    /\ crossed' = Crossed(Crossing(i, from, to))
    /\ UNCHANGED <<online, opened, deed, disk, transaction, statements, job, tries,
                   kept, ignored, mishaps>>

(* Actions::internalUseItem of a depot locker                              *)
OpenDepot ==
  /\ Idle /\ online /\ ~opened /\ opened' = TRUE
  /\ UNCHANGED <<contents, online, deed, disk, transaction, statements, job, tries, kept,
                 crossed, ignored, moves, mishaps>>

(* sendItem: to somebody who is not in the game by way of an object that   *)
(* is loaded, given the item, and saved once.                              *)
SendItem ==
  \E i \in Range(contents["tile"]) :
    LET m == IF online THEN contents ELSE LoadPlayer(contents, disk)
    IN  /\ Idle /\ moves < MaxMoves /\ moves' = moves + 1
        /\ online \/ ~Doubled
        /\ contents' = Carried(m, i, "tile", "inbox")
        /\ crossed' = Crossed(Crossing(i, "tile", "inbox"))
        /\ IF online THEN UNCHANGED <<job, tries, statements, transaction>>
           ELSE Begin("mail", 1, disk)
        /\ UNCHANGED <<online, opened, deed, disk, kept, ignored, mishaps>>

(* House::setOwner                                                         *)
ChangeOwner ==
  /\ Idle /\ moves < MaxMoves /\ moves' = moves + 1
  /\ deed' = IF deed = "ann" THEN "bob" ELSE "ann"
  /\ UNCHANGED <<contents, online, opened, disk, transaction, statements, job, tries,
                 kept, crossed, ignored, mishaps>>

LogIn ==
  /\ Idle /\ ~online /\ ~Doubled
  /\ online' = TRUE /\ contents' = LoadPlayer(contents, disk)
  /\ UNCHANGED <<opened, deed, disk, transaction, statements, job, tries, kept, crossed,
                 ignored, moves, mishaps>>

(* onRemoveCreature tries to save three times.                             *)
LogOut ==
  /\ Idle /\ online /\ Begin("logout", 3, disk)
  /\ UNCHANGED <<contents, online, opened, deed, disk, kept, crossed, ignored, moves,
                 mishaps>>

(* saveGameState: every player once, then the rows and tiles of houses.    *)
SaveGameState ==
  /\ Idle
  /\ IF online THEN Begin("player", 1, disk) ELSE Begin("info", 3, disk)
  /\ UNCHANGED <<contents, online, opened, deed, disk, kept, crossed, ignored, moves,
                 mishaps>>
-----------------------------------------------------------------------------
Statement ==
  /\ ~Idle /\ statements # <<>>
  /\ transaction' = Executed(Head(statements), transaction)
  /\ statements' = Tail(statements)
  /\ UNCHANGED <<contents, online, opened, deed, disk, job, tries, kept, crossed,
                 ignored, moves, mishaps>>

(* What comes after a save that succeeded, or that was given up.           *)
Continues(saved) ==
  /\ CASE job = "player" -> Begin("info", 3, disk')
       [] job = "info" /\ saved -> Begin("tile", 3, disk')
       [] OTHER -> Finished
  /\ IF job \in {"logout", "mail"}
     THEN contents' = OfTile(contents) /\ online' = FALSE /\ opened' = FALSE
     ELSE UNCHANGED <<contents, online, opened>>

Commit ==
  /\ ~Idle /\ statements = <<>>
  /\ disk' = transaction
  /\ kept' = [player |-> IF job \in {"info", "tile"} THEN kept.player ELSE OfPlayer(contents),
              tile |-> IF job = "tile" THEN OfTile(contents) ELSE kept.tile]
  /\ crossed' = [crossed EXCEPT !.player = IF job \in {"info", "tile"} THEN @ ELSE {},
                                !.tile = IF job = "tile" THEN {} ELSE @]
  /\ ignored' = IF job = "info" THEN transaction.owner # deed ELSE ignored
  /\ Continues(TRUE)
  /\ UNCHANGED <<deed, moves, mishaps>>

(* saveHouseInfo does not look at what comes of the update of the owner.   *)
OwnerIsNotUpdated ==
  /\ ~Idle /\ statements # <<>> /\ Head(statements) = "owner"
  /\ mishaps < MaxMishaps /\ mishaps' = mishaps + 1
  /\ statements' = Tail(statements)
  /\ UNCHANGED <<contents, online, opened, deed, disk, transaction, job, tries, kept,
                 crossed, ignored, moves>>

RolledHalfBack(d, t) == t
(* ~DBTransaction rolls back; the save is tried again, or given up.        *)
RolledBack(d, t) == d
StatementFails ==
  /\ ~Idle /\ (statements # <<>> => Head(statements) # "owner")
  /\ mishaps < MaxMishaps /\ mishaps' = mishaps + 1
  /\ disk' = RolledBack(disk, transaction)
  /\ IF tries > 1
     THEN Begin(job, tries - 1, disk') /\ UNCHANGED <<contents, online, opened, crossed>>
     ELSE /\ Continues(FALSE)
          /\ crossed' = IF job \in {"logout", "mail"} THEN Spoilt(crossed.player) ELSE crossed
  /\ UNCHANGED <<deed, kept, ignored, moves>>

(* Only the database is left; the houses are loaded when the server starts. *)
Crash ==
  /\ mishaps < MaxMishaps /\ mishaps' = mishaps + 1
  /\ UNCHANGED disk /\ Finished
  /\ contents' = LoadHouseItems(Nowhere, disk) /\ deed' = disk.owner
  /\ online' = FALSE /\ opened' = FALSE
  /\ crossed' = Spoilt(crossed.player \union crossed.tile)
  /\ UNCHANGED <<kept, ignored, moves>>

Next ==
  \/ Move \/ OpenDepot \/ SendItem \/ ChangeOwner
  \/ LogIn \/ LogOut \/ SaveGameState
  \/ Statement \/ Commit \/ OwnerIsNotUpdated \/ StatementFails \/ Crash
-----------------------------------------------------------------------------
TypeOK ==
  /\ contents \in [Places -> Seq(Things)]
  /\ online \in BOOLEAN /\ opened \in BOOLEAN /\ ignored \in BOOLEAN
  /\ disk.owner \in {"ann", "bob"} /\ deed \in {"ann", "bob"}
  /\ tries \in 0..3 /\ moves \in 0..MaxMoves /\ mishaps \in 0..MaxMishaps
  /\ crossed \in [{"player", "tile", "spoilt"} -> SUBSET Things]

(* What the database gives back is what was in memory when it was saved,   *)
(* at one moment, with the order in every container, whatever failed since.*)
NothingIsTorn ==
  /\ LoadPlayer(Nowhere, disk) = kept.player
  /\ LoadHouseItems(Nowhere, disk) = kept.tile
  /\ disk.owner = disk.lists \/ ignored

TimesOnDisk(i) ==
  Cardinality({t \in Tables : \E r \in Range(disk[t]) : r.item = i})
  + (IF i \in Within(kept.tile, "tile") THEN 1 ELSE 0)

(* A thing is stored exactly once, but for those that went between player  *)
(* and house since one of the two was saved, or before a failure undid it. *)
NothingIsDoubled ==
  \A i \in Things \ UNION {crossed[k] : k \in DOMAIN crossed} : TimesOnDisk(i) = 1

(* Invariant: both.                                                        *)
SavesAreSound == TypeOK /\ NothingIsTorn /\ NothingIsDoubled
=============================================================================
