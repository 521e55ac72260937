--------------------------------- MODULE Decay --------------------------------
(***************************************************************************)
(* Items that change with time (game.cpp, item.cpp): a torch burns down    *)
(* while it is lit, a corpse rots.  The game has a wheel of buckets and    *)
(* looks into one of them every 250 ms, the unit of time here.  What is    *)
(* in a bucket is counted as a reference, so that an item that is gone     *)
(* stays an object until the wheel finds it.  Items are transformed in     *)
(* place, which may start their time anew, or replaced by others, and are  *)
(* written to a stream of attributes and read back from it.                *)
(*                                                                         *)
(* Left out: clones of items, which keep the state of decay without being  *)
(* in a bucket, and so never decay.                                        *)
(***************************************************************************)
EXTENDS Integers, Sequences, FiniteSets, SequencesExt, FiniteSetsExt

CONSTANTS
  Objects,         (* the objects that items are                           *)
  Kinds,           (* item types: decayTime, decayTo, stop, form, moveable *)
  DecayKind,       (* a function from the names of kinds to what they are  *)
  Tag,             (* from the names of attributes to their width          *)
  MaxDeeds         (* bound on what happens to items                       *)

VARIABLES
  item,            (* by object: kind, parent, references, attributes      *)
  decayItems,      (* the buckets                                          *)
  lastBucket,
  toDecayItems, toReleaseItems,
  stream,          (* what was saved of an item, and the item as it was    *)
  hasty,           (* history: an item decayed a round or more too early   *)
  deeds

decayVars == <<item, decayItems, lastBucket, toDecayItems, toReleaseItems, stream, hasty, deeds>>

Buckets == 4
Wheel == 0..(Buckets - 1)
None == -1
Parents == {"none", "tile", "player"}
States == {"false", "true", "pending"}

TypeOK ==
  /\ \A o \in Objects :
       /\ item[o].kind \in Kinds /\ item[o].parent \in Parents /\ item[o].refs \in 0..9
       /\ item[o].duration \in Int /\ item[o].duration >= None
       /\ item[o].state \in States /\ item[o].age \in Nat
       /\ item[o].actionId \in 0..1 /\ item[o].text \in 0..2
  /\ \A b \in Wheel : decayItems[b] \in Seq(Objects)
  /\ lastBucket \in Wheel /\ hasty \in BOOLEAN /\ deeds \in 0..MaxDeeds
  /\ toDecayItems \in Seq(Objects) /\ toReleaseItems \in Seq(Objects) /\ Len(stream) <= 1

(* Item::Item: setDefaultDuration, if the kind has a duration; age, due and *)
(* twice are the books on its decay.                                       *)
Created(k) ==
  [kind |-> k, parent |-> "none", refs |-> 0, state |-> "false", actionId |-> 0, text |-> 0,
   duration |-> IF DecayKind[k].decayTime > 0 THEN DecayKind[k].decayTime ELSE None,
   age |-> 0, due |-> 0, twice |-> FALSE]

(* What is left of an object that is no item any more, or not yet          *)
Shell(refs) == [Created(CHOOSE k \in Kinds : TRUE) EXCEPT !.refs = refs]

Init ==
  /\ item = [o \in Objects |-> Shell(0)]
  /\ decayItems = [b \in Wheel |-> <<>>] /\ lastBucket = 0
  /\ toDecayItems = <<>> /\ toReleaseItems = <<>>
  /\ stream = <<>> /\ hasty = FALSE /\ deeds = 0
-----------------------------------------------------------------------------
(* The wheel as a record, which its operations work on.                    *)
Now == [item |-> item, buckets |-> decayItems, toDecay |-> toDecayItems,
        toRelease |-> toReleaseItems, hasty |-> hasty]
Becomes(w) ==
  /\ item' = w.item /\ decayItems' = w.buckets /\ toDecayItems' = w.toDecay
  /\ toReleaseItems' = w.toRelease /\ hasty' = w.hasty

Alive(w, o) == w.item[o].parent \in {"tile", "player"}
CanDecay(w, o) ==
  LET k == DecayKind[w.item[o].kind]
  IN  Alive(w, o) /\ k.decayTo # "never" /\ k.decayTime > 0

Duration(w, o) == Max({0, w.item[o].duration})
Listings(w, o) ==
  Len(SelectSeq(w.toDecay, LAMBDA x : x = o))
  + MapThenSumSet(LAMBDA b : Len(SelectSeq(w.buckets[b], LAMBDA x : x = o)), Wheel)

ReleaseItem(w, o) == [w EXCEPT !.toRelease = Append(@, o)]
Removed(w, o) == ReleaseItem([w EXCEPT !.item[o] = Shell(@.refs)], o)

(* Item::setID; an item that stopped keeps the time that it had left.      *)
SetID(i, k) ==
  LET new == DecayKind[k].decayTime
      was == DecayKind[i.kind]
      j == IF new = 0 /\ ~DecayKind[k].stop /\ DecayKind[k].decayTo = "never"
           THEN [i EXCEPT !.kind = k, !.state = "false", !.duration = None]
           ELSE [i EXCEPT !.kind = k]
  IN  IF new > 0 /\ (~was.stop \/ j.duration = None)
      THEN [j EXCEPT !.state = "false", !.duration = new] ELSE j

(* startDecay of an item with time left: whatever state it had, but not if *)
(* it decays already.                                                      *)
Listed(i) == [i EXCEPT !.refs = @ + 1]
Counted(w, o) ==
  [w EXCEPT !.item[o] = [Listed(@) EXCEPT
     !.state = "true", !.age = 0, !.due = w.item[o].duration,
     !.twice = Listings(w, o) > 0],
            !.toDecay = <<o>> \o @]
Starts(w, o) == CanDecay(w, o) /\ w.item[o].state # "true"
Begin(w, o) == IF Starts(w, o) /\ Duration(w, o) > 0 THEN Counted(w, o) ELSE w

(* transformItem: in place, if both kinds are of one form; otherwise by a  *)
(* new object, n, in the place of the old one.                             *)
Replaced(w, o, k, n) ==
  Removed([w EXCEPT !.item[n] = [Created(k) EXCEPT
                                  !.parent = w.item[o].parent, !.refs = 1]], o)
Transformed(w, o, k, n) ==
  IF DecayKind[w.item[o].kind].form = DecayKind[k].form
  THEN [w EXCEPT !.item[o] = SetID(@, k)] ELSE Replaced(w, o, k, n)
Successor(w, o, k, n) ==
  IF DecayKind[w.item[o].kind].form = DecayKind[k].form THEN o ELSE n

(* An object that nothing refers to any more, for a new item               *)
Unused(w, o) == w.item[o].refs = 0
NewObject(w) == CHOOSE o \in Objects : Unused(w, o)

(* internalDecayItem, and what it may do too early                         *)
InternalDecayItem(w, o) ==
  LET to == DecayKind[w.item[o].kind].decayTo
      i == w.item[o]
      early == i.state = "true" /\ ~i.twice /\ i.age + Buckets <= i.due
      v == [w EXCEPT !.hasty = @ \/ early]
      n == IF DecayKind[w.item[o].kind].form = DecayKind[to].form THEN o ELSE NewObject(w)
  IN  IF to = "nothing" THEN Removed(v, o)
      ELSE Begin(Transformed(v, o, to, n), Successor(v, o, to, n))

StartDecay(w, o) ==
  IF Starts(w, o) /\ Duration(w, o) = 0 THEN InternalDecayItem(w, o) ELSE Begin(w, o)
-----------------------------------------------------------------------------
(* checkDecay, for one entry of the bucket b                               *)
Minimum(a, b) == IF a < b THEN a ELSE b
CheckItem(b, w, o) ==
  LET dropped == ReleaseItem([w EXCEPT !.item[o].state = "false",
                                       !.item[o].age = 0, !.item[o].due = 0], o)
      left == Duration(w, o) - Minimum(Buckets, Duration(w, o))
      v == [w EXCEPT !.item[o].duration = left]
      again == (b + ((2 * left + 1) \div (2 * Buckets))) % Buckets
  IN  IF ~CanDecay(w, o) THEN dropped
      ELSE IF left <= 0 THEN ReleaseItem(InternalDecayItem(v, o), o)
      ELSE IF left >= Buckets THEN [v EXCEPT !.buckets[b] = Append(@, o)]
      ELSE IF again = b THEN ReleaseItem(InternalDecayItem(v, o), o)
      ELSE [v EXCEPT !.buckets[again] = Append(@, o)]

(* cleanup: references are given back, and new entries put into buckets    *)
Release(w, o) == [w EXCEPT !.item[o].refs = @ - 1]
Enlist(b, w, o) ==
  LET d == Duration(w, o)
      to == IF d >= Buckets THEN b ELSE (b + 1 + d \div Buckets) % Buckets
  IN  [w EXCEPT !.buckets[to] = Append(@, o)]
Cleanup(w, b) ==
  LET enlist(v, o) == Enlist(b, v, o)
      v == FoldLeft(Release, w, w.toRelease)
  IN  FoldLeft(enlist, [v EXCEPT !.toRelease = <<>>, !.toDecay = <<>>], w.toDecay)

(* One tick of the wheel; only what decays has an age.                     *)
Older(i) ==
  IF i.state = "true" /\ DecayKind[i.kind].decayTime > 0 THEN [i EXCEPT !.age = @ + 1]
  ELSE [i EXCEPT !.age = 0, !.due = 0, !.twice = FALSE]
CheckDecay ==
  LET b == (lastBucket + 1) % Buckets
      check(w, o) == CheckItem(b, w, o)
      aged == [Now EXCEPT !.item = [o \in Objects |-> Older(item[o])], !.buckets[b] = <<>>]
  IN  /\ lastBucket' = b
      /\ Becomes(Cleanup(FoldLeft(check, aged, decayItems[b]), b))
      /\ UNCHANGED <<stream, deeds>>
-----------------------------------------------------------------------------
Spare == {o \in Objects : item[o].refs = 0}

(* There is always an object for what an item decays into: a bound on the   *)
(* inputs.                                                                 *)
Passing(o) ==
  LET to == DecayKind[item[o].kind].decayTo
  IN  Alive(Now, o) /\ to \in Kinds /\ DecayKind[to].form # DecayKind[item[o].kind].form
Bounded == Cardinality({o \in Objects : Passing(o)}) <= Cardinality(Spare)

Deed == deeds < MaxDeeds /\ deeds' = deeds + 1

(* An item comes into the world, and its creator starts its decay.         *)
Create(k, where) ==
  /\ Deed /\ Spare # {}
  /\ LET o == NewObject(Now)
         w == [Now EXCEPT !.item[o] = [Created(k) EXCEPT !.parent = where, !.refs = 1,
                                                          !.actionId = 1, !.text = 2]]
     IN  Becomes(StartDecay(w, o))
  /\ Bounded' /\ UNCHANGED <<lastBucket, stream>>

(* onEquipItem, increaseItemId and the like: transformItem, and startDecay *)
(* of what came of it; or, as onDeEquipItem has it, of what it was.        *)
Transform(o, k, follows) ==
  /\ Deed /\ Alive(Now, o) /\ k # item[o].kind /\ Spare # {}
  /\ LET n == NewObject(Now)
         w == Transformed(Now, o, k, n)
     IN  Becomes(StartDecay(w, IF follows THEN Successor(Now, o, k, n) ELSE o))
  /\ Bounded' /\ UNCHANGED <<lastBucket, stream>>

(* A charge of the item is used up: transformItem with the same id         *)
UseCharge(o) ==
  /\ Deed /\ Alive(Now, o)
  /\ Becomes([Now EXCEPT !.item[o] = SetID(@, item[o].kind)])
  /\ UNCHANGED <<lastBucket, stream>>

(* The last one: the item is replaced by what it would decay into, which   *)
(* nobody starts to decay, or removed if it is what never decays.          *)
UseLastCharge(o) ==
  LET to == DecayKind[item[o].kind].decayTo
  IN  /\ Deed /\ Alive(Now, o) /\ to # "nothing" /\ Spare # {}
      /\ Becomes(IF to = "never" THEN Removed(Now, o)
                 ELSE Replaced(Now, o, to, NewObject(Now)))
      /\ Bounded' /\ UNCHANGED <<lastBucket, stream>>

InternalRemoveItem(o) ==
  /\ Deed /\ Alive(Now, o) /\ Becomes(Removed(Now, o))
  /\ UNCHANGED <<lastBucket, stream>>
-----------------------------------------------------------------------------
(* serializeAttr: tags, each followed by a value of its width              *)
Cells(tag, value) == <<tag, value>> \o [n \in 1..(Tag[tag] - 1) |-> "more"]
Text(n) == <<"text", n>> \o [m \in 1..n |-> "letter"]
If(condition, cells) == IF condition THEN cells ELSE <<>>
SerializeAttr(i) ==
  If(DecayKind[i.kind].moveable /\ i.actionId # 0, Cells("action", i.actionId))
  \o If(i.text > 0, Text(i.text))
  \o If(i.duration # None, Cells("duration", i.duration))
  \o If(i.state # "false", Cells("decaying", i.state))

(* readAttr and unserializeAttr: one attribute after the other             *)
ReadAttr(r) ==
  LET tag == r.in[1]
      value == r.in[2]
      rest(n) == SubSeq(r.in, n + 2, Len(r.in))
  IN  CASE tag = "action" -> [in |-> rest(Tag[tag]), i |-> [r.i EXCEPT !.actionId = value]]
        [] tag = "text" -> [in |-> rest(value + 1), i |-> [r.i EXCEPT !.text = value]]
        [] tag = "duration" ->
             [in |-> rest(Tag[tag]), i |-> [r.i EXCEPT !.duration = Max({0, value})]]
        [] tag = "decaying" -> [in |-> rest(Tag[tag]), i |-> [r.i EXCEPT !.state = "pending"]]
UnserializeAttr(k, cells) ==
  FoldLeft(LAMBDA r, n : IF r.in = <<>> THEN r ELSE ReadAttr(r),
           [in |-> cells, i |-> Created(k)], <<1, 2, 3, 4>>)

(* The player leaves: items are saved and their objects given up, but for  *)
(* the references of the wheel.                                            *)
LogOut(o) ==
  /\ stream = <<>> /\ item[o].parent = "player"
  /\ stream' = <<[cells |-> SerializeAttr(item[o]),
                  was |-> [item[o] EXCEPT !.refs = 0, !.age = 0, !.due = 0, !.twice = FALSE]]>>
  /\ item' = [item EXCEPT ![o] = Shell(@.refs - 1)]
  /\ UNCHANGED <<decayItems, lastBucket, toDecayItems, toReleaseItems, hasty, deeds>>

LogIn ==
  /\ stream # <<>> /\ Spare # {} /\ stream' = <<>>
  /\ LET o == NewObject(Now)
         i == UnserializeAttr(stream[1].was.kind, stream[1].cells).i
         w == [Now EXCEPT !.item[o] = [i EXCEPT !.parent = "player", !.refs = 1]]
     IN  Becomes(StartDecay(w, o))
  /\ Bounded' /\ UNCHANGED <<lastBucket, deeds>>

Next ==
  \/ CheckDecay
  \/ \E k \in Kinds : \E where \in {"tile", "player"} : Create(k, where)
  \/ \E o \in Objects :
       \/ UseCharge(o) \/ UseLastCharge(o) \/ InternalRemoveItem(o) \/ LogOut(o)
       \/ \E k \in Kinds, follows \in BOOLEAN : Transform(o, k, follows)
  \/ LogIn

Spec == Init /\ [][Next]_decayVars
-----------------------------------------------------------------------------
(* An object is referred to by its place, if it has one, by the wheel as   *)
(* often as it is listed, and by what waits to be given back.              *)
Waiting(o) == Len(SelectSeq(toReleaseItems, LAMBDA x : x = o))
RefsAreExact ==
  \A o \in Objects :
    item[o].refs = Listings(Now, o) + Waiting(o) + (IF Alive(Now, o) THEN 1 ELSE 0)

(* What should decay is on the wheel, and comes off it in time: not a      *)
(* round too early, unless a script had it listed twice, nor a round late. *)
DecayGoesOn ==
  /\ \A o \in Objects : Alive(Now, o) /\ item[o].state = "true" => Listings(Now, o) > 0
  /\ ~hasty
  /\ \A o \in Objects : Alive(Now, o) /\ item[o].state = "true" /\ CanDecay(Now, o) =>
       item[o].age <= item[o].due + Buckets + 1

(* What is read back is what was written: every attribute, in step with    *)
(* the stream, but for the action of what cannot be moved and the state,   *)
(* which a login has to start anew.                                        *)
ReadsBack ==
  stream # <<>> =>
    LET i == stream[1].was
        r == UnserializeAttr(i.kind, stream[1].cells)
    IN  /\ r.in = <<>> /\ r.i.text = i.text
        /\ r.i.duration = (IF i.duration = None THEN Created(i.kind).duration ELSE i.duration)
        /\ r.i.state = (IF i.state = "false" THEN "false" ELSE "pending")
        /\ r.i.actionId = (IF DecayKind[i.kind].moveable THEN i.actionId ELSE 0)

(* Invariant: items decay when they should, once, and stay objects for as  *)
(* long as something refers to them; what is saved reads back.             *)
DecayIsSound == RefsAreExact /\ DecayGoesOn /\ ReadsBack
===============================================================================
