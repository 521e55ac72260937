---------------------------- MODULE PlayersProofs -----------------------------
(***************************************************************************)
(* What holds of players before they are in the game and when they walk in *)
(* it.                                                                     *)
(*                                                                         *)
(* The waiting list, for any number of players and places: a client that   *)
(* comes when it was told finds its entry, and nobody is let in past those *)
(* ahead.  cleanupList and erase leave part of a list, by recursion over   *)
(* it; what is left is found by induction over the natural numbers         *)
(* (LeastNatural, UpTo), which the library offers as the least element of  *)
(* a set.  The invariant InTime says more than the property: an entry has  *)
(* three units of time left beyond the time its client was told, and it is *)
(* the size() of the premium list being too large, never too small, that   *)
(* keeps this.                                                             *)
(*                                                                         *)
(* A walk, for any line of cells, any wishes and any number of requests:   *)
(* the player is not stuck, and only the last wish waits.  The invariant   *)
(* Steady says what the ids of the three events tell of the events that    *)
(* carry them, so that an event that is stopped is never another's, and    *)
(* that each request leaves at most one event behind, so that a free id is *)
(* found.                                                                  *)
(***************************************************************************)
EXTENDS MCPlayers, SequenceTheorems, FiniteSetTheorems, WellFoundedInduction,
        TLAPS

(* A set of natural numbers has a least one, ...                           *)
LEMMA LeastNatural ==
  ASSUME NEW T \in SUBSET Nat, T # {}
  PROVE  \E n \in T : \A m \in T : n <= m
<1> DEFINE R == OpToRel(<, Nat)
<1>0. IsWellFoundedOn(R, Nat)
  BY NatLessThanWellFounded
<1>3. \A m \in Nat, n \in Nat : m < n => <<m, n>> \in R
  BY DEF OpToRel
<1>1. PICK n \in T : \A m \in T : <<m, n>> \notin R
  <2> HIDE DEF R
  <2> QED BY <1>0, WFMin
<1> HIDE DEF R
<1>2. \A m \in T : ~(m < n)
  BY <1>1, <1>3
<1> QED BY <1>2

(* ... so that there is induction up to a bound.                           *)
LEMMA UpTo ==
  ASSUME NEW N \in Nat, NEW T, 0 \in T,
         \A n \in 0..N : n \in T /\ n < N => n + 1 \in T
  PROVE  0..N \subseteq T
<1> DEFINE Rest == (0..N) \ T
<1> SUFFICES ASSUME Rest # {} PROVE FALSE
  OBVIOUS
<1>0. Rest \in SUBSET Nat
  OBVIOUS
<1>1. PICK n \in Rest : \A m \in Rest : n <= m
  <2> HIDE DEF Rest
  <2> QED BY <1>0, LeastNatural
<1>2. n \in Nat /\ n <= N /\ n # 0 /\ n \notin T
  OBVIOUS
<1>3. n - 1 \in 0..N /\ n - 1 < n
  BY <1>2
<1>4. n - 1 \in T
  BY <1>1, <1>3
<1> QED BY <1>2, <1>3, <1>4

(* The function whose last value is Keeping, ...                           *)
IsLeft(left, kept, s) ==
  left = [n \in 0..Len(s) |->
            IF n = 0 THEN <<>>
            ELSE IF s[n] \in kept THEN Append(left[n - 1], s[n])
            ELSE left[n - 1]]

(* ... and its beginning up to m, ...                                      *)
IsLeftUpTo(left, kept, s, m) ==
  /\ left \in [0..m -> Seq(kept)]
  /\ left[0] = <<>>
  /\ \A n \in 1..m : left[n] = IF s[n] \in kept THEN Append(left[n - 1], s[n])
                               ELSE left[n - 1]
(* ... which exists, entry by entry.                                       *)
LEMMA LeftExists ==
  ASSUME NEW S, NEW s \in Seq(S), NEW kept
  PROVE  \E left : IsLeft(left, kept, s)
<1> DEFINE T == {n \in 0..Len(s) : \E left : IsLeftUpTo(left, kept, s, n)}
<1>0. Len(s) \in Nat
  OBVIOUS
<1>1. 0 \in T
  <2> DEFINE f == [i \in 0..0 |-> <<>>]
  <2>1. f \in [0..0 -> Seq(kept)] /\ f[0] = <<>>
    OBVIOUS
  <2>2. IsLeftUpTo(f, kept, s, 0)
    BY <2>1 DEF IsLeftUpTo
  <2> HIDE DEF f
  <2> QED BY <2>2
<1>2. ASSUME NEW n \in 0..Len(s), n \in T, n < Len(s)
      PROVE  n + 1 \in T
  <2>1. PICK g : IsLeftUpTo(g, kept, s, n)
    BY <1>2
  <2> DEFINE next == IF s[n + 1] \in kept THEN Append(g[n], s[n + 1]) ELSE g[n]
             f == [i \in 0..n + 1 |-> IF i = n + 1 THEN next ELSE g[i]]
  <2>2. next \in Seq(kept)
    BY <2>1 DEF IsLeftUpTo
  <2>3. f \in [0..n + 1 -> Seq(kept)]
    <3> HIDE DEF next
    <3> QED BY <2>1, <2>2 DEF IsLeftUpTo
  <2>4. f[0] = <<>>
    BY <2>1 DEF IsLeftUpTo
  <2>5. ASSUME NEW i \in 1..n + 1
        PROVE  f[i] = IF s[i] \in kept THEN Append(f[i - 1], s[i]) ELSE f[i - 1]
    <3>1. CASE i = n + 1
      BY <3>1
    <3>2. CASE i # n + 1
      <4>1. i \in 1..n /\ i - 1 # n + 1 /\ i - 1 \in 0..n + 1
        BY <3>2
      <4>2. f[i] = g[i] /\ f[i - 1] = g[i - 1]
        BY <4>1
      <4> QED BY <4>1, <4>2, <2>1 DEF IsLeftUpTo
    <3> QED BY <3>1, <3>2
  <2>6. IsLeftUpTo(f, kept, s, n + 1)
    BY <2>3, <2>4, <2>5 DEF IsLeftUpTo
  <2> HIDE DEF f, next
  <2> QED BY <2>6, <1>2
<1>3. Len(s) \in T
  <2> HIDE DEF T
  <2>1. 0..Len(s) \subseteq T
    BY <1>0, <1>1, <1>2, UpTo
  <2> QED BY <1>0, <2>1
<1>4. PICK g : IsLeftUpTo(g, kept, s, Len(s))
  BY <1>3
<1>5. IsLeft(g, kept, s)
  <2>1. g = [n \in 0..Len(s) |-> g[n]]
    BY <1>4 DEF IsLeftUpTo
  <2>2. \A n \in 0..Len(s) :
          g[n] = IF n = 0 THEN <<>>
                 ELSE IF s[n] \in kept THEN Append(g[n - 1], s[n])
                 ELSE g[n - 1]
    <3>1. \A n \in 0..Len(s) : n # 0 => n \in 1..Len(s)
      BY <1>0
    <3> QED BY <1>4, <3>1 DEF IsLeftUpTo
  <2> QED BY <2>1, <2>2 DEF IsLeft
<1> QED BY <1>5

LEMMA KeepingIsLeft ==
  ASSUME NEW S, NEW s \in Seq(S), NEW kept
  PROVE  \E left : IsLeft(left, kept, s) /\ Keeping(kept, s) = left[Len(s)]
<1> DEFINE left == CHOOSE left : IsLeft(left, kept, s)
<1>1. IsLeft(left, kept, s)
  BY LeftExists
<1>2. Keeping(kept, s) = left[Len(s)]
  BY DEF Keeping, IsLeft
<1> HIDE DEF left
<1> QED BY <1>1, <1>2

(* An entry more, ...                                                      *)
LEMMA AppendedToSet ==
  ASSUME NEW S, NEW s \in Seq(S), NEW e \in S
  PROVE  /\ Append(s, e) \in Seq(S)
         /\ ToSet(Append(s, e)) = ToSet(s) \union {e}
<1>1. /\ Append(s, e) \in Seq(S)
      /\ Len(Append(s, e)) = Len(s) + 1
      /\ \A i \in 1..Len(s) : Append(s, e)[i] = s[i]
      /\ Append(s, e)[Len(s) + 1] = e
      /\ Len(s) \in Nat
  OBVIOUS
<1>2. DOMAIN Append(s, e) = 1..Len(s) + 1 /\ DOMAIN s = 1..Len(s)
  OBVIOUS
<1>3. 1..Len(s) + 1 = (1..Len(s)) \union {Len(s) + 1}
  BY <1>1
<1> QED BY <1>1, <1>2, <1>3 DEF ToSet

(* ... and if it is another one, there is still none twice.                *)
LEMMA AppendedInjective ==
  ASSUME NEW S, NEW s \in Seq(S), NEW e \in S,
         IsInjective(s), e \notin ToSet(s)
  PROVE  IsInjective(Append(s, e))
<1>1. /\ Len(Append(s, e)) = Len(s) + 1
      /\ \A i \in 1..Len(s) : Append(s, e)[i] = s[i] /\ Append(s, e)[i] # e
      /\ Append(s, e)[Len(s) + 1] = e
      /\ Len(s) \in Nat
  BY DEF ToSet
<1>2. DOMAIN Append(s, e) = 1..Len(s) + 1 /\ DOMAIN s = 1..Len(s)
  OBVIOUS
<1>3. \A i \in 1..Len(s) + 1 : i \in 1..Len(s) \/ i = Len(s) + 1
  BY <1>1
<1> QED BY <1>1, <1>2, <1>3 DEF IsInjective

(* What is left of a list: what was in it and is kept, each in its turn.   *)
LEMMA KeepingProperties ==
  ASSUME NEW S, NEW s \in Seq(S), NEW kept
  PROVE  /\ Keeping(kept, s) \in Seq(S)
         /\ ToSet(Keeping(kept, s)) = ToSet(s) \intersect kept
         /\ IsInjective(s) => IsInjective(Keeping(kept, s))
         /\ s = <<>> => Keeping(kept, s) = <<>>
<1>1. PICK left : IsLeft(left, kept, s) /\ Keeping(kept, s) = left[Len(s)]
  BY KeepingIsLeft
<1>2. /\ Len(s) \in Nat
      /\ left[0] = <<>>
      /\ \A n \in 0..Len(s) : n < Len(s) =>
           left[n + 1] = IF s[n + 1] \in kept THEN Append(left[n], s[n + 1])
                         ELSE left[n]
  <2>1. Len(s) \in Nat
    OBVIOUS
  <2>2. \A n \in 0..Len(s) :
          left[n] = IF n = 0 THEN <<>>
                    ELSE IF s[n] \in kept THEN Append(left[n - 1], s[n])
                    ELSE left[n - 1]
    BY <1>1 DEF IsLeft
  <2>3. left[0] = <<>>
    BY <2>1, <2>2
  <2>4. ASSUME NEW n \in 0..Len(s), n < Len(s)
        PROVE  left[n + 1] = IF s[n + 1] \in kept
                             THEN Append(left[n], s[n + 1]) ELSE left[n]
    <3>1. n + 1 \in 0..Len(s) /\ n + 1 # 0 /\ (n + 1) - 1 = n
      BY <2>1, <2>4
    <3> QED BY <2>2, <3>1
  <2> QED BY <2>1, <2>3, <2>4
<1> DEFINE In(n) == {x \in kept : \E i \in 1..n : s[i] = x}
           T == {n \in 0..Len(s) : /\ left[n] \in Seq(S)
                                   /\ ToSet(left[n]) = In(n)
                                   /\ IsInjective(s) => IsInjective(left[n])}
<1>3. 0 \in T
  <2>1. ToSet(<<>>) = {}
    BY DEF ToSet
  <2>2. In(0) = {}
    OBVIOUS
  <2>3. IsInjective(<<>>)
    BY DEF IsInjective
  <2>4. left[0] \in Seq(S) /\ 0 \in 0..Len(s)
    BY <1>2
  <2>5. ToSet(left[0]) = In(0)
    <3> HIDE DEF In
    <3> QED BY <1>2, <2>1, <2>2
  <2>6. IsInjective(left[0])
    BY <1>2, <2>3
  <2> HIDE DEF In
  <2> QED BY <2>4, <2>5, <2>6
<1>4. ASSUME NEW n \in 0..Len(s), n \in T, n < Len(s)
      PROVE  n + 1 \in T
  <2>1. n + 1 \in 0..Len(s) /\ n + 1 \in 1..Len(s) /\ s[n + 1] \in S
    BY <1>4
  <2>2. CASE s[n + 1] \notin kept
    <3>1. left[n + 1] = left[n]
      BY <1>2, <1>4, <2>2
    <3>2. In(n + 1) = In(n)
      <4>1. \A i \in 1..n + 1 : i \in 1..n \/ i = n + 1
        BY <1>2
      <4>2. \A i \in 1..n : i \in 1..n + 1
        BY <1>2
      <4> QED BY <4>1, <4>2, <2>2
    <3> HIDE DEF In
    <3> QED BY <3>1, <3>2, <2>1, <1>4
  <2>3. CASE s[n + 1] \in kept
    <3>1. left[n + 1] = Append(left[n], s[n + 1])
      BY <1>2, <1>4, <2>3
    <3>2. In(n + 1) = In(n) \union {s[n + 1]}
      <4>1. \A i \in 1..n + 1 : i \in 1..n \/ i = n + 1
        BY <1>2
      <4>2. \A i \in 1..n : i \in 1..n + 1
        BY <1>2
      <4>3. n + 1 \in 1..n + 1
        BY <1>2
      <4> QED BY <4>1, <4>2, <4>3, <2>3
    <3>3. left[n] \in Seq(S) /\ ToSet(left[n]) = In(n)
      BY <1>4
    <3>4. /\ left[n + 1] \in Seq(S)
          /\ ToSet(left[n + 1]) = In(n) \union {s[n + 1]}
      <4> HIDE DEF In
      <4> QED BY <3>1, <3>3, <2>1, AppendedToSet
    <3>5. ASSUME IsInjective(s)
          PROVE  IsInjective(left[n + 1])
      <4>1. s[n + 1] \notin In(n)
        <5>1. \A i \in 1..n : i \in 1..Len(s) /\ i # n + 1
          BY <1>2, <1>4
        <5>2. \A i, j \in 1..Len(s) : s[i] = s[j] => i = j
          BY <3>5 DEF IsInjective
        <5> QED BY <5>1, <5>2, <2>1
      <4>2. IsInjective(left[n])
        BY <3>5, <1>4
      <4> HIDE DEF In
      <4> QED BY <3>1, <3>3, <4>1, <4>2, <2>1, AppendedInjective
    <3> HIDE DEF In
    <3> QED BY <3>2, <3>4, <3>5, <2>1
  <2> QED BY <2>2, <2>3
<1>5. Len(s) \in T
  <2> HIDE DEF T
  <2>1. 0..Len(s) \subseteq T
    BY <1>2, <1>3, <1>4, UpTo
  <2> QED BY <1>2, <2>1
<1>6. In(Len(s)) = ToSet(s) \intersect kept
  BY DEF ToSet
<1>7. s = <<>> => left[Len(s)] = <<>>
  BY <1>2
<1> HIDE DEF In
<1> QED BY <1>1, <1>5, <1>6, <1>7

(* One list after the other has the entries of both, ...                   *)
LEMMA JoinedToSet ==
  ASSUME NEW S, NEW s \in Seq(S), NEW t \in Seq(S)
  PROVE  /\ s \o t \in Seq(S)
         /\ ToSet(s \o t) = ToSet(s) \union ToSet(t)
<1>1. /\ s \o t \in Seq(S)
      /\ Len(s \o t) = Len(s) + Len(t)
      /\ Len(s) \in Nat /\ Len(t) \in Nat
      /\ \A i \in 1..Len(s) + Len(t) :
           (s \o t)[i] = IF i <= Len(s) THEN s[i] ELSE t[i - Len(s)]
  BY ConcatProperties
<1>2. /\ DOMAIN (s \o t) = 1..Len(s) + Len(t)
      /\ DOMAIN s = 1..Len(s) /\ DOMAIN t = 1..Len(t)
  BY <1>1
<1>3. \A i \in 1..Len(s) + Len(t) :
        (s \o t)[i] \in ToSet(s) \union ToSet(t)
  <2>1. \A i \in 1..Len(s) + Len(t) :
          i \in 1..Len(s) \/ (~(i <= Len(s)) /\ i - Len(s) \in 1..Len(t))
    BY <1>1
  <2>2. \A i \in 1..Len(s) : i <= Len(s)
    BY <1>1
  <2> QED BY <1>1, <1>2, <2>1, <2>2 DEF ToSet
<1>4. \A i \in 1..Len(s) : s[i] \in ToSet(s \o t)
  <2>1. \A i \in 1..Len(s) : i \in 1..Len(s) + Len(t) /\ i <= Len(s)
    BY <1>1
  <2> QED BY <1>1, <1>2, <2>1 DEF ToSet
<1>5. \A i \in 1..Len(t) : t[i] \in ToSet(s \o t)
  <2>1. \A i \in 1..Len(t) : /\ Len(s) + i \in 1..Len(s) + Len(t)
                             /\ ~(Len(s) + i <= Len(s))
                             /\ (Len(s) + i) - Len(s) = i
    BY <1>1
  <2>2. \A i \in 1..Len(t) : (s \o t)[Len(s) + i] = t[i]
    BY <1>1, <2>1
  <2> QED BY <1>2, <2>1, <2>2 DEF ToSet
<1>6. ToSet(s \o t) \subseteq ToSet(s) \union ToSet(t)
  BY <1>2, <1>3 DEF ToSet
<1>7. ToSet(s) \union ToSet(t) \subseteq ToSet(s \o t)
  BY <1>2, <1>4, <1>5 DEF ToSet
<1> QED BY <1>1, <1>6, <1>7

(* ... and none twice if the two have none twice nor in common.            *)
LEMMA JoinedInjective ==
  ASSUME NEW A, NEW B, A \intersect B = {},
         NEW s \in Seq(A), NEW t \in Seq(B)
  PROVE  IsInjective(s \o t) <=> IsInjective(s) /\ IsInjective(t)
<1>1. /\ Len(s) \in Nat /\ Len(t) \in Nat
      /\ DOMAIN (s \o t) = 1..Len(s) + Len(t)
      /\ DOMAIN s = 1..Len(s) /\ DOMAIN t = 1..Len(t)
      /\ \A i \in 1..Len(s) + Len(t) :
           (s \o t)[i] = IF i <= Len(s) THEN s[i] ELSE t[i - Len(s)]
  <2>1. s \in Seq(A \union B) /\ t \in Seq(A \union B)
    OBVIOUS
  <2> QED BY <2>1, ConcatProperties
<1>2. /\ \A i \in 1..Len(s) : /\ i \in 1..Len(s) + Len(t)
                              /\ (s \o t)[i] = s[i] /\ s[i] \in A
      /\ \A i \in 1..Len(t) : /\ Len(s) + i \in 1..Len(s) + Len(t)
                              /\ (s \o t)[Len(s) + i] = t[i] /\ t[i] \in B
  <2>1. \A i \in 1..Len(s) : i \in 1..Len(s) + Len(t) /\ i <= Len(s)
    BY <1>1
  <2>2. \A i \in 1..Len(t) : /\ Len(s) + i \in 1..Len(s) + Len(t)
                             /\ ~(Len(s) + i <= Len(s))
                             /\ (Len(s) + i) - Len(s) = i
    BY <1>1
  <2>3. \A i \in 1..Len(s) : s[i] \in A
    OBVIOUS
  <2>4. \A i \in 1..Len(t) : t[i] \in B
    OBVIOUS
  <2>5. \A i \in 1..Len(s) : (s \o t)[i] = s[i]
    BY <1>1, <2>1
  <2>6. \A i \in 1..Len(t) : (s \o t)[Len(s) + i] = t[i]
    BY <1>1, <2>2
  <2> QED BY <2>1, <2>2, <2>3, <2>4, <2>5, <2>6
<1>3. ASSUME IsInjective(s \o t)
      PROVE  IsInjective(s) /\ IsInjective(t)
  <2>1. \A i, j \in 1..Len(s) + Len(t) :
          (s \o t)[i] = (s \o t)[j] => i = j
    BY <1>1, <1>3 DEF IsInjective
  <2>2. \A i, j \in 1..Len(s) : s[i] = s[j] => i = j
    BY <1>2, <2>1
  <2>3. \A i, j \in 1..Len(t) : t[i] = t[j] => Len(s) + i = Len(s) + j
    BY <1>2, <2>1
  <2>4. \A i, j \in 1..Len(t) : Len(s) + i = Len(s) + j => i = j
    BY <1>1
  <2> QED BY <1>1, <2>2, <2>3, <2>4 DEF IsInjective
<1>4. ASSUME IsInjective(s), IsInjective(t)
      PROVE  IsInjective(s \o t)
  <2>1. /\ \A i, j \in 1..Len(s) : s[i] = s[j] => i = j
        /\ \A i, j \in 1..Len(t) : t[i] = t[j] => i = j
    BY <1>1, <1>4 DEF IsInjective
  <2> SUFFICES ASSUME NEW i \in 1..Len(s) + Len(t), NEW j \in 1..Len(s) + Len(t),
                      (s \o t)[i] = (s \o t)[j]
               PROVE  i = j
    BY <1>1 DEF IsInjective
  <2>2. \A k \in 1..Len(s) + Len(t) :
          k \in 1..Len(s) \/ \E l \in 1..Len(t) : k = Len(s) + l
    <3> SUFFICES ASSUME NEW k \in 1..Len(s) + Len(t), k \notin 1..Len(s)
                 PROVE  \E l \in 1..Len(t) : k = Len(s) + l
      OBVIOUS
    <3>1. k - Len(s) \in 1..Len(t) /\ k = Len(s) + (k - Len(s))
      BY <1>1
    <3> QED BY <3>1
  <2>3. CASE i \in 1..Len(s) /\ j \in 1..Len(s)
    BY <1>2, <2>1, <2>3
  <2>4. CASE i \notin 1..Len(s) /\ j \notin 1..Len(s)
    <3>1. PICK k \in 1..Len(t), l \in 1..Len(t) : i = Len(s) + k /\ j = Len(s) + l
      BY <2>2, <2>4
    <3>2. t[k] = t[l]
      BY <1>2, <3>1
    <3> QED BY <2>1, <3>1, <3>2
  <2>5. CASE i \in 1..Len(s) /\ j \notin 1..Len(s)
    <3>1. PICK l \in 1..Len(t) : j = Len(s) + l
      BY <2>2, <2>5
    <3> QED BY <1>2, <2>5, <3>1
  <2>6. CASE i \notin 1..Len(s) /\ j \in 1..Len(s)
    <3>1. PICK k \in 1..Len(t) : i = Len(s) + k
      BY <2>2, <2>6
    <3> QED BY <1>2, <2>6, <3>1
  <2> QED BY <2>3, <2>4, <2>5, <2>6
<1> QED BY <1>3, <1>4
-----------------------------------------------------------------------------
(* Whoever stands further back is told no earlier time.                    *)
LEMMA TimeGrows ==
  ASSUME NEW k \in Nat, NEW l \in Nat, k <= l
  PROVE  /\ GetTime(k) \in 1..LastTime
         /\ GetTime(k) <= GetTime(l)
  BY DEF GetTime, LastTime

(* A client that waits is in one of the lists, and has time left.          *)
Kept(p) == p \in ToSet(priorityWaitList) \union ToSet(waitList)
InTime ==
  \A p \in Players :
    retryIn[p] >= 0 => Kept(p) /\ timeLeft[p] >= retryIn[p] + 3

(* The inductive invariant.                                                *)
IInv == TypeOK /\ InTime /\ IsFiniteSet(online)

(* The lists after cleanupList.                                            *)
LEMMA CleanedLists ==
  ASSUME TypeOK
  PROVE  /\ Cleaned(priorityWaitList) \in Seq(Premium)
         /\ Cleaned(waitList) \in Seq(Players \ Premium)
         /\ ToSet(Cleaned(priorityWaitList)) =
              {q \in ToSet(priorityWaitList) : q \in Players /\ timeLeft[q] > 0}
         /\ ToSet(Cleaned(waitList)) =
              {q \in ToSet(waitList) : q \in Players /\ timeLeft[q] > 0}
         /\ IsInjective(Cleaned(priorityWaitList))
         /\ IsInjective(Cleaned(waitList))
         /\ priorityWaitList = <<>> => Cleaned(priorityWaitList) = <<>>
         /\ waitList = <<>> => Cleaned(waitList) = <<>>
<1> DEFINE kept == {q \in Players : timeLeft[q] > 0}
<1>1. /\ priorityWaitList \in Seq(Premium) /\ waitList \in Seq(Players \ Premium)
      /\ IsInjective(priorityWaitList) /\ IsInjective(waitList)
  <2>1. Premium \intersect (Players \ Premium) = {}
    OBVIOUS
  <2> QED BY <2>1, JoinedInjective DEF TypeOK
<1>2. /\ Cleaned(priorityWaitList) = Keeping(kept, priorityWaitList)
      /\ Cleaned(waitList) = Keeping(kept, waitList)
  BY DEF Cleaned
<1>3. \A S : S \intersect kept = {q \in S : q \in Players /\ timeLeft[q] > 0}
  OBVIOUS
<1> HIDE DEF kept
<1> QED BY <1>1, <1>2, <1>3, KeepingProperties

(* Who is found on them.                                                   *)
LEMMA WaitingIs ==
  ASSUME TypeOK
  PROVE  /\ Waiting \in Seq(Players)
         /\ Len(Waiting) = Len(Cleaned(priorityWaitList)) + Len(Cleaned(waitList))
         /\ ToSet(Waiting) =
              ToSet(Cleaned(priorityWaitList)) \union ToSet(Cleaned(waitList))
         /\ \A p : IsWaiting(p) <=> p \in ToSet(Waiting)
         /\ \A p : IsWaiting(p) => Slot(p) \in 1..Len(Waiting)
<1>1. /\ Cleaned(priorityWaitList) \in Seq(Players)
      /\ Cleaned(waitList) \in Seq(Players)
  BY CleanedLists, PlayersAssumption
<1>2. /\ Waiting \in Seq(Players)
      /\ ToSet(Waiting) =
           ToSet(Cleaned(priorityWaitList)) \union ToSet(Cleaned(waitList))
  BY <1>1, JoinedToSet DEF Waiting
<1>3. Len(Waiting) = Len(Cleaned(priorityWaitList)) + Len(Cleaned(waitList))
  BY <1>1, ConcatProperties DEF Waiting
<1>4. \A p : IsWaiting(p) <=> \E k \in 1..Len(Waiting) : Waiting[k] = p
  BY DEF IsWaiting, Contains
<1>5. \A p : IsWaiting(p) <=> p \in ToSet(Waiting)
  BY <1>2, <1>4 DEF ToSet
<1>6. \A p : IsWaiting(p) => Slot(p) \in 1..Len(Waiting)
  BY <1>4 DEF Slot
<1> QED BY <1>2, <1>3, <1>5, <1>6

(* A client whose time has not come yet is still on the cleaned lists.     *)
LEMMA InTimeIsCleaned ==
  ASSUME TypeOK, InTime
  PROVE  \A p \in Players : retryIn[p] >= 0 =>
           /\ timeLeft[p] >= retryIn[p] + 3
           /\ \/ p \in ToSet(Cleaned(priorityWaitList))
              \/ p \in ToSet(Cleaned(waitList))
<1>1. \A p \in Players : timeLeft[p] \in Nat /\ retryIn[p] \in Int
  BY DEF TypeOK
<1>2. \A p \in Players : retryIn[p] >= 0 => timeLeft[p] > 0
  BY <1>1 DEF InTime
<1> QED BY <1>1, <1>2, CleanedLists DEF InTime, Kept

(* Where a client stands that joins a list.                                *)
LEMMA FirstPlace ==
  ASSUME NEW S, NEW s \in Seq(S), NEW e, NEW k \in 1..Len(s), s[k] = e
  PROVE  ClientSlot(s, e) \in 1..k
<1> DEFINE I == {i \in 1..Len(s) : s[i] = e}
<1>1. k \in I /\ I \in SUBSET Nat
  OBVIOUS
<1>2. PICK n \in I : \A m \in I : n <= m
  <2> HIDE DEF I
  <2> QED BY <1>1, LeastNatural
<1>3. Min(I) \in I /\ \A m \in I : Min(I) <= m
  <2> HIDE DEF I
  <2> QED BY <1>2 DEF Min
<1>4. ClientSlot(s, e) = Min(I)
  BY <1>1 DEF ClientSlot, SelectInSeq
<1>5. \A m \in I : m \in 1..Len(s)
  OBVIOUS
<1> HIDE DEF I
<1>6. Min(I) \in 1..Len(s) /\ Min(I) <= k
  BY <1>1, <1>3, <1>5
<1>7. k \in Nat /\ Len(s) \in Nat
  OBVIOUS
<1> QED BY <1>4, <1>6, <1>7

(* The invariant holds at first, ...                                       *)
LEMMA InitIInv == Init => IInv
<1> SUFFICES ASSUME Init PROVE IInv
  OBVIOUS
<1>1. IsInjective(<<>> \o <<>>)
  BY DEF IsInjective
<1>2. TypeOK
  BY <1>1, LimitAssumption DEF Init, TypeOK, LastTime
<1>3. InTime
  BY DEF Init, InTime
<1>4. IsFiniteSet(online)
  BY FS_EmptySet DEF Init
<1> QED BY <1>2, <1>3, <1>4 DEF IInv

(* No player is on both lists.                                             *)
LEMMA ListsKeepTypes ==
  ASSUME NEW ps \in Seq(Premium), NEW ws \in Seq(Players \ Premium),
         IsInjective(ps), IsInjective(ws)
  PROVE  IsInjective(ps \o ws)
  BY JoinedInjective

(* ... and every step keeps it: who is let in at once, ...                 *)
LEMMA LoginAtOnceIInv ==
  ASSUME IInv, NEW p \in Players, LoginAtOnce(p)
  PROVE  IInv'
<1>1. TypeOK'
  BY DEF IInv, TypeOK, LoginAtOnce, lists, LastTime
<1>2. InTime'
  BY DEF IInv, TypeOK, InTime, Kept, LoginAtOnce, lists
<1>3. IsFiniteSet(online)'
  BY FS_AddElement DEF IInv, LoginAtOnce
<1> QED BY <1>1, <1>2, <1>3 DEF IInv

(* ... or from the list, ...                                               *)
LEMMA LoginFromListIInv ==
  ASSUME IInv, NEW p \in Players, LoginFromList(p)
  PROVE  IInv'
<1>0. TypeOK /\ InTime
  BY DEF IInv
<1>1. /\ priorityWaitList' = Keeping(Players \ {p}, Cleaned(priorityWaitList))
      /\ waitList' = Keeping(Players \ {p}, Cleaned(waitList))
  BY DEF LoginFromList, Erased
<1>2. /\ priorityWaitList' \in Seq(Premium)
      /\ waitList' \in Seq(Players \ Premium)
      /\ ToSet(priorityWaitList') =
           ToSet(Cleaned(priorityWaitList)) \intersect (Players \ {p})
      /\ ToSet(waitList') = ToSet(Cleaned(waitList)) \intersect (Players \ {p})
      /\ IsInjective(priorityWaitList') /\ IsInjective(waitList')
  BY <1>0, <1>1, CleanedLists, KeepingProperties
<1>3. TypeOK'
  <2>1. IsInjective(priorityWaitList' \o waitList')
    BY <1>2, ListsKeepTypes
  <2>2. drift' \in 0..MaxDrift
    BY <1>0, LimitAssumption DEF TypeOK, LoginFromList
  <2> QED BY <1>0, <1>2, <2>1, <2>2 DEF TypeOK, LoginFromList, LastTime
<1>4. InTime'
  <2> SUFFICES ASSUME NEW q \in Players, retryIn'[q] >= 0
               PROVE  Kept(q)' /\ timeLeft'[q] >= retryIn'[q] + 3
    BY DEF InTime
  <2>1. q # p /\ retryIn'[q] = retryIn[q] /\ timeLeft' = timeLeft
    BY <1>0 DEF TypeOK, LoginFromList
  <2> QED BY <1>0, <1>2, <2>1, InTimeIsCleaned DEF Kept
<1>5. IsFiniteSet(online)'
  BY FS_AddElement DEF IInv, LoginFromList
<1> QED BY <1>3, <1>4, <1>5 DEF IInv

(* ... who waits on, ...                                                   *)
LEMMA WaitLongerIInv ==
  ASSUME IInv, NEW p \in Players, WaitLonger(p)
  PROVE  IInv'
<1>0. TypeOK /\ InTime
  BY DEF IInv
<1>1. /\ priorityWaitList' = Cleaned(priorityWaitList)
      /\ waitList' = Cleaned(waitList)
  BY DEF WaitLonger
<1>2. Slot(p) \in Nat
  BY <1>0, WaitingIs DEF WaitLonger
<1>3. /\ GetTime(Slot(p)) \in 1..LastTime
      /\ timeLeft' = [timeLeft EXCEPT ![p] = GetTime(Slot(p)) + 3]
      /\ retryIn' = [retryIn EXCEPT ![p] = GetTime(Slot(p))]
  BY <1>2, TimeGrows DEF WaitLonger, GetTimeout
<1>4. TypeOK'
  <2>1. IsInjective(priorityWaitList' \o waitList')
    BY <1>0, <1>1, CleanedLists, ListsKeepTypes
  <2>2. timeLeft' \in [Players -> 0..LastTime + 3]
    <3>1. GetTime(Slot(p)) + 3 \in 0..LastTime + 3
      BY <1>3 DEF LastTime
    <3> QED BY <1>0, <1>3, <3>1 DEF TypeOK
  <2>4. retryIn' \in [Players -> -1..LastTime]
    <3>1. GetTime(Slot(p)) \in -1..LastTime
      BY <1>3 DEF LastTime
    <3> QED BY <1>0, <1>3, <3>1 DEF TypeOK
  <2>3. drift' = drift /\ online' = online
    BY DEF WaitLonger
  <2> QED BY <1>0, <1>1, <2>1, <2>2, <2>3, <2>4, CleanedLists DEF TypeOK
<1>5. InTime'
  <2> SUFFICES ASSUME NEW q \in Players, retryIn'[q] >= 0
               PROVE  Kept(q)' /\ timeLeft'[q] >= retryIn'[q] + 3
    BY DEF InTime
  <2>1. CASE q = p
    <3>1. p \in ToSet(Cleaned(priorityWaitList)) \union ToSet(Cleaned(waitList))
      BY <1>0, WaitingIs DEF WaitLonger
    <3>2. Kept(p)'
      BY <1>1, <3>1 DEF Kept
    <3>3. timeLeft'[p] = retryIn'[p] + 3
      BY <1>0, <1>3 DEF TypeOK
    <3>4. retryIn'[p] + 3 >= retryIn'[p] + 3
      BY <1>0, <1>3 DEF TypeOK
    <3> QED BY <2>1, <3>2, <3>3, <3>4
  <2>2. CASE q # p
    <3>1. retryIn'[q] = retryIn[q] /\ timeLeft'[q] = timeLeft[q]
      BY <1>0, <1>3, <2>2 DEF TypeOK
    <3> QED BY <1>0, <1>1, <3>1, InTimeIsCleaned DEF Kept
  <2> QED BY <2>1, <2>2
<1>6. IsFiniteSet(online)'
  BY DEF IInv, WaitLonger
<1> QED BY <1>4, <1>5, <1>6 DEF IInv

(* ... who joins a list: it gets a timeout no earlier than that of its     *)
(* true place, as the size of the premium list errs on the larger side, ...*)
LEMMA EnqueueIInv ==
  ASSUME IInv, NEW p \in Players, Enqueue(p)
  PROVE  IInv'
<1>0. TypeOK /\ InTime /\ drift \in Nat
  BY LimitAssumption DEF IInv, TypeOK
<1> DEFINE cp == Cleaned(priorityWaitList)
           cw == Cleaned(waitList)
           told == ClientSlot(priorityWaitList' \o waitList', p)
<1>1. /\ cp \in Seq(Premium) /\ cw \in Seq(Players \ Premium)
      /\ IsInjective(cp) /\ IsInjective(cw)
      /\ Len(cp) \in Nat /\ Len(cw) \in Nat
  BY <1>0, CleanedLists
<1>2. p \notin ToSet(cp) /\ p \notin ToSet(cw)
  BY <1>0, WaitingIs DEF Enqueue
<1>3. retryIn' = [retryIn EXCEPT ![p] = GetTime(told)]
  BY DEF Enqueue
<1>4. drift' = drift /\ online' = online
  BY DEF Enqueue
<1>5. /\ priorityWaitList' \in Seq(Premium) /\ waitList' \in Seq(Players \ Premium)
      /\ IsInjective(priorityWaitList') /\ IsInjective(waitList')
      /\ ToSet(priorityWaitList') \union ToSet(waitList') =
           ToSet(cp) \union ToSet(cw) \union {p}
      /\ \E k \in Nat : /\ told \in Nat /\ told <= k
                         /\ timeLeft' = [timeLeft EXCEPT ![p] = GetTimeout(k)]
  <2>1. CASE p \in Premium
    <3>1. /\ priorityWaitList' = Append(cp, p) /\ waitList' = cw
          /\ timeLeft' = [timeLeft EXCEPT ![p] = GetTimeout(Len(cp) + drift + 1)]
      BY <2>1 DEF Enqueue, PrioritySize
    <3>2. told \in 1..Len(cp) + 1
      <4>1. /\ Append(cp, p) \in Seq(Players) /\ cw \in Seq(Players)
            /\ Len(Append(cp, p)) = Len(cp) + 1
            /\ Append(cp, p)[Len(cp) + 1] = p
        <5> HIDE DEF cp, cw
        <5> QED BY <1>1, PlayersAssumption
      <4>2. /\ Append(cp, p) \o cw \in Seq(Players)
            /\ Len(cp) + 1 \in 1..Len(Append(cp, p) \o cw)
            /\ (Append(cp, p) \o cw)[Len(cp) + 1] = p
        <5> HIDE DEF cp, cw
        <5> QED BY <1>1, <4>1, ConcatProperties
      <4>3. ClientSlot(Append(cp, p) \o cw, p) \in 1..Len(cp) + 1
        <5> HIDE DEF cp, cw
        <5> QED BY <4>2, FirstPlace
      <4> QED BY <3>1, <4>3
    <3>3. told \in Nat /\ told <= Len(cp) + drift + 1 /\ Len(cp) + drift + 1 \in Nat
      <4> HIDE DEF cp, cw, told
      <4> QED BY <1>0, <1>1, <3>2
    <3>4. p \in Premium
      BY <2>1
    <3> HIDE DEF cp, cw, told
    <3>5. /\ Append(cp, p) \in Seq(Premium)
          /\ ToSet(Append(cp, p)) = ToSet(cp) \union {p}
          /\ IsInjective(Append(cp, p))
      BY <1>1, <1>2, <3>4, AppendedToSet, AppendedInjective
    <3> QED BY <1>1, <3>1, <3>3, <3>5
  <2>2. CASE p \notin Premium
    <3>1. /\ priorityWaitList' = cp /\ waitList' = Append(cw, p)
          /\ timeLeft' = [timeLeft EXCEPT ![p] =
                            GetTimeout((Len(cp) + drift) + (Len(cw) - drift) + 1)]
      BY <2>2 DEF Enqueue, PrioritySize, WaitSize
    <3>2. told \in 1..Len(cp) + Len(cw) + 1
      <4>1. /\ Append(cw, p) \in Seq(Players) /\ cp \in Seq(Players)
            /\ Len(Append(cw, p)) = Len(cw) + 1
            /\ Append(cw, p)[Len(cw) + 1] = p
        <5> HIDE DEF cp, cw
        <5> QED BY <1>1, PlayersAssumption
      <4>2. /\ cp \o Append(cw, p) \in Seq(Players)
            /\ Len(cp) + Len(cw) + 1 \in 1..Len(cp \o Append(cw, p))
            /\ (cp \o Append(cw, p))[Len(cp) + Len(cw) + 1] = p
        <5> HIDE DEF cp, cw
        <5>1. /\ Len(cp) + Len(cw) + 1 \in 1..Len(cp) + (Len(cw) + 1)
              /\ ~(Len(cp) + Len(cw) + 1 <= Len(cp))
              /\ Len(cp) + Len(cw) + 1 - Len(cp) = Len(cw) + 1
          BY <1>1
        <5> QED BY <4>1, <5>1, ConcatProperties
      <4>3. ClientSlot(cp \o Append(cw, p), p) \in 1..Len(cp) + Len(cw) + 1
        <5> HIDE DEF cp, cw
        <5> QED BY <4>2, FirstPlace
      <4> QED BY <3>1, <4>3
    <3>3. /\ (Len(cp) + drift) + (Len(cw) - drift) + 1 = Len(cp) + Len(cw) + 1
          /\ told \in Nat /\ told <= Len(cp) + Len(cw) + 1
          /\ Len(cp) + Len(cw) + 1 \in Nat
      <4> HIDE DEF cp, cw, told
      <4> QED BY <1>0, <1>1, <3>2
    <3>4. p \in Players \ Premium
      BY <2>2
    <3> HIDE DEF cp, cw, told
    <3>5. /\ Append(cw, p) \in Seq(Players \ Premium)
          /\ ToSet(Append(cw, p)) = ToSet(cw) \union {p}
          /\ IsInjective(Append(cw, p))
      BY <1>1, <1>2, <3>4, AppendedToSet, AppendedInjective
    <3> QED BY <1>1, <3>1, <3>3, <3>5
  <2> QED BY <2>1, <2>2
<1>6. PICK k \in Nat : /\ told \in Nat /\ told <= k
                       /\ timeLeft' = [timeLeft EXCEPT ![p] = GetTimeout(k)]
  BY <1>5
<1>7. /\ GetTime(told) \in 1..LastTime
      /\ GetTimeout(k) \in Nat
      /\ GetTimeout(k) <= LastTime + 3
      /\ GetTime(told) + 3 <= GetTimeout(k)
  <2> HIDE DEF told
  <2>1. /\ GetTime(told) \in 1..LastTime /\ GetTime(k) \in 1..LastTime
        /\ GetTime(told) <= GetTime(k)
    BY <1>6, TimeGrows
  <2> QED BY <2>1 DEF GetTimeout, LastTime
<1> HIDE DEF told
<1>8. TypeOK'
  <2>1. IsInjective(priorityWaitList' \o waitList')
    BY <1>5, ListsKeepTypes
  <2>2. timeLeft' \in [Players -> 0..LastTime + 3]
    <3>1. GetTimeout(k) \in 0..LastTime + 3
      BY <1>7 DEF LastTime
    <3> QED BY <1>0, <1>6, <3>1 DEF TypeOK
  <2>3. retryIn' \in [Players -> -1..LastTime]
    <3>1. GetTime(told) \in -1..LastTime
      BY <1>7 DEF LastTime
    <3> QED BY <1>0, <1>3, <3>1 DEF TypeOK
  <2> QED BY <1>0, <1>4, <1>5, <2>1, <2>2, <2>3 DEF TypeOK
<1>9. InTime'
  <2> SUFFICES ASSUME NEW q \in Players, retryIn'[q] >= 0
               PROVE  Kept(q)' /\ timeLeft'[q] >= retryIn'[q] + 3
    BY DEF InTime
  <2>1. CASE q = p
    BY <1>0, <1>3, <1>5, <1>6, <1>7, <2>1 DEF Kept, TypeOK
  <2>2. CASE q # p
    <3>1. retryIn'[q] = retryIn[q] /\ timeLeft'[q] = timeLeft[q]
      BY <1>0, <1>3, <1>6, <2>2 DEF TypeOK
    <3> QED BY <1>0, <1>5, <3>1, InTimeIsCleaned DEF Kept
  <2> QED BY <2>1, <2>2
<1>10. IsFiniteSet(online)'
  BY <1>4 DEF IInv
<1> QED BY <1>8, <1>9, <1>10 DEF IInv

(* ... who leaves, ...                                                     *)
LEMMA LogoutIInv ==
  ASSUME IInv, NEW p \in Players, Logout(p)
  PROVE  IInv'
<1>1. TypeOK'
  BY DEF IInv, TypeOK, Logout, lists
<1>2. InTime'
  BY DEF IInv, InTime, Kept, Logout, lists
<1>3. IsFiniteSet(online)'
  BY FS_RemoveElement DEF IInv, Logout
<1> QED BY <1>1, <1>2, <1>3 DEF IInv

(* ... and time, which passes for entry and client alike.                  *)
LEMMA TickIInv ==
  ASSUME IInv, Tick
  PROVE  IInv'
<1>0. TypeOK /\ InTime
  BY DEF IInv
<1>1. TypeOK'
  <2>1. timeLeft' \in [Players -> 0..LastTime + 3]
    <3>1. \A q \in Players : timeLeft[q] \in 0..27
      BY <1>0 DEF TypeOK, LastTime
    <3>2. \A q \in Players :
            (IF timeLeft[q] > 0 THEN timeLeft[q] - 1 ELSE 0) \in 0..27
      BY <3>1
    <3> QED BY <3>2 DEF Tick, LastTime
  <2>2. retryIn' \in [Players -> -1..LastTime]
    <3>1. \A q \in Players : retryIn[q] \in -1..24
      BY <1>0 DEF TypeOK, LastTime
    <3>2. \A q \in Players :
            (IF retryIn[q] >= 0 THEN retryIn[q] - 1 ELSE -1) \in -1..24
      BY <3>1
    <3> QED BY <3>2 DEF Tick, LastTime
  <2> QED BY <1>0, <2>1, <2>2 DEF TypeOK, Tick
<1>2. InTime'
  <2> SUFFICES ASSUME NEW q \in Players, retryIn'[q] >= 0
               PROVE  Kept(q)' /\ timeLeft'[q] >= retryIn'[q] + 3
    BY DEF InTime
  <2>1. /\ timeLeft[q] \in Nat /\ retryIn[q] \in Int
        /\ timeLeft'[q] = IF timeLeft[q] > 0 THEN timeLeft[q] - 1 ELSE 0
        /\ retryIn'[q] = IF retryIn[q] >= 0 THEN retryIn[q] - 1 ELSE -1
    BY <1>0 DEF TypeOK, Tick
  <2>2. retryIn[q] >= 0
    BY <2>1
  <2>3. timeLeft[q] >= retryIn[q] + 3 /\ Kept(q)
    BY <1>0, <2>2 DEF InTime
  <2>4. Kept(q)'
    BY <2>3 DEF Kept, Tick
  <2> QED BY <2>1, <2>2, <2>3, <2>4
<1>3. IsFiniteSet(online)'
  BY DEF IInv, Tick
<1> QED BY <1>1, <1>2, <1>3 DEF IInv

LEMMA NextIInv == IInv /\ [Next]_vars => IInv'
<1> SUFFICES ASSUME IInv, [Next]_vars
             PROVE  IInv'
  OBVIOUS
<1>1. ASSUME NEW p \in Players, Login(p) \/ Logout(p)
      PROVE  IInv'
  BY <1>1, LoginAtOnceIInv, LoginFromListIInv, WaitLongerIInv, EnqueueIInv,
     LogoutIInv DEF Login
<1>2. CASE Tick
  BY <1>2, TickIInv
<1>3. CASE UNCHANGED vars
  <2>1. UNCHANGED <<priorityWaitList, waitList, drift, timeLeft, retryIn, online>>
    BY <1>3 DEF vars, lists
  <2> QED BY <2>1 DEF IInv, TypeOK, InTime, Kept
<1> QED BY <1>1, <1>2, <1>3 DEF Next

LEMMA Invariance == Spec => []IInv
<1> QED BY InitIInv, NextIInv, PTL DEF Spec

(* The variables of waitlist.cpp keep their types; nobody is listed twice. *)
THEOREM TypeCorrect == Spec => []TypeOK
<1>1. IInv => TypeOK
  BY DEF IInv
<1> QED BY <1>1, Invariance, PTL

(* A client that comes no later than clientLogin told it finds its entry.  *)
THEOREM PlacesAreKept == Spec => []PlaceIsKept
<1>1. IInv => PlaceIsKept
  <2> SUFFICES ASSUME TypeOK, InTime PROVE PlaceIsKept
    BY DEF IInv
  <2> QED BY InTimeIsCleaned, WaitingIs DEF PlaceIsKept
<1> QED BY <1>1, Invariance, PTL

(* Whom a step admits.                                                     *)
LEMMA Admitted ==
  ASSUME IInv, Next,
         NEW p \in (online' \ online) \ Privileged
  PROVE  Cardinality(online') + Ahead(p) <= MaxPlayers
<1>0. /\ TypeOK /\ IsFiniteSet(online)
      /\ Cardinality(online) \in Nat
      /\ MaxPlayers \in Nat
  BY FS_CardinalityType, LimitAssumption DEF IInv
<1>1. PICK q \in Players : Login(q)
  <2>1. ~Tick
    BY DEF Tick
  <2>2. \A q \in Players : ~Logout(q)
    BY DEF Logout
  <2> QED BY <2>1, <2>2 DEF Next
<1>2. LoginAtOnce(q) \/ LoginFromList(q)
  BY <1>1 DEF Login, WaitLonger, Enqueue
<1>3. q = p /\ online' = online \union {p} /\ p \notin online
  BY <1>2 DEF LoginAtOnce, LoginFromList
<1>4. Cardinality(online') = Cardinality(online) + 1
  BY <1>0, <1>3, FS_AddElement
<1>5. CASE LoginAtOnce(p)
  <2>1. /\ priorityWaitList = <<>> /\ waitList = <<>>
        /\ Cardinality(online) < MaxPlayers
    BY <1>5 DEF LoginAtOnce, AtOnce
  <2>2. Cleaned(priorityWaitList) = <<>> /\ Cleaned(waitList) = <<>>
    BY <1>0, <2>1, CleanedLists
  <2>3. Len(Waiting) = 0
    BY <1>0, <2>2, WaitingIs
  <2>4. ~IsWaiting(p)
    BY <2>3 DEF IsWaiting, Contains
  <2>5. Ahead(p) = 0
    BY <2>3, <2>4 DEF Ahead
  <2> QED BY <1>0, <1>4, <2>1, <2>5
<1>6. CASE LoginFromList(p)
  <2>1. IsWaiting(p) /\ Cardinality(online) + Slot(p) <= MaxPlayers
    BY <1>6 DEF LoginFromList, Fits
  <2>2. Slot(p) \in Nat /\ Ahead(p) = Slot(p) - 1
    BY <1>0, <2>1, WaitingIs DEF Ahead
  <2> QED BY <1>0, <1>4, <2>1, <2>2
<1> QED BY <1>2, <1>3, <1>5, <1>6

(* clientLogin admits nobody past those who wait ahead of it.              *)
THEOREM NobodyOvertakes == Spec => FairAdmission
<1>1. IInv /\ [Next]_vars =>
        [\A p \in (online' \ online) \ Privileged :
           Cardinality(online') + Ahead(p) <= MaxPlayers]_vars
  BY Admitted
<1> QED BY <1>1, Invariance, PTL DEF Spec, FairAdmission
-----------------------------------------------------------------------------
(* A player who walks, for any line of cells, any wishes and any number of *)
(* requests.  The player is the record Self; what follows says what each   *)
(* operator of Walking makes of such a record.                             *)
Routes == {l \in Seq({-1, 1}) : Len(l) < LastCell}
Calls == [kind : {"autoWalk"}, list : Routes, id : {0}]
IdOrNone == Wa!EventIds \union {0}
Walkers ==
  [pos : Wa!Cells, delay : BOOLEAN, busy : BOOLEAN, list : Routes,
   cancel : BOOLEAN, walk : IdOrNone, task : IdOrNone, action : IdOrNone,
   walkTask : Wishes \union {Nobody}, scheduled : SUBSET Wa!Events,
   queue : Seq(Wa!Events \union Calls), derailed : BOOLEAN]

(* An event that carries one of the three ids is of the kind of that id,   *)
(* and one for a wish has a wish.                                          *)
KindFits(w, e) ==
  /\ e.kind # "walk" => e.wish # Nobody
  /\ e.id = w.walk => e.kind = "walk"
  /\ e.id = w.task => e.kind = "walkTask"
  /\ e.id = w.action => e.kind = "action"

(* What waits in the scheduler for a wish is the last for it; while it     *)
(* waits there is no walkTask.                                             *)
Linked(w) ==
  /\ \A e \in w.scheduled :
       /\ e.kind = "walkTask" => e.id = w.task /\ w.walkTask = Nobody
       /\ e.kind = "action" => e.id = w.action
       /\ KindFits(w, e)
  /\ \A i \in DOMAIN w.queue :
       w.queue[i].kind # "autoWalk" => KindFits(w, w.queue[i])

(* Each request leaves at most one event behind.                           *)
Room(w, n) ==
  IsFiniteSet(w.scheduled) /\ Cardinality(w.scheduled) + Len(w.queue) <= n

Sound(w, n) == w \in Walkers /\ Linked(w) /\ Room(w, n)

(* The walk goes on, and a walkTask has a walk to wait for.                *)
Going(w) ==
  w.walk # 0 => \/ \E e \in w.scheduled : e.id = w.walk
                \/ \E i \in DOMAIN w.queue : w.queue[i].id = w.walk
Waits(w) ==
  w.walkTask # Nobody =>
    w.walk # 0 \/ \E i \in DOMAIN w.queue : w.queue[i].kind = "autoWalk"

(* What these are about is the same in both.                               *)
Alike(v, w) ==
  /\ v.walk = w.walk /\ v.task = w.task /\ v.action = w.action
  /\ v.walkTask = w.walkTask /\ v.scheduled = w.scheduled /\ v.queue = w.queue
  /\ v.derailed = w.derailed

LEMMA AlikeIsSound ==
  ASSUME NEW v \in Walkers, NEW w, NEW n, Sound(w, n), Alike(v, w)
  PROVE  Sound(v, n) /\ (Going(w) => Going(v)) /\ (Waits(w) => Waits(v))
<1>1. Linked(v) /\ Room(v, n)
  BY DEF Sound, Linked, Room, KindFits, Alike
<1>2. (Going(w) => Going(v)) /\ (Waits(w) => Waits(v))
  BY DEF Going, Waits, Alike
<1> QED BY <1>1, <1>2 DEF Sound

(* A request more or less.                                                 *)
LEMMA MoreRoom ==
  ASSUME NEW w, NEW m \in Nat, NEW n \in Nat, m <= n, Sound(w, m)
  PROVE  Sound(w, n)
<1>1. Cardinality(w.scheduled) \in Nat /\ Len(w.queue) \in Nat
  BY FS_CardinalityType DEF Sound, Room, Walkers
<1> QED BY <1>1 DEF Sound, Room

LEMMA EventFields ==
  /\ \A e \in Wa!Events : e.kind \in Wa!Kinds /\ e.id \in Wa!EventIds /\ e.id # 0
                          /\ e.kind # "autoWalk" /\ e.wish \in Wishes \union {Nobody}
  /\ \A e \in Calls : e.kind = "autoWalk" /\ e.list \in Routes /\ e.id = 0
  /\ 0 \notin Wa!EventIds /\ Wa!EventIds \subseteq Nat /\ MaxAsked \in Nat
BY WalkAssumption DEF Wa!Events, Wa!EventIds, Wa!Kinds, Calls

(* An image is no larger.                                                  *)
LEMMA SmallImage ==
  ASSUME NEW S, IsFiniteSet(S), NEW f, DOMAIN f = S
  PROVE  LET T == {f[x] : x \in S}
         IN  IsFiniteSet(T) /\ Cardinality(T) <= Cardinality(S)
<1> DEFINE T == {f[x] : x \in S}
           g == [x \in S |-> f[x]]
<1>1. g \in Surjection(S, T)
  BY DEF Surjection
<1> HIDE DEF g, T
<1>2. IsFiniteSet(T) /\ Cardinality(T) <= Cardinality(S)
  BY <1>1, FS_Surjection
<1> QED BY <1>2 DEF T

(* So that an id is free, ...                                              *)
Used(w) == {w.walk, w.task, w.action} \union {e.id : e \in w.scheduled}
             \union {w.queue[i].id : i \in DOMAIN w.queue}

LEMMA SomeIdIsFree ==
  ASSUME NEW w, Sound(w, MaxAsked)
  PROVE  Wa!EventIds \ Used(w) # {}
<1> DEFINE Three == {w.walk, w.task, w.action}
           Then == {e.id : e \in w.scheduled}
           Now == {w.queue[i].id : i \in DOMAIN w.queue}
<1>0. /\ IsFiniteSet(w.scheduled) /\ Cardinality(w.scheduled) \in Nat
      /\ w.queue \in Seq(Wa!Events \union Calls) /\ Len(w.queue) \in Nat
      /\ Cardinality(w.scheduled) + Len(w.queue) <= MaxAsked /\ MaxAsked \in Nat
  BY FS_CardinalityType, WalkAssumption DEF Sound, Room, Walkers
<1>1. IsFiniteSet(Then) /\ Cardinality(Then) <= Cardinality(w.scheduled)
  <2> DEFINE f == [e \in w.scheduled |-> e.id]
  <2>1. DOMAIN f = w.scheduled /\ {f[e] : e \in w.scheduled} = Then
    OBVIOUS
  <2> HIDE DEF f, Then
  <2> QED BY <1>0, <2>1, SmallImage
<1>2. IsFiniteSet(Now) /\ Cardinality(Now) <= Len(w.queue)
  <2> DEFINE f == [i \in 1..Len(w.queue) |-> w.queue[i].id]
  <2>0. DOMAIN w.queue = 1..Len(w.queue)
    BY <1>0
  <2>1. DOMAIN f = 1..Len(w.queue) /\ {f[i] : i \in 1..Len(w.queue)} = Now
    BY <2>0
  <2>2. \A n \in Nat : IsFiniteSet(1..n) /\ Cardinality(1..n) = n
    BY FS_Interval
  <2>3. IsFiniteSet(1..Len(w.queue)) /\ Cardinality(1..Len(w.queue)) = Len(w.queue)
    BY <1>0, <2>2
  <2> HIDE DEF f, Now
  <2>4. IsFiniteSet(Now) /\ Cardinality(Now) <= Cardinality(1..Len(w.queue))
    BY <2>1, <2>3, SmallImage
  <2> QED BY <2>3, <2>4
<1>3. IsFiniteSet(Three) /\ Cardinality(Three) <= 3
  <2>1. IsFiniteSet({w.walk}) /\ Cardinality({w.walk}) = 1
    BY FS_Singleton
  <2>2. IsFiniteSet({w.walk} \union {w.task}) /\ Cardinality({w.walk} \union {w.task}) <= 2
        /\ Cardinality({w.walk} \union {w.task}) \in Nat
    <3>1. CASE w.task \in {w.walk}
      <4>1. {w.walk} \union {w.task} = {w.walk}
        BY <3>1
      <4> QED BY <2>1, <4>1
    <3>2. CASE w.task \notin {w.walk}
      BY <2>1, <3>2, FS_AddElement
    <3> QED BY <3>1, <3>2
  <2>3. IsFiniteSet(({w.walk} \union {w.task}) \union {w.action})
        /\ Cardinality(({w.walk} \union {w.task}) \union {w.action}) <= 3
    BY <2>2, FS_AddElement
  <2>4. Three = ({w.walk} \union {w.task}) \union {w.action}
    OBVIOUS
  <2> QED BY <2>3, <2>4
<1> HIDE DEF Three, Then, Now
<1>4. /\ IsFiniteSet(Three \union Then)
      /\ Cardinality(Three \union Then) <= 3 + Cardinality(w.scheduled)
      /\ Cardinality(Three \union Then) \in Nat
  <2>1. /\ IsFiniteSet(Three \union Then)
        /\ Cardinality(Three \union Then)
             = Cardinality(Three) + Cardinality(Then) - Cardinality(Three \intersect Then)
    BY <1>1, <1>3, FS_Union
  <2>2. /\ Cardinality(Three \intersect Then) \in Nat
        /\ Cardinality(Three) \in Nat /\ Cardinality(Then) \in Nat
        /\ Cardinality(Three \union Then) \in Nat
    BY <1>1, <1>3, <2>1, FS_Intersection, FS_CardinalityType
  <2> QED BY <1>0, <1>1, <1>3, <2>1, <2>2
<1>5. IsFiniteSet((Three \union Then) \union Now)
      /\ Cardinality((Three \union Then) \union Now) <= 3 + MaxAsked
      /\ Cardinality((Three \union Then) \union Now) \in Nat
  <2>1. /\ IsFiniteSet((Three \union Then) \union Now)
        /\ Cardinality((Three \union Then) \union Now)
             = Cardinality(Three \union Then) + Cardinality(Now)
                 - Cardinality((Three \union Then) \intersect Now)
    BY <1>2, <1>4, FS_Union
  <2>2. Cardinality((Three \union Then) \intersect Now) \in Nat /\ Cardinality(Now) \in Nat
        /\ Cardinality((Three \union Then) \union Now) \in Nat
    BY <1>2, <1>4, <2>1, FS_Intersection, FS_CardinalityType
  <2> QED BY <1>0, <1>2, <1>4, <2>1, <2>2
<1>6. Used(w) = (Three \union Then) \union Now
  BY DEF Used, Three, Then, Now
<1>7. IsFiniteSet(Wa!EventIds) /\ Cardinality(Wa!EventIds) = MaxAsked + 4
  BY <1>0, FS_Interval DEF Wa!EventIds
<1>8. SUFFICES ASSUME Wa!EventIds \subseteq Used(w) PROVE FALSE
  OBVIOUS
<1>9. Cardinality(Wa!EventIds) <= Cardinality(Used(w))
  BY <1>5, <1>6, <1>8, FS_Subset
<1> QED BY <1>0, <1>5, <1>6, <1>7, <1>9

(* ... and addEvent finds it.                                              *)
LEMMA FreeIdIsFree ==
  ASSUME NEW w, Sound(w, MaxAsked)
  PROVE  Wa!FreeId(w) \in Wa!EventIds \ Used(w)
<1> DEFINE Unused == Wa!EventIds \ Used(w)
<1>0. Wa!FreeId(w) =
        CHOOSE n \in Wa!EventIds : n \notin Used(w) /\ \A m \in Wa!EventIds \ Used(w) : n <= m
  BY DEF Wa!FreeId, Used
<1>1. Unused \in SUBSET Nat /\ Unused # {}
  BY SomeIdIsFree, EventFields
<1>2. PICK n \in Unused : \A m \in Unused : n <= m
  <2> HIDE DEF Unused
  <2> QED BY <1>1, LeastNatural
<1>3. n \in Wa!EventIds /\ n \notin Used(w) /\ \A m \in Wa!EventIds \ Used(w) : n <= m
  BY <1>2
<1> QED BY <1>0, <1>3

(* What stopEvent and addEvent change.                                     *)
Rest(v, w) ==
  /\ v.pos = w.pos /\ v.delay = w.delay /\ v.busy = w.busy /\ v.list = w.list
  /\ v.cancel = w.cancel /\ v.queue = w.queue /\ v.derailed = w.derailed

LEMMA StoppedFields ==
  ASSUME NEW w \in Walkers, NEW id
  PROVE  LET v == Wa!Stopped(w, id)
         IN  /\ v \in Walkers /\ Rest(v, w) /\ v.walkTask = w.walkTask
             /\ v.walk = w.walk /\ v.task = w.task /\ v.action = w.action
             /\ v.scheduled = {e \in w.scheduled : e.id # id}
BY DEF Walkers, Wa!Stopped, Rest

LEMMA AddedFields ==
  ASSUME NEW w \in Walkers, Sound(w, MaxAsked), NEW kind \in Wa!Kinds,
         NEW wish \in Wishes \union {Nobody}
  PROVE  LET v == Wa!Added(w, kind, wish)
         IN  /\ v \in Walkers /\ Rest(v, w) /\ v.walkTask = w.walkTask
             /\ v.walk = w.walk /\ v.task = w.task /\ v.action = w.action
             /\ v.scheduled = w.scheduled \union
                  {[kind |-> kind, wish |-> wish, id |-> Wa!FreeId(w)]}
<1> DEFINE e == [kind |-> kind, wish |-> wish, id |-> Wa!FreeId(w)]
           S == w.scheduled \union {e}
<1>1. Wa!FreeId(w) \in Wa!EventIds
  BY FreeIdIsFree
<1>2. S \in SUBSET Wa!Events
  BY <1>1 DEF Walkers, Wa!Events
<1>3. Wa!Added(w, kind, wish) = [w EXCEPT !.scheduled = S]
  BY DEF Wa!Added, Walkers
<1> HIDE DEF S
<1>4. LET v == [w EXCEPT !.scheduled = S]
      IN  /\ v \in Walkers /\ Rest(v, w) /\ v.walkTask = w.walkTask
          /\ v.walk = w.walk /\ v.task = w.task /\ v.action = w.action
          /\ v.scheduled = S
  BY <1>2 DEF Walkers, Rest
<1> QED BY <1>3, <1>4 DEF S

(* Fewer events need no more room.                                         *)
LEMMA FewerEvents ==
  ASSUME NEW w \in Walkers, NEW v \in Walkers, NEW n \in Nat, Room(w, n),
         v.scheduled \subseteq w.scheduled, v.queue = w.queue
  PROVE  Room(v, n)
<1>1. /\ IsFiniteSet(v.scheduled) /\ Cardinality(v.scheduled) <= Cardinality(w.scheduled)
      /\ Cardinality(v.scheduled) \in Nat /\ Cardinality(w.scheduled) \in Nat
  BY FS_Subset, FS_CardinalityType DEF Room
<1>2. Len(w.queue) \in Nat
  BY DEF Walkers
<1> QED BY <1>1, <1>2 DEF Room

LEMMA OneMoreEvent ==
  ASSUME NEW w \in Walkers, NEW v \in Walkers, NEW n \in Nat, Room(w, n), NEW e,
         v.scheduled = w.scheduled \union {e}, v.queue = w.queue
  PROVE  Room(v, n + 1)
<1>1. /\ IsFiniteSet(v.scheduled) /\ Cardinality(v.scheduled) <= Cardinality(w.scheduled) + 1
      /\ Cardinality(v.scheduled) \in Nat /\ Cardinality(w.scheduled) \in Nat
  <2>1. IsFiniteSet(w.scheduled) /\ Cardinality(w.scheduled) \in Nat
    BY FS_CardinalityType DEF Room
  <2>2. /\ IsFiniteSet(v.scheduled)
        /\ \/ Cardinality(v.scheduled) = Cardinality(w.scheduled)
           \/ Cardinality(v.scheduled) = Cardinality(w.scheduled) + 1
    BY <2>1, FS_AddElement
  <2> QED BY <2>1, <2>2
<1>2. Len(w.queue) \in Nat
  BY DEF Walkers
<1> QED BY <1>1, <1>2 DEF Room

(* What waits and is kept is sound if what it is linked to is kept.        *)
LEMMA SetNextWalkActionTaskIsSound ==
  ASSUME NEW w, NEW n \in Nat, Sound(w, n), NEW wish \in Wishes \union {Nobody}
  PROVE  LET v == Wa!SetNextWalkActionTask(w, wish)
         IN  /\ Sound(v, n) /\ (Going(w) => Going(v))
             /\ Rest(v, w) /\ v.walkTask = wish /\ v.walk = w.walk
<1> DEFINE u == Wa!Stopped(w, w.task)
           v == [u EXCEPT !.task = 0, !.walkTask = wish]
<1>0. w \in Walkers /\ w.task \in IdOrNone
  BY DEF Sound, Walkers
<1>1. /\ u \in Walkers /\ Rest(u, w) /\ u.walk = w.walk /\ u.action = w.action
      /\ u.scheduled = {e \in w.scheduled : e.id # w.task}
  BY <1>0, StoppedFields
<1> HIDE DEF u
<1>2. /\ v \in Walkers /\ Rest(v, w) /\ v.walkTask = wish /\ v.walk = w.walk
      /\ v.task = 0 /\ v.action = w.action
      /\ v.scheduled = {e \in w.scheduled : e.id # w.task}
  BY <1>1 DEF Walkers, Rest, IdOrNone
<1> HIDE DEF v
<1>3. Linked(v)
  <2>1. ASSUME NEW e \in v.scheduled
        PROVE  e.kind # "walkTask" /\ e.id # 0 /\ (e.kind = "action" => e.id = v.action)
               /\ KindFits(v, e)
    <3>1. e \in w.scheduled /\ e \in Wa!Events /\ e.id # w.task
      BY <1>2, <1>0 DEF Walkers
    <3>2. e.id # 0 /\ (e.kind = "walkTask" => e.id = w.task)
          /\ (e.kind = "action" => e.id = w.action) /\ KindFits(w, e)
      BY <3>1, EventFields DEF Sound, Linked
    <3> QED BY <3>1, <3>2, <1>2 DEF KindFits
  <2>2. ASSUME NEW i \in DOMAIN v.queue, v.queue[i].kind # "autoWalk"
        PROVE  KindFits(v, v.queue[i])
    <3>1. i \in DOMAIN w.queue /\ v.queue[i] = w.queue[i]
          /\ w.queue[i] \in Wa!Events \union Calls
      BY <1>2, <1>0 DEF Rest, Walkers
    <3>2. w.queue[i].id # 0
      BY <3>1, <2>2, EventFields
    <3>3. KindFits(w, w.queue[i])
      BY <3>1, <2>2 DEF Sound, Linked
    <3> QED BY <3>1, <3>2, <3>3, <1>2 DEF KindFits
  <2> QED BY <2>1, <2>2 DEF Linked
<1>4. Room(v, n)
  BY <1>0, <1>2, FewerEvents DEF Sound, Rest
<1>5. ASSUME Going(w) PROVE Going(v)
  <2>1. CASE \E e \in w.scheduled : e.id = w.walk
    <3>1. PICK e \in w.scheduled : e.id = w.walk
      BY <2>1
    <3>2. KindFits(w, e)
      BY DEF Sound, Linked
    <3>3. e.id # w.task
      BY <3>1, <3>2 DEF KindFits
    <3> QED BY <3>1, <3>3, <1>2 DEF Going
  <2>2. CASE ~\E e \in w.scheduled : e.id = w.walk
    BY <2>2, <1>5, <1>2 DEF Going, Rest
  <2> QED BY <2>1, <2>2
<1>6. Wa!SetNextWalkActionTask(w, wish) = v
  BY DEF Wa!SetNextWalkActionTask, v, u
<1> QED BY <1>2, <1>3, <1>4, <1>5, <1>6 DEF Sound

LEMMA ActionStopped ==
  ASSUME NEW w, NEW n \in Nat, Sound(w, n)
  PROVE  LET v == [Wa!Stopped(w, w.action) EXCEPT !.action = 0]
         IN  /\ Sound(v, n) /\ (Going(w) => Going(v)) /\ Rest(v, w)
             /\ v.walkTask = w.walkTask /\ v.walk = w.walk
             /\ v.task = w.task /\ v.action = 0
             /\ \A e \in v.scheduled : e.kind # "action"
<1> DEFINE u == Wa!Stopped(w, w.action)
           v == [u EXCEPT !.action = 0]
<1>0. w \in Walkers /\ w.action \in IdOrNone
  BY DEF Sound, Walkers
<1>1. /\ u \in Walkers /\ Rest(u, w) /\ u.walk = w.walk /\ u.task = w.task
      /\ u.walkTask = w.walkTask
      /\ u.scheduled = {e \in w.scheduled : e.id # w.action}
  BY <1>0, StoppedFields
<1> HIDE DEF u
<1>2. /\ v \in Walkers /\ Rest(v, w) /\ v.walkTask = w.walkTask /\ v.walk = w.walk
      /\ v.task = w.task /\ v.action = 0
      /\ v.scheduled = {e \in w.scheduled : e.id # w.action}
  BY <1>1 DEF Walkers, Rest, IdOrNone
<1> HIDE DEF v
<1>3. ASSUME NEW e \in v.scheduled
      PROVE  e.kind # "action" /\ (e.kind = "walkTask" => e.id = v.task /\ v.walkTask = Nobody)
             /\ KindFits(v, e)
  <2>1. e \in w.scheduled /\ e \in Wa!Events /\ e.id # w.action
    BY <1>2, <1>0 DEF Walkers
  <2>2. e.id # 0 /\ (e.kind = "walkTask" => e.id = w.task /\ w.walkTask = Nobody)
        /\ (e.kind = "action" => e.id = w.action) /\ KindFits(w, e)
    BY <2>1, EventFields DEF Sound, Linked
  <2> QED BY <2>1, <2>2, <1>2 DEF KindFits
<1>4. Linked(v)
  <2>1. ASSUME NEW i \in DOMAIN v.queue, v.queue[i].kind # "autoWalk"
        PROVE  KindFits(v, v.queue[i])
    <3>1. i \in DOMAIN w.queue /\ v.queue[i] = w.queue[i]
          /\ w.queue[i] \in Wa!Events \union Calls
      BY <1>2, <1>0 DEF Rest, Walkers
    <3>2. w.queue[i].id # 0
      BY <3>1, <2>1, EventFields
    <3>3. KindFits(w, w.queue[i])
      BY <3>1, <2>1 DEF Sound, Linked
    <3> QED BY <3>1, <3>2, <3>3, <1>2 DEF KindFits
  <2> QED BY <1>3, <2>1 DEF Linked
<1>5. Room(v, n)
  BY <1>0, <1>2, FewerEvents DEF Sound, Rest
<1>6. ASSUME Going(w) PROVE Going(v)
  <2>1. CASE \E e \in w.scheduled : e.id = w.walk
    <3>1. PICK e \in w.scheduled : e.id = w.walk
      BY <2>1
    <3>2. KindFits(w, e)
      BY DEF Sound, Linked
    <3>3. e.id # w.action
      BY <3>1, <3>2 DEF KindFits
    <3> QED BY <3>1, <3>3, <1>2 DEF Going
  <2>2. CASE ~\E e \in w.scheduled : e.id = w.walk
    BY <2>2, <1>6, <1>2 DEF Going, Rest
  <2> QED BY <2>1, <2>2
<1> QED BY <1>2, <1>3, <1>4, <1>5, <1>6 DEF Sound, v, u

(* The event that is added, which takes the place of one of the three.     *)
LEMMA NewEvent ==
  ASSUME NEW w, NEW n \in Nat, n <= MaxAsked, Sound(w, n),
         NEW kind \in Wa!Kinds, NEW wish \in Wishes \union {Nobody},
         NEW v \in Walkers, Rest(v, w),
         v.scheduled = w.scheduled \union
           {[kind |-> kind, wish |-> wish, id |-> Wa!FreeId(w)]},
         v.walk = IF kind = "walk" THEN Wa!FreeId(w) ELSE w.walk,
         v.task = IF kind = "walkTask" THEN Wa!FreeId(w) ELSE w.task,
         v.action = IF kind = "action" THEN Wa!FreeId(w) ELSE w.action,
         v.walkTask = IF kind = "walkTask" THEN Nobody ELSE w.walkTask,
         kind # "walk" => wish # Nobody,
         kind = "walkTask" => \A e \in w.scheduled : e.kind # "walkTask",
         kind = "action" => \A e \in w.scheduled : e.kind # "action"
  PROVE  /\ Sound(v, n + 1)
         /\ kind = "walk" => v.walk # 0
         /\ kind = "walk" \/ Going(w) => Going(v)
<1> DEFINE id == Wa!FreeId(w)
           new == [kind |-> kind, wish |-> wish, id |-> id]
<1>0. w \in Walkers /\ Room(w, n)
  BY DEF Sound
<1>1. Sound(w, MaxAsked)
  BY MoreRoom, EventFields
<1>2. /\ id \in Wa!EventIds \ {0} /\ id # w.walk /\ id # w.task /\ id # w.action
      /\ \A e \in w.scheduled : e.id # id
      /\ \A i \in DOMAIN w.queue : w.queue[i].id # id
  <2>1. id \in Wa!EventIds /\ id \notin Used(w)
    BY <1>1, FreeIdIsFree
  <2>2. id # 0
    BY <2>1, EventFields
  <2> HIDE DEF id
  <2> QED BY <2>1, <2>2 DEF Used
<1>3. new.kind = kind /\ new.id = id /\ new.wish = wish /\ new \in v.scheduled
  OBVIOUS
<1>4. Room(v, n + 1)
  BY <1>0, OneMoreEvent DEF Rest
<1>5. KindFits(v, new)
  BY <1>2, <1>3 DEF KindFits
<1>6. ASSUME NEW e, e.id # id, KindFits(w, e)
      PROVE  KindFits(v, e)
  BY <1>6 DEF KindFits
<1> HIDE DEF id
<1>7. ASSUME NEW e \in v.scheduled
      PROVE  /\ e.kind = "walkTask" => e.id = v.task /\ v.walkTask = Nobody
             /\ e.kind = "action" => e.id = v.action
             /\ KindFits(v, e)
  <2>1. CASE e = new
    BY <2>1, <1>3, <1>5 DEF id
  <2>2. CASE e # new
    <3>1. e \in w.scheduled
      BY <2>2 DEF id
    <3>2. /\ e.kind = "walkTask" => e.id = w.task /\ w.walkTask = Nobody
          /\ e.kind = "action" => e.id = w.action
          /\ KindFits(w, e)
      BY <3>1 DEF Sound, Linked
    <3>3. KindFits(v, e)
      BY <3>1, <3>2, <1>2, <1>6
    <3> QED BY <3>1, <3>2, <3>3
  <2> QED BY <2>1, <2>2
<1>8. ASSUME NEW i \in DOMAIN v.queue, v.queue[i].kind # "autoWalk"
      PROVE  KindFits(v, v.queue[i])
  <2>1. i \in DOMAIN w.queue /\ v.queue[i] = w.queue[i]
    BY DEF Rest
  <2>2. KindFits(w, w.queue[i])
    BY <2>1, <1>8 DEF Sound, Linked
  <2> QED BY <2>1, <2>2, <1>2, <1>6
<1>9. Linked(v)
  BY <1>7, <1>8 DEF Linked
<1>10. kind = "walk" => v.walk # 0
  BY <1>2 DEF id
<1>11. kind = "walk" => Going(v)
  BY <1>3 DEF Going, id
<1>12. kind # "walk" /\ Going(w) => Going(v)
  BY DEF Going, Rest
<1> QED BY <1>4, <1>9, <1>10, <1>11, <1>12 DEF Sound

(* setNextActionTask, which only stops what waits, ...                     *)
LEMMA NoNextActionTaskIsSound ==
  ASSUME NEW w, NEW n \in Nat, Sound(w, n)
  PROVE  LET v == Wa!SetNextActionTask(w, Nobody)
         IN  /\ Sound(v, n) /\ (Going(w) => Going(v)) /\ Rest(v, w)
             /\ v.walkTask = w.walkTask /\ v.walk = w.walk
BY ActionStopped DEF Wa!SetNextActionTask

(* ... or also adds an event.                                              *)
LEMMA SetNextActionTaskIsSound ==
  ASSUME NEW w, NEW n \in Nat, n <= MaxAsked, Sound(w, n), NEW wish \in Wishes
  PROVE  LET v == Wa!SetNextActionTask(w, wish)
         IN  /\ Sound(v, n + 1) /\ (Going(w) => Going(v)) /\ Rest(v, w)
             /\ v.walkTask = w.walkTask /\ v.walk = w.walk
<1> DEFINE u == [Wa!Stopped(w, w.action) EXCEPT !.action = 0]
           a == Wa!Added(u, "action", wish)
           v == [a EXCEPT !.action = Wa!FreeId(u)]
<1>1. /\ Sound(u, n) /\ (Going(w) => Going(u)) /\ Rest(u, w)
      /\ u.walkTask = w.walkTask /\ u.walk = w.walk
      /\ u.task = w.task /\ u.action = 0
      /\ \A e \in u.scheduled : e.kind # "action"
  BY ActionStopped
<1> HIDE DEF u
<1>2. Sound(u, MaxAsked) /\ u \in Walkers
  BY <1>1, MoreRoom, EventFields DEF Sound
<1>3. /\ a \in Walkers /\ Rest(a, u) /\ a.walkTask = u.walkTask
      /\ a.walk = u.walk /\ a.task = u.task
      /\ a.scheduled = u.scheduled \union
           {[kind |-> "action", wish |-> wish, id |-> Wa!FreeId(u)]}
  BY <1>2, AddedFields DEF Wa!Kinds
<1>4. Wa!FreeId(u) \in IdOrNone
  BY <1>2, FreeIdIsFree DEF IdOrNone
<1> HIDE DEF a
<1>5. /\ v \in Walkers /\ Rest(v, u) /\ v.walkTask = u.walkTask
      /\ v.walk = u.walk /\ v.task = u.task /\ v.action = Wa!FreeId(u)
      /\ v.scheduled = u.scheduled \union
           {[kind |-> "action", wish |-> wish, id |-> Wa!FreeId(u)]}
  BY <1>3, <1>4 DEF Walkers, Rest
<1> HIDE DEF v
<1>6. Sound(v, n + 1) /\ (Going(u) => Going(v))
  <2>1. "action" \in Wa!Kinds /\ wish # Nobody
    BY WalkAssumption DEF Wa!Kinds
  <2> QED BY <1>1, <1>5, <2>1, NewEvent
<1>7. Wa!SetNextActionTask(w, wish) = v
  BY WalkAssumption DEF Wa!SetNextActionTask, u, a, v
<1> QED BY <1>1, <1>5, <1>6, <1>7 DEF Rest

(* At the end of a walk the walkTask becomes an event.                     *)
LEMMA OnWalkCompleteIsSound ==
  ASSUME NEW w, NEW n \in Nat, n <= MaxAsked, Sound(w, n)
  PROVE  LET v == Wa!OnWalkComplete(w)
         IN  Sound(v, n + 1) /\ Rest(v, w) /\ v.walkTask = Nobody
<1>0. w \in Walkers
  BY DEF Sound
<1>1. CASE w.walkTask = Nobody
  <2>1. Sound(w, n + 1)
    BY MoreRoom
  <2> QED BY <1>1, <2>1 DEF Wa!OnWalkComplete, Rest
<1>2. CASE w.walkTask # Nobody
  <2> DEFINE a == Wa!Added(w, "walkTask", w.walkTask)
             v == [a EXCEPT !.task = Wa!FreeId(w), !.walkTask = Nobody]
  <2>1. Sound(w, MaxAsked) /\ "walkTask" \in Wa!Kinds /\ w.walkTask \in Wishes \union {Nobody}
    BY <1>0, MoreRoom, EventFields DEF Walkers, Wa!Kinds
  <2>2. /\ a \in Walkers /\ Rest(a, w) /\ a.walk = w.walk /\ a.action = w.action
        /\ a.scheduled = w.scheduled \union
             {[kind |-> "walkTask", wish |-> w.walkTask, id |-> Wa!FreeId(w)]}
    BY <1>0, <2>1, AddedFields
  <2>3. Wa!FreeId(w) \in IdOrNone
    BY <2>1, FreeIdIsFree DEF IdOrNone
  <2> HIDE DEF a
  <2>4. /\ v \in Walkers /\ Rest(v, w) /\ v.walkTask = Nobody
        /\ v.walk = w.walk /\ v.task = Wa!FreeId(w) /\ v.action = w.action
        /\ v.scheduled = w.scheduled \union
             {[kind |-> "walkTask", wish |-> w.walkTask, id |-> Wa!FreeId(w)]}
    BY <2>2, <2>3 DEF Walkers, Rest
  <2> HIDE DEF v
  <2>5. \A e \in w.scheduled : e.kind # "walkTask"
    BY <1>2 DEF Sound, Linked
  <2>6. Sound(v, n + 1)
    BY <1>2, <2>1, <2>4, <2>5, NewEvent
  <2>7. Wa!OnWalkComplete(w) = v
    BY <1>2 DEF Wa!OnWalkComplete, a, v
  <2> QED BY <2>4, <2>6, <2>7
<1> QED BY <1>1, <1>2

(* A stopped walk leaves the other events alone.                           *)
LEMMA StopEventWalkIsSound ==
  ASSUME NEW w, NEW n \in Nat, Sound(w, n)
  PROVE  LET v == Wa!StopEventWalk(w)
         IN  Sound(v, n) /\ Rest(v, w) /\ v.walkTask = w.walkTask /\ v.walk = 0
<1> DEFINE u == Wa!Stopped(w, w.walk)
           v == [u EXCEPT !.walk = 0]
<1>0. w \in Walkers
  BY DEF Sound
<1>1. /\ u \in Walkers /\ Rest(u, w) /\ u.task = w.task /\ u.action = w.action
      /\ u.walkTask = w.walkTask
      /\ u.scheduled = {e \in w.scheduled : e.id # w.walk}
  BY <1>0, StoppedFields
<1> HIDE DEF u
<1>2. /\ v \in Walkers /\ Rest(v, w) /\ v.walkTask = w.walkTask /\ v.walk = 0
      /\ v.task = w.task /\ v.action = w.action
      /\ v.scheduled \subseteq w.scheduled
  BY <1>1 DEF Walkers, Rest, IdOrNone
<1> HIDE DEF v
<1>3. ASSUME NEW e \in Wa!Events, KindFits(w, e)
      PROVE  KindFits(v, e)
  BY <1>2, <1>3, EventFields DEF KindFits
<1>4. \A e \in v.scheduled :
        /\ e.kind = "walkTask" => e.id = v.task /\ v.walkTask = Nobody
        /\ e.kind = "action" => e.id = v.action
        /\ KindFits(v, e)
  <2>1. \A e \in v.scheduled : e \in w.scheduled /\ e \in Wa!Events
    BY <1>0, <1>2 DEF Walkers
  <2> QED BY <1>2, <1>3, <2>1 DEF Sound, Linked
<1>5. ASSUME NEW i \in DOMAIN v.queue, v.queue[i].kind # "autoWalk"
      PROVE  KindFits(v, v.queue[i])
  <2>1. i \in DOMAIN w.queue /\ v.queue[i] = w.queue[i]
        /\ w.queue[i] \in Wa!Events \union Calls
    BY <1>0, <1>2 DEF Rest, Walkers
  <2>2. w.queue[i] \in Wa!Events
    BY <2>1, <1>5, EventFields
  <2> QED BY <1>3, <1>5, <2>1, <2>2 DEF Sound, Linked
<1>6. Linked(v)
  BY <1>4, <1>5 DEF Linked
<1>7. Room(v, n)
  BY <1>0, <1>2, FewerEvents DEF Sound, Rest
<1>8. Wa!StopEventWalk(w) = v
  BY DEF Wa!StopEventWalk, u, v
<1> QED BY <1>2, <1>6, <1>7, <1>8 DEF Sound

(* A new event of the walk.                                                *)
LEMMA WalkEventAddedIsSound ==
  ASSUME NEW w, NEW n \in Nat, n <= MaxAsked, Sound(w, n)
  PROVE  LET v == Wa!WalkEventAdded(w)
         IN  Sound(v, n + 1) /\ Rest(v, w) /\ v.walk # 0 /\ Going(v)
<1> DEFINE a == Wa!Added(w, "walk", Nobody)
           v == [a EXCEPT !.walk = Wa!FreeId(w)]
<1>0. w \in Walkers
  BY DEF Sound
<1>1. Sound(w, MaxAsked) /\ "walk" \in Wa!Kinds /\ Nobody \in Wishes \union {Nobody}
  BY MoreRoom, EventFields DEF Wa!Kinds
<1>2. /\ a \in Walkers /\ Rest(a, w) /\ a.walkTask = w.walkTask
      /\ a.task = w.task /\ a.action = w.action
      /\ a.scheduled = w.scheduled \union
           {[kind |-> "walk", wish |-> Nobody, id |-> Wa!FreeId(w)]}
  BY <1>0, <1>1, AddedFields
<1>3. Wa!FreeId(w) \in IdOrNone
  BY <1>1, FreeIdIsFree DEF IdOrNone
<1> HIDE DEF a
<1>4. /\ v \in Walkers /\ Rest(v, w) /\ v.walkTask = w.walkTask
      /\ v.walk = Wa!FreeId(w) /\ v.task = w.task /\ v.action = w.action
      /\ v.scheduled = w.scheduled \union
           {[kind |-> "walk", wish |-> Nobody, id |-> Wa!FreeId(w)]}
  BY <1>2, <1>3 DEF Walkers, Rest
<1> HIDE DEF v
<1>5. Sound(v, n + 1) /\ v.walk # 0 /\ Going(v)
  BY <1>1, <1>4, NewEvent
<1>6. Wa!WalkEventAdded(w) = v
  BY DEF Wa!WalkEventAdded, a, v
<1> QED BY <1>4, <1>5, <1>6

(* A step keeps everything but what waits for the end of the delay.        *)
LEMMA OneStepIsSound ==
  ASSUME NEW w, NEW n \in Nat, Sound(w, n), w.list # <<>>, NEW free \in BOOLEAN
  PROVE  LET v == Wa!OneStep(w, free)
         IN  /\ Sound(v, n) /\ v.queue = w.queue /\ v.walkTask = w.walkTask
             /\ v.walk = w.walk /\ v.derailed = w.derailed
<1> DEFINE u == [w EXCEPT !.list = Tail(@), !.busy = TRUE]
           v == Wa!SetNextActionTask(u, Nobody)
           to == w.pos + Head(w.list)
           x == [v EXCEPT !.pos = to, !.delay = TRUE]
<1>0. w \in Walkers
  BY DEF Sound
<1>1. Tail(w.list) \in Routes
  <2>1. w.list \in Seq({-1, 1}) /\ w.list # <<>> /\ Len(w.list) < LastCell
    BY <1>0 DEF Walkers, Routes
  <2>2. Tail(w.list) \in Seq({-1, 1}) /\ Len(Tail(w.list)) = Len(w.list) - 1
    BY <2>1, HeadTailProperties
  <2>3. Len(w.list) \in Nat /\ LastCell \in Nat
    BY <2>1, WalkAssumption
  <2> QED BY <2>1, <2>2, <2>3 DEF Routes
<1>2. u \in Walkers /\ Alike(u, w)
  <2> DEFINE l == Tail(w.list)
  <2>1. u = [w EXCEPT !.list = l, !.busy = TRUE]
    BY <1>0 DEF Walkers
  <2> HIDE DEF l
  <2> QED BY <1>0, <1>1, <2>1 DEF Walkers, Alike, l
<1> HIDE DEF u
<1>3. Sound(u, n) /\ u.pos \in Wa!Cells
  BY <1>2, AlikeIsSound DEF Walkers
<1>4. /\ Sound(v, n) /\ v.queue = w.queue /\ v.walkTask = w.walkTask
      /\ v.walk = w.walk /\ v.derailed = w.derailed
  BY <1>2, <1>3, NoNextActionTaskIsSound DEF Rest, Alike
<1> HIDE DEF v
<1>5. CASE free /\ to \in Wa!Cells
  <2> HIDE DEF to
  <2>1. x \in Walkers /\ Alike(x, v)
    BY <1>4, <1>5 DEF Sound, Walkers, Alike
  <2> HIDE DEF x
  <2>2. /\ Sound(x, n) /\ x.queue = v.queue /\ x.walkTask = v.walkTask
        /\ x.walk = v.walk /\ x.derailed = v.derailed
    BY <1>4, <2>1, AlikeIsSound DEF Alike
  <2>3. Wa!OneStep(w, free) = x
    BY <1>5 DEF Wa!OneStep, u, v, x, to
  <2> QED BY <1>4, <2>2, <2>3
<1>6. CASE ~(free /\ to \in Wa!Cells)
  <2>1. Wa!OneStep(w, free) = v
    BY <1>6 DEF Wa!OneStep, u, v
  <2> QED BY <1>4, <2>1
<1> QED BY <1>5, <1>6

(* A walk goes on, or comes to its end, when what waited for it no longer  *)
(* does.                                                                   *)
LEMMA WalkedIsSound ==
  ASSUME NEW w, NEW n \in Nat, n <= MaxAsked, Sound(w, n), NEW free \in BOOLEAN
  PROVE  LET v == Wa!Walked(w, free)
         IN  /\ Sound(v, n + 1) /\ v.queue = w.queue /\ v.derailed = w.derailed
             /\ v.walk # 0 \/ w.list # <<>> => Sound(v, n)
             /\ v.walkTask = Nobody \/ (v.walkTask = w.walkTask /\ v.walk = w.walk)
<1> DEFINE u == IF w.delay THEN w
                ELSE IF w.list # <<>> THEN Wa!OneStep(w, free)
                ELSE Wa!StopEventWalk(Wa!OnWalkComplete(w))
<1>1. /\ Sound(u, n + 1) /\ u.queue = w.queue /\ u.derailed = w.derailed
      /\ u.walk # 0 \/ w.list # <<>> => Sound(u, n)
      /\ u.walkTask = Nobody \/ (u.walkTask = w.walkTask /\ u.walk = w.walk)
  <2>0. Sound(w, n + 1)
    BY MoreRoom
  <2>1. CASE w.delay
    BY <2>0, <2>1
  <2>2. CASE ~w.delay /\ w.list # <<>>
    <3>1. u = Wa!OneStep(w, free)
      BY <2>2
    <3> HIDE DEF u
    <3>2. /\ Sound(u, n) /\ u.queue = w.queue /\ u.walkTask = w.walkTask
          /\ u.walk = w.walk /\ u.derailed = w.derailed
      BY <2>2, <3>1, OneStepIsSound
    <3> QED BY <3>2, MoreRoom
  <2>3. CASE ~w.delay /\ w.list = <<>>
    <3> DEFINE c == Wa!OnWalkComplete(w)
    <3>1. u = Wa!StopEventWalk(c)
      BY <2>3
    <3> HIDE DEF u
    <3>2. Sound(c, n + 1) /\ Rest(c, w) /\ c.walkTask = Nobody
      BY OnWalkCompleteIsSound
    <3> HIDE DEF c
    <3>3. Sound(u, n + 1) /\ Rest(u, c) /\ u.walkTask = c.walkTask /\ u.walk = 0
      BY <3>1, <3>2, StopEventWalkIsSound
    <3> QED BY <2>3, <3>2, <3>3 DEF Rest
  <2> QED BY <2>1, <2>2, <2>3
<1>2. Wa!Walked(w, free) =
        IF u.cancel
        THEN [Wa!SetNextWalkActionTask(u, Nobody) EXCEPT !.list = <<>>, !.cancel = FALSE]
        ELSE u
  BY DEF Wa!Walked
<1> HIDE DEF u
<1>3. CASE ~u.cancel
  BY <1>1, <1>2, <1>3
<1>4. CASE u.cancel
  <2> DEFINE s == Wa!SetNextWalkActionTask(u, Nobody)
             v == [s EXCEPT !.list = <<>>, !.cancel = FALSE]
  <2>1. /\ Sound(s, n + 1) /\ (Sound(u, n) => Sound(s, n))
        /\ s.queue = u.queue /\ s.walkTask = Nobody /\ s.walk = u.walk
        /\ s.derailed = u.derailed
    BY <1>1, SetNextWalkActionTaskIsSound DEF Rest
  <2> HIDE DEF s
  <2>2. v \in Walkers /\ Alike(v, s)
    <3>1. <<>> \in Routes
      BY WalkAssumption DEF Routes
    <3> QED BY <2>1, <3>1 DEF Sound, Walkers, Alike
  <2>3. Wa!Walked(w, free) = v
    BY <1>2, <1>4 DEF s
  <2> HIDE DEF v
  <2>4. /\ Sound(v, n + 1) /\ (Sound(s, n) => Sound(v, n))
        /\ v.queue = s.queue /\ v.walkTask = Nobody /\ v.walk = s.walk
        /\ v.derailed = s.derailed
    BY <2>1, <2>2, AlikeIsSound DEF Alike
  <2> QED BY <1>1, <2>1, <2>3, <2>4
<1> QED BY <1>3, <1>4

(* A walk that begins has its event, one that is under way keeps it.       *)
LEMMA AddEventWalkIsSound ==
  ASSUME NEW w, NEW n \in Nat, n <= MaxAsked, Sound(w, n),
         NEW firstStep \in BOOLEAN, NEW free \in BOOLEAN,
         firstStep => w.list # <<>>
  PROVE  LET v == Wa!AddEventWalk(w, firstStep, free)
         IN  /\ Sound(v, n + 1) /\ v.queue = w.queue /\ v.walk # 0
             /\ v.derailed = w.derailed /\ (Going(w) => Going(v))
<1> DEFINE u == [w EXCEPT !.cancel = FALSE]
           s == IF firstStep /\ ~w.delay /\ alive THEN Wa!Walked(u, free) ELSE u
<1>1. u \in Walkers /\ Alike(u, w) /\ u.list = w.list
  BY DEF Sound, Walkers, Alike
<1>2. Wa!AddEventWalk(w, firstStep, free) = IF w.walk # 0 THEN u ELSE Wa!WalkEventAdded(s)
  BY DEF Wa!AddEventWalk
<1> HIDE DEF u
<1>3. /\ Sound(u, n) /\ (Going(w) => Going(u)) /\ u.queue = w.queue
      /\ u.walk = w.walk /\ u.derailed = w.derailed
  BY <1>1, AlikeIsSound DEF Alike
<1>4. CASE w.walk # 0
  <2>1. Sound(u, n + 1)
    BY <1>3, MoreRoom
  <2> QED BY <1>2, <1>3, <1>4, <2>1
<1>5. CASE w.walk = 0
  <2>1. Sound(s, n) /\ s.queue = w.queue /\ s.derailed = w.derailed
    <3>1. CASE firstStep /\ ~w.delay /\ alive
      BY <1>1, <1>3, <3>1, WalkedIsSound
    <3>2. CASE ~(firstStep /\ ~w.delay /\ alive)
      BY <1>3, <3>2
    <3> QED BY <3>1, <3>2
  <2> HIDE DEF s
  <2>2. LET v == Wa!WalkEventAdded(s)
        IN  Sound(v, n + 1) /\ Rest(v, s) /\ v.walk # 0 /\ Going(v)
    BY <2>1, WalkEventAddedIsSound
  <2> QED BY <1>2, <1>5, <2>1, <2>2 DEF Rest
<1> QED BY <1>4, <1>5

(* onWalk renews the event it is.                                          *)
LEMMA OnWalkIsSound ==
  ASSUME NEW w, NEW n \in Nat, n <= MaxAsked, Sound(w, n), NEW free \in BOOLEAN
  PROVE  LET v == Wa!OnWalk(w, free)
         IN  /\ Sound(v, n + 1) /\ v.derailed = w.derailed
             /\ Going(v) /\ (Waits(w) => Waits(v))
<1> DEFINE u == Wa!Walked(w, free)
           z == [u EXCEPT !.walk = 0]
<1>1. /\ Sound(u, n + 1) /\ u.queue = w.queue /\ u.derailed = w.derailed
      /\ u.walk # 0 => Sound(u, n)
      /\ u.walkTask = Nobody \/ (u.walkTask = w.walkTask /\ u.walk = w.walk)
  BY WalkedIsSound
<1>2. Wa!OnWalk(w, free) = IF u.walk = 0 THEN u ELSE Wa!AddEventWalk(z, FALSE, free)
  BY DEF Wa!OnWalk
<1> HIDE DEF u
<1>3. CASE u.walk = 0
  BY <1>1, <1>2, <1>3 DEF Going, Waits
<1>4. CASE u.walk # 0
  <2>1. /\ z \in Walkers /\ Rest(z, u) /\ z.walk = 0 /\ z.task = u.task
        /\ z.action = u.action /\ z.walkTask = u.walkTask /\ z.scheduled = u.scheduled
    BY <1>1 DEF Sound, Walkers, Rest, IdOrNone
  <2> HIDE DEF z
  <2>2. Sound(u, n) /\ u \in Walkers
    BY <1>1, <1>4 DEF Sound
  <2>3. ASSUME NEW e \in Wa!Events, KindFits(u, e)
        PROVE  KindFits(z, e)
    BY <2>1, <2>3, EventFields DEF KindFits
  <2>4. \A e \in z.scheduled :
          /\ e.kind = "walkTask" => e.id = z.task /\ z.walkTask = Nobody
          /\ e.kind = "action" => e.id = z.action
          /\ KindFits(z, e)
    <3>1. \A e \in z.scheduled : e \in u.scheduled /\ e \in Wa!Events
      BY <2>1, <2>2 DEF Walkers
    <3> QED BY <2>1, <2>2, <2>3, <3>1 DEF Sound, Linked
  <2>5. ASSUME NEW i \in DOMAIN z.queue, z.queue[i].kind # "autoWalk"
        PROVE  KindFits(z, z.queue[i])
    <3>1. i \in DOMAIN u.queue /\ z.queue[i] = u.queue[i]
          /\ u.queue[i] \in Wa!Events \union Calls
      BY <2>1, <2>2 DEF Rest, Walkers
    <3>2. u.queue[i] \in Wa!Events
      BY <3>1, <2>5, EventFields
    <3> QED BY <2>2, <2>3, <2>5, <3>1, <3>2 DEF Sound, Linked
  <2>6. Linked(z)
    BY <2>4, <2>5 DEF Linked
  <2>7. Room(z, n)
    BY <2>1, <2>2 DEF Sound, Room, Rest
  <2>8. Sound(z, n) /\ Going(z)
    BY <2>1, <2>6, <2>7 DEF Sound, Going
  <2>9. LET v == Wa!AddEventWalk(z, FALSE, free)
        IN  Sound(v, n + 1) /\ v.walk # 0 /\ v.derailed = w.derailed /\ Going(v)
    BY <1>1, <2>1, <2>8, AddEventWalkIsSound DEF Rest
  <2> QED BY <1>2, <1>4, <2>9 DEF Waits
<1> QED BY <1>3, <1>4

LEMMA StartAutoWalkIsSound ==
  ASSUME NEW w, NEW n \in Nat, n <= MaxAsked, Sound(w, n),
         NEW l \in Routes, NEW free \in BOOLEAN
  PROVE  LET v == Wa!StartAutoWalk(w, l, free)
         IN  /\ Sound(v, n + 1) /\ v.walk # 0 /\ v.derailed = w.derailed
             /\ Going(w) => Going(v)
<1> DEFINE u == [w EXCEPT !.list = l]
           first == Len(l) = 1
<1>1. u \in Walkers /\ Alike(u, w) /\ u.list = l
  BY DEF Sound, Walkers, Alike
<1>2. Wa!StartAutoWalk(w, l, free) = Wa!AddEventWalk(u, first, free)
  BY DEF Wa!StartAutoWalk
<1> HIDE DEF u
<1>3. Sound(u, n) /\ u.derailed = w.derailed /\ (Going(w) => Going(u))
  BY <1>1, AlikeIsSound DEF Alike
<1>4. first \in BOOLEAN /\ (first => u.list # <<>>)
  <2>1. first \in BOOLEAN
    OBVIOUS
  <2>2. Len(l) = 1 => l # <<>>
    OBVIOUS
  <2> QED BY <1>1, <2>1, <2>2
<1> HIDE DEF first
<1> QED BY <1>2, <1>3, <1>4, AddEventWalkIsSound

(* The way to a cell out of reach.                                         *)
LEMMA PathIsARoute ==
  ASSUME NEW w \in Walkers, NEW c \in Wa!Cells, Wa!Distance(w.pos, c) > 1
  PROVE  Wa!Path(w, c) \in Routes
<1> DEFINE n == Wa!Distance(w.pos, c) - 1
           l == [i \in 1..n |-> IF c > w.pos THEN 1 ELSE -1]
<1>1. w.pos \in Wa!Cells /\ LastCell \in Nat
  BY WalkAssumption DEF Walkers
<1>2. n \in Nat /\ n < LastCell
  BY <1>1 DEF Wa!Distance, Wa!Cells
<1> HIDE DEF n
<1>3. l \in [1..n -> {-1, 1}]
  OBVIOUS
<1>4. l \in Seq({-1, 1}) /\ Len(l) = n
  BY <1>2, <1>3
<1> HIDE DEF l
<1>5. Wa!Path(w, c) = l
  BY DEF Wa!Path, l, n
<1> QED BY <1>2, <1>4, <1>5 DEF Routes

(* What joins the queue of the dispatcher: a call, or an event, which      *)
(* leaves the scheduler.                                                   *)
LEMMA Queued ==
  ASSUME NEW w, NEW n \in Nat, Sound(w, n), NEW v \in Walkers,
         NEW e \in w.scheduled \union Calls,
         v.walk = w.walk, v.task = w.task, v.action = w.action,
         v.walkTask = w.walkTask, v.queue = Append(w.queue, e),
         v.scheduled = w.scheduled \ {e}
  PROVE  /\ Sound(v, n + 1) /\ (e \in w.scheduled => Sound(v, n))
         /\ (Going(w) => Going(v)) /\ (Waits(w) => Waits(v))
         /\ e \in Calls => Waits(v)
<1>0. /\ w \in Walkers /\ w.queue \in Seq(Wa!Events \union Calls)
      /\ w.scheduled \subseteq Wa!Events
      /\ e \in Wa!Events \union Calls
  BY DEF Sound, Walkers
<1>1. /\ Len(v.queue) = Len(w.queue) + 1 /\ Len(w.queue) \in Nat
      /\ DOMAIN v.queue = 1..Len(w.queue) + 1 /\ DOMAIN w.queue = 1..Len(w.queue)
      /\ v.queue[Len(w.queue) + 1] = e
      /\ \A i \in 1..Len(w.queue) : v.queue[i] = w.queue[i]
  BY <1>0, AppendProperties
<1>2. e.kind # "autoWalk" => e \in w.scheduled
  BY EventFields
<1>3. ASSUME NEW x, KindFits(w, x)
      PROVE  KindFits(v, x)
  BY <1>3 DEF KindFits
<1>4. Linked(v)
  <2>1. ASSUME NEW i \in DOMAIN v.queue, v.queue[i].kind # "autoWalk"
        PROVE  KindFits(w, v.queue[i])
    <3>1. CASE i = Len(w.queue) + 1
      BY <1>1, <1>2, <2>1, <3>1 DEF Sound, Linked
    <3>2. CASE i # Len(w.queue) + 1
      <4>1. i \in DOMAIN w.queue /\ v.queue[i] = w.queue[i]
        BY <1>1, <3>2
      <4> QED BY <2>1, <4>1 DEF Sound, Linked
    <3> QED BY <3>1, <3>2
  <2>2. \A x \in v.scheduled :
          /\ x.kind = "walkTask" => x.id = v.task /\ v.walkTask = Nobody
          /\ x.kind = "action" => x.id = v.action
          /\ KindFits(w, x)
    BY DEF Sound, Linked
  <2> QED BY <1>3, <2>1, <2>2 DEF Linked
<1>5. /\ IsFiniteSet(w.scheduled) /\ Cardinality(w.scheduled) \in Nat
      /\ Cardinality(w.scheduled) + Len(w.queue) <= n
  BY FS_CardinalityType DEF Sound, Room
<1>6. ASSUME e \in w.scheduled PROVE Sound(v, n) /\ Sound(v, n + 1)
  <2>1. IsFiniteSet(v.scheduled) /\ Cardinality(v.scheduled) = Cardinality(w.scheduled) - 1
    BY <1>5, <1>6, FS_RemoveElement
  <2>2. Room(v, n)
    BY <1>1, <1>5, <2>1 DEF Room
  <2>3. Sound(v, n)
    BY <1>4, <2>2 DEF Sound
  <2> QED BY <2>3, MoreRoom
<1>7. ASSUME e \notin w.scheduled PROVE Sound(v, n + 1)
  <2>1. v.scheduled = w.scheduled
    BY <1>7
  <2>2. IsFiniteSet(v.scheduled) /\ Cardinality(v.scheduled) = Cardinality(w.scheduled)
    BY <1>5, <2>1
  <2>3. Room(v, n + 1)
    BY <1>1, <1>5, <2>2 DEF Room
  <2> QED BY <1>4, <2>3 DEF Sound
<1>8. Going(w) => Going(v)
  <2>1. ASSUME NEW i \in DOMAIN w.queue
        PROVE  i \in DOMAIN v.queue /\ v.queue[i] = w.queue[i]
    BY <1>1
  <2>2. ASSUME NEW x \in w.scheduled
        PROVE  \/ x \in v.scheduled
               \/ Len(w.queue) + 1 \in DOMAIN v.queue /\ v.queue[Len(w.queue) + 1] = x
    BY <1>1
  <2> QED BY <2>1, <2>2 DEF Going
<1>9. Waits(w) => Waits(v)
  <2>1. ASSUME NEW i \in DOMAIN w.queue
        PROVE  i \in DOMAIN v.queue /\ v.queue[i] = w.queue[i]
    BY <1>1
  <2> QED BY <2>1 DEF Waits
<1>10. ASSUME e \in Calls PROVE Waits(v)
  <2>1. Len(w.queue) + 1 \in DOMAIN v.queue /\ v.queue[Len(w.queue) + 1].kind = "autoWalk"
    BY <1>1, <1>10, EventFields
  <2> QED BY <2>1 DEF Waits
<1> QED BY <1>6, <1>7, <1>8, <1>9, <1>10

(* What leaves it.                                                         *)
LEMMA Taken ==
  ASSUME NEW w, NEW n \in Nat, Sound(w, n), w.queue # <<>>
  PROVE  LET t == Head(w.queue)
             v == [w EXCEPT !.queue = Tail(@)]
         IN  /\ n - 1 \in Nat /\ Sound(v, n - 1)
             /\ t \in Wa!Events \union Calls
             /\ t \in Wa!Events => KindFits(w, t)
             /\ t.id # w.walk /\ Going(w) => Going(v)
             /\ t.kind # "autoWalk" /\ Waits(w) => Waits(v)
<1> DEFINE t == Head(w.queue)
           q == Tail(w.queue)
           v == [w EXCEPT !.queue = q]
<1>0. /\ w \in Walkers /\ w.queue \in Seq(Wa!Events \union Calls)
  BY DEF Sound, Walkers
<1>1. /\ t \in Wa!Events \union Calls /\ t = w.queue[1] /\ q \in Seq(Wa!Events \union Calls)
      /\ Len(w.queue) \in Nat \ {0} /\ Len(q) = Len(w.queue) - 1
      /\ DOMAIN w.queue = 1..Len(w.queue) /\ DOMAIN q = 1..Len(w.queue) - 1
      /\ \A i \in 1..Len(w.queue) - 1 : q[i] = w.queue[i + 1]
  <2>1. /\ t \in Wa!Events \union Calls /\ q \in Seq(Wa!Events \union Calls)
        /\ Len(q) = Len(w.queue) - 1 /\ \A i \in 1..Len(q) : q[i] = w.queue[i + 1]
    BY <1>0, HeadTailProperties
  <2>2. Len(w.queue) \in Nat \ {0} /\ DOMAIN w.queue = 1..Len(w.queue)
    BY <1>0
  <2>3. t = w.queue[1]
    OBVIOUS
  <2>4. DOMAIN q = 1..Len(q)
    BY <2>1
  <2> QED BY <2>1, <2>2, <2>3, <2>4
<1>2. v = [w EXCEPT !.queue = Tail(@)]
  BY <1>0 DEF Walkers
<1> HIDE DEF t, q
<1>3. /\ v \in Walkers /\ v.walk = w.walk /\ v.task = w.task /\ v.action = w.action
      /\ v.walkTask = w.walkTask /\ v.scheduled = w.scheduled /\ v.queue = q
  BY <1>0, <1>1 DEF Walkers
<1> HIDE DEF v
<1>4. ASSUME NEW i \in DOMAIN v.queue
      PROVE  i + 1 \in DOMAIN w.queue /\ v.queue[i] = w.queue[i + 1]
  BY <1>1, <1>3
<1>5. ASSUME NEW i \in DOMAIN w.queue
      PROVE  w.queue[i] = t \/ (i - 1 \in DOMAIN v.queue /\ v.queue[i - 1] = w.queue[i])
  BY <1>1, <1>3
<1>6. Linked(v)
  <2>1. ASSUME NEW x, KindFits(w, x)
        PROVE  KindFits(v, x)
    BY <1>3, <2>1 DEF KindFits
  <2>2. \A i \in DOMAIN v.queue : v.queue[i].kind # "autoWalk" => KindFits(w, v.queue[i])
    BY <1>4 DEF Sound, Linked
  <2>3. \A x \in v.scheduled :
          /\ x.kind = "walkTask" => x.id = v.task /\ v.walkTask = Nobody
          /\ x.kind = "action" => x.id = v.action
          /\ KindFits(w, x)
    BY <1>3 DEF Sound, Linked
  <2> QED BY <2>1, <2>2, <2>3 DEF Linked
<1>7. n - 1 \in Nat /\ Room(v, n - 1)
  <2>1. /\ IsFiniteSet(w.scheduled) /\ Cardinality(w.scheduled) \in Nat
        /\ Cardinality(w.scheduled) + Len(w.queue) <= n
    BY FS_CardinalityType DEF Sound, Room
  <2> QED BY <1>1, <1>3, <2>1 DEF Room
<1>8. t \in Wa!Events => KindFits(w, t)
  <2>1. 1 \in DOMAIN w.queue
    BY <1>1
  <2> QED BY <1>1, <2>1, EventFields DEF Sound, Linked
<1>9. t.id # w.walk /\ Going(w) => Going(v)
  BY <1>3, <1>5 DEF Going
<1>10. t.kind # "autoWalk" /\ Waits(w) => Waits(v)
  BY <1>3, <1>5 DEF Waits
<1> QED BY <1>1, <1>2, <1>3, <1>6, <1>7, <1>8, <1>9, <1>10 DEF Sound, t

(* A wish out of reach: the walk is in the queue.                          *)
LEMMA WalkFirstIsSound ==
  ASSUME NEW w, NEW n \in Nat, Sound(w, n), NEW wish \in Wishes,
         Wa!Distance(w.pos, Target[wish]) > 1
  PROVE  LET v == Wa!WalkFirst(w, wish)
         IN  /\ Sound(v, n + 1) /\ v.derailed = w.derailed
             /\ (Going(w) => Going(v)) /\ Waits(v)
<1> DEFINE u == Wa!SetNextWalkActionTask(w, wish)
           l == Wa!Path(w, Target[wish])
           e == [kind |-> "autoWalk", list |-> l, id |-> 0]
           q == Append(u.queue, e)
           v == [u EXCEPT !.queue = q]
<1>1. /\ Sound(u, n) /\ u.derailed = w.derailed /\ (Going(w) => Going(u))
      /\ u \in Walkers
  BY SetNextWalkActionTaskIsSound DEF Sound, Rest
<1>2. l \in Routes
  BY PathIsARoute, WalkAssumption DEF Sound
<1>3. Wa!WalkFirst(w, wish) = v
  BY <1>1 DEF Wa!WalkFirst, Walkers
<1> HIDE DEF u, l
<1>4. e \in Calls
  BY <1>2 DEF Calls
<1> HIDE DEF e
<1>5. q \in Seq(Wa!Events \union Calls)
  BY <1>1, <1>4 DEF Walkers
<1> HIDE DEF q
<1>6. /\ v \in Walkers /\ v.walk = u.walk /\ v.task = u.task /\ v.action = u.action
      /\ v.walkTask = u.walkTask /\ v.scheduled = u.scheduled /\ v.queue = q
      /\ v.derailed = u.derailed
  BY <1>1, <1>5 DEF Walkers
<1> HIDE DEF v
<1>7. e \notin u.scheduled
  BY <1>1, <1>4, EventFields DEF Walkers
<1>8. v.scheduled = u.scheduled \ {e} /\ e \in u.scheduled \union Calls
  BY <1>4, <1>6, <1>7
<1>9. v.queue = Append(u.queue, e)
  BY <1>6 DEF q
<1>10. Sound(v, n + 1) /\ (Going(u) => Going(v)) /\ Waits(v)
  BY <1>1, <1>4, <1>6, <1>8, <1>9, Queued
<1> QED BY <1>1, <1>3, <1>6, <1>10

(* What is done ends what waited for the end of the delay.                 *)
LEMMA DoneIsSound ==
  ASSUME NEW w, NEW n \in Nat, Sound(w, n), NEW wish \in Wishes
  PROVE  LET v == Wa!Done(w, wish)
         IN  /\ Sound(v, n) /\ v.derailed = w.derailed
             /\ (Going(w) => Going(v)) /\ (Waits(w) => Waits(v))
<1> DEFINE u == Wa!SetNextActionTask(w, Nobody)
           v == [u EXCEPT !.busy = TRUE, !.cancel = TRUE]
<1>1. /\ Sound(u, n) /\ (Going(w) => Going(u)) /\ Rest(u, w)
      /\ u.walkTask = w.walkTask /\ u.walk = w.walk
  BY NoNextActionTaskIsSound
<1>2. Wa!Done(w, wish) = IF wish \in Moves THEN u ELSE v
  BY DEF Wa!Done
<1> HIDE DEF u
<1>3. (Waits(w) => Waits(u)) /\ u.derailed = w.derailed
  BY <1>1 DEF Waits, Rest
<1>4. v \in Walkers /\ Alike(v, u)
  BY <1>1 DEF Sound, Walkers, Alike
<1> HIDE DEF v
<1>5. /\ Sound(v, n) /\ v.derailed = u.derailed
      /\ (Going(u) => Going(v)) /\ (Waits(u) => Waits(v))
  BY <1>1, <1>4, AlikeIsSound DEF Alike
<1> QED BY <1>1, <1>2, <1>3, <1>5

(* A wish, asked for or come due.                                          *)
LEMMA AttemptedIsSound ==
  ASSUME NEW w, NEW n \in Nat, n <= MaxAsked, Sound(w, n), NEW wish \in Wishes,
         NEW way \in BOOLEAN
  PROVE  LET v == Wa!Attempted(w, wish, way)
         IN  /\ Sound(v, n + 1) /\ v.derailed = w.derailed
             /\ (Going(w) => Going(v)) /\ (Waits(w) => Waits(v))
<1> DEFINE far == Wa!Distance(w.pos, Target[wish]) > 1
           early == w.busy /\ (wish \in Moves \/ ~far)
           u == IF wish \in Moves THEN Wa!SetNextActionTask(w, Nobody) ELSE w
<1>1. /\ Sound(u, n) /\ u.derailed = w.derailed /\ u.pos = w.pos
      /\ (Going(w) => Going(u)) /\ (Waits(w) => Waits(u))
  BY NoNextActionTaskIsSound DEF Waits, Rest
<1>2. Wa!Attempted(w, wish, way) =
        IF early THEN Wa!SetNextActionTask(w, wish)
        ELSE IF ~far THEN Wa!Done(w, wish)
        ELSE IF way THEN Wa!WalkFirst(u, wish)
        ELSE u
  BY DEF Wa!Attempted
<1> HIDE DEF u
<1>3. LET v == Wa!SetNextActionTask(w, wish)
      IN  /\ Sound(v, n + 1) /\ v.derailed = w.derailed
          /\ (Going(w) => Going(v)) /\ (Waits(w) => Waits(v))
  BY SetNextActionTaskIsSound DEF Waits, Rest
<1>4. LET v == Wa!Done(w, wish)
      IN  /\ Sound(v, n + 1) /\ v.derailed = w.derailed
          /\ (Going(w) => Going(v)) /\ (Waits(w) => Waits(v))
  BY DoneIsSound, MoreRoom
<1>5. far => LET v == Wa!WalkFirst(u, wish)
             IN  /\ Sound(v, n + 1) /\ v.derailed = w.derailed
                 /\ (Going(w) => Going(v)) /\ (Waits(w) => Waits(v))
  BY <1>1, WalkFirstIsSound
<1>6. Sound(u, n + 1)
  BY <1>1, MoreRoom
<1> HIDE DEF far, early
<1>7. CASE early
  BY <1>2, <1>3, <1>7
<1>8. CASE ~early /\ ~far
  BY <1>2, <1>4, <1>8
<1>9. CASE ~early /\ far /\ way
  BY <1>2, <1>5, <1>9
<1>10. CASE ~early /\ far /\ ~way
  BY <1>1, <1>2, <1>6, <1>10
<1> QED BY <1>7, <1>8, <1>9, <1>10

(* What holds of Self at all times.                                        *)
Steady(s, n, here) ==
  /\ n \in 0..MaxAsked /\ here \in BOOLEAN /\ Sound(s, n)
  /\ here /\ ~s.derailed => Going(s) /\ Waits(s)

WalkInv == Steady(Wa!Self, asked, playing) /\ alive \in BOOLEAN

LEMMA SelfBecomes ==
  ASSUME NEW w \in Walkers, Wa!Becomes(w)
  PROVE  Wa!Self' = w
<1>1. w = [pos |-> w.pos, delay |-> w.delay, busy |-> w.busy, list |-> w.list,
           cancel |-> w.cancel, walk |-> w.walk, task |-> w.task,
           action |-> w.action, walkTask |-> w.walkTask, scheduled |-> w.scheduled,
           queue |-> w.queue, derailed |-> w.derailed]
  BY DEF Walkers
<1> QED BY <1>1 DEF Wa!Becomes, Wa!Self

LEMMA BecomesSteady ==
  ASSUME NEW w, Wa!Becomes(w), Steady(w, asked', playing'), alive' \in BOOLEAN
  PROVE  WalkInv'
<1>1. Wa!Self' = w
  BY SelfBecomes DEF Steady, Sound
<1> QED BY <1>1 DEF WalkInv

(* What the client asks for.                                               *)
LEMMA AskedFor ==
  ASSUME WalkInv, Wa!Ask
  PROVE  /\ asked \in Nat /\ asked <= MaxAsked /\ asked' = asked + 1 /\ asked' \in 0..MaxAsked
         /\ playing' = playing /\ playing' \in BOOLEAN /\ alive' \in BOOLEAN
         /\ Sound(Wa!Self, asked)
         /\ ~Wa!Self.derailed => Going(Wa!Self) /\ Waits(Wa!Self)
BY WalkAssumption DEF WalkInv, Steady, Wa!Ask

LEMMA Asks ==
  ASSUME WalkInv,
         Wa!AskForWish \/ Wa!PlayerMove \/ Wa!PlayerAutoWalk \/ Wa!PlayerStopAutoWalk
           \/ Wa!Teleport
  PROVE  WalkInv'
<1> DEFINE s == Wa!Self
<1>0. ASSUME NEW v, Wa!Ask, Wa!Becomes(v), Sound(v, asked + 1), v.derailed = s.derailed,
             Going(s) => Going(v), Waits(s) => Waits(v)
      PROVE  WalkInv'
  <2> HIDE DEF s
  <2>1. Steady(v, asked', playing')
    BY <1>0, AskedFor DEF Steady, s
  <2> QED BY <1>0, <2>1, AskedFor, BecomesSteady
<1>1. ASSUME NEW wish \in Wishes, NEW way \in BOOLEAN, Wa!Ask,
             Wa!Becomes(Wa!Attempted(s, wish, way))
      PROVE  WalkInv'
  <2> HIDE DEF s
  <2>1. Sound(s, asked) /\ asked \in Nat /\ asked <= MaxAsked
    BY <1>1, AskedFor DEF s
  <2> QED BY <1>0, <1>1, <2>1, AttemptedIsSound
<1>2. ASSUME NEW d \in {-1, 1}, NEW free \in BOOLEAN, Wa!Ask,
             Wa!Becomes(Wa!StartAutoWalk(Wa!SetNextWalkActionTask(s, Nobody), <<d>>, free))
      PROVE  WalkInv'
  <2> DEFINE u == Wa!SetNextWalkActionTask(s, Nobody)
             v == Wa!StartAutoWalk(u, <<d>>, free)
  <2> HIDE DEF s
  <2>1. Sound(s, asked) /\ asked \in Nat /\ asked <= MaxAsked
    BY <1>2, AskedFor DEF s
  <2>2. Sound(u, asked) /\ (Going(s) => Going(u)) /\ u.derailed = s.derailed
    BY <2>1, SetNextWalkActionTaskIsSound DEF Rest
  <2> HIDE DEF u
  <2>3. <<d>> \in Routes
    BY WalkAssumption DEF Routes
  <2>4. /\ Sound(v, asked + 1) /\ v.walk # 0 /\ v.derailed = u.derailed
        /\ Going(u) => Going(v)
    BY <2>1, <2>2, <2>3, StartAutoWalkIsSound
  <2>5. Wa!Becomes(v)
    BY <1>2 DEF u
  <2> HIDE DEF v
  <2>6. Waits(v)
    BY <2>4 DEF Waits
  <2> QED BY <1>0, <1>2, <2>2, <2>4, <2>5, <2>6
<1>3. ASSUME NEW c \in Wa!Cells, NEW free \in BOOLEAN, Wa!Ask, Wa!Distance(pos, c) > 1,
             Wa!Becomes(Wa!StartAutoWalk(s, Wa!Path(s, c), free))
      PROVE  WalkInv'
  <2> DEFINE v == Wa!StartAutoWalk(s, Wa!Path(s, c), free)
  <2>0. s.pos = pos
    BY DEF Wa!Self
  <2> HIDE DEF s
  <2>1. Sound(s, asked) /\ asked \in Nat /\ asked <= MaxAsked /\ s \in Walkers
    BY <1>3, AskedFor DEF s, Sound
  <2>2. Wa!Path(s, c) \in Routes
    BY <1>3, <2>0, <2>1, PathIsARoute
  <2>3. /\ Sound(v, asked + 1) /\ v.walk # 0 /\ v.derailed = s.derailed
        /\ Going(s) => Going(v)
    BY <2>1, <2>2, StartAutoWalkIsSound
  <2> HIDE DEF v
  <2>4. Waits(v)
    BY <2>3 DEF Waits
  <2> QED BY <1>0, <1>3, <2>3, <2>4 DEF v
<1>4. ASSUME Wa!Ask, Wa!Becomes([s EXCEPT !.cancel = TRUE])
      PROVE  WalkInv'
  <2> DEFINE v == [s EXCEPT !.cancel = TRUE]
  <2> HIDE DEF s
  <2>1. Sound(s, asked) /\ asked \in Nat /\ asked <= MaxAsked /\ s \in Walkers
    BY <1>4, AskedFor DEF s, Sound
  <2>2. v \in Walkers /\ Alike(v, s)
    BY <2>1 DEF Walkers, Alike
  <2> HIDE DEF v
  <2>3. /\ Sound(v, asked) /\ (Going(s) => Going(v)) /\ (Waits(s) => Waits(v))
        /\ v.derailed = s.derailed
    BY <2>1, <2>2, AlikeIsSound DEF Alike
  <2>4. Sound(v, asked + 1)
    BY <2>1, <2>3, MoreRoom
  <2> QED BY <1>0, <1>4, <2>3, <2>4 DEF v
<1>5. ASSUME NEW c \in Wa!Cells, Wa!Ask,
             Wa!Becomes([Wa!StopEventWalk(s) EXCEPT !.pos = c, !.derailed = TRUE])
      PROVE  WalkInv'
  <2> DEFINE u == Wa!StopEventWalk(s)
             v == [u EXCEPT !.pos = c, !.derailed = TRUE]
  <2> HIDE DEF s
  <2>1. Sound(s, asked) /\ asked \in Nat /\ asked <= MaxAsked
    BY <1>5, AskedFor DEF s
  <2>2. Sound(u, asked)
    BY <2>1, StopEventWalkIsSound
  <2> HIDE DEF u
  <2>3. Sound(v, asked) /\ v.derailed = TRUE
    <3>1. /\ v \in Walkers /\ v.walk = u.walk /\ v.task = u.task /\ v.action = u.action
          /\ v.walkTask = u.walkTask /\ v.scheduled = u.scheduled /\ v.queue = u.queue
          /\ v.derailed = TRUE
      BY <2>2 DEF Sound, Walkers
    <3> HIDE DEF v
    <3> QED BY <2>2, <3>1 DEF Sound, Linked, Room, KindFits
  <2> HIDE DEF v
  <2>4. Sound(v, asked + 1)
    BY <2>1, <2>3, MoreRoom
  <2>5. Steady(v, asked', playing')
    BY <1>5, <2>3, <2>4, AskedFor DEF Steady
  <2> QED BY <1>5, <2>5, AskedFor, BecomesSteady DEF u, v
<1> QED BY <1>1, <1>2, <1>3, <1>4, <1>5
     DEF Wa!AskForWish, Wa!PlayerMove, Wa!PlayerAutoWalk, Wa!PlayerStopAutoWalk, Wa!Teleport

(* An event changes hands.                                                 *)
LEMMA HandsOver ==
  ASSUME WalkInv, Wa!HandOver
  PROVE  WalkInv'
<1> DEFINE s == Wa!Self
<1>1. PICK e \in events :
        Wa!Becomes([s EXCEPT !.scheduled = @ \ {e}, !.queue = Append(@, e)])
  BY DEF Wa!HandOver
<1>2. playing' = playing /\ alive' = alive /\ asked' = asked
  BY DEF Wa!HandOver, Wa!Others
<1> DEFINE S == s.scheduled \ {e}
           q == Append(s.queue, e)
           v == [s EXCEPT !.scheduled = S, !.queue = q]
<1>3. s.scheduled = events
  BY DEF Wa!Self
<1>4. Sound(s, asked) /\ asked \in Nat /\ s \in Walkers
      /\ (playing /\ ~s.derailed => Going(s) /\ Waits(s))
  BY DEF WalkInv, Steady, Sound
<1> HIDE DEF s
<1>5. S \in SUBSET Wa!Events /\ q \in Seq(Wa!Events \union Calls)
  BY <1>3, <1>4 DEF Walkers
<1>6. Wa!Becomes(v)
  <2>1. v = [s EXCEPT !.scheduled = @ \ {e}, !.queue = Append(@, e)]
    BY <1>4 DEF Walkers
  <2> QED BY <1>1, <2>1
<1> HIDE DEF S, q
<1>7. /\ v \in Walkers /\ v.walk = s.walk /\ v.task = s.task /\ v.action = s.action
      /\ v.walkTask = s.walkTask /\ v.scheduled = S /\ v.queue = q
      /\ v.derailed = s.derailed
  BY <1>4, <1>5 DEF Walkers
<1> HIDE DEF v
<1>8. Sound(v, asked) /\ (Going(s) => Going(v)) /\ (Waits(s) => Waits(v))
  <2>1. e \in s.scheduled /\ v.scheduled = s.scheduled \ {e} /\ v.queue = Append(s.queue, e)
    BY <1>3, <1>7 DEF S, q
  <2> QED BY <1>4, <1>7, <2>1, Queued
<1>9. Steady(v, asked', playing') /\ alive' \in BOOLEAN
  BY <1>2, <1>4, <1>7, <1>8 DEF WalkInv, Steady
<1> QED BY <1>6, <1>9, BecomesSteady

(* The next task about the player.                                         *)
LEMMA Executes ==
  ASSUME WalkInv, Wa!Execute
  PROVE  WalkInv'
<1> DEFINE s == Wa!Self
           t == Head(queue)
           w == [s EXCEPT !.queue = Tail(@)]
           v(free, way) ==
             IF ~playing THEN w
             ELSE CASE t.kind = "autoWalk" -> Wa!StartAutoWalk(w, t.list, free)
                    [] t.kind = "walk" -> IF alive THEN Wa!OnWalk(w, free)
                                          ELSE [w EXCEPT !.derailed = TRUE]
                    [] OTHER -> Wa!Attempted(w, t.wish, way)
<1>1. PICK free \in BOOLEAN, way \in BOOLEAN : queue # <<>> /\ Wa!Becomes(v(free, way))
  BY DEF Wa!Execute
<1>2. playing' = playing /\ alive' = alive /\ asked' = asked
  BY DEF Wa!Execute, Wa!Others
<1>3. s.queue = queue
  BY DEF Wa!Self
<1>4. /\ Sound(s, asked) /\ asked \in Nat /\ asked <= MaxAsked /\ s \in Walkers
      /\ playing /\ ~s.derailed => Going(s) /\ Waits(s)
  BY WalkAssumption DEF WalkInv, Steady, Sound
<1>5. w.derailed = s.derailed /\ w.pos = s.pos
  BY <1>4 DEF Walkers
<1> HIDE DEF s
<1> DEFINE n == asked - 1
<1>6. /\ n \in Nat /\ n <= MaxAsked /\ n + 1 = asked /\ Sound(w, n)
      /\ t \in Wa!Events \union Calls
      /\ t \in Wa!Events => KindFits(s, t)
      /\ t.id # s.walk /\ Going(s) => Going(w)
      /\ t.kind # "autoWalk" /\ Waits(s) => Waits(w)
  <2>1. s.queue # <<>> /\ t = Head(s.queue)
    BY <1>1, <1>3
  <2>0. w = [s EXCEPT !.queue = Tail(@)]
    OBVIOUS
  <2> HIDE DEF t, w
  <2>2. LET h == Head(s.queue)
            x == [s EXCEPT !.queue = Tail(@)]
        IN  /\ asked - 1 \in Nat /\ Sound(x, asked - 1)
            /\ h \in Wa!Events \union Calls
            /\ h \in Wa!Events => KindFits(s, h)
            /\ h.id # s.walk /\ Going(s) => Going(x)
            /\ h.kind # "autoWalk" /\ Waits(s) => Waits(x)
    BY <1>4, <2>1, Taken
  <2>3. /\ n \in Nat /\ Sound(w, n) /\ t \in Wa!Events \union Calls
        /\ t \in Wa!Events => KindFits(s, t)
        /\ t.id # s.walk /\ Going(s) => Going(w)
        /\ t.kind # "autoWalk" /\ Waits(s) => Waits(w)
    BY <2>0, <2>1, <2>2, Zenon
  <2>4. n <= MaxAsked /\ n + 1 = asked
    BY <1>4, WalkAssumption
  <2> QED BY <2>3, <2>4
<1>7. /\ t.kind = "autoWalk" <=> t \notin Wa!Events
      /\ t.kind \in {"walk", "walkTask", "action", "autoWalk"}
  BY <1>6, EventFields DEF Wa!Kinds
<1> HIDE DEF t, w, n
<1>8. SUFFICES ASSUME NEW x, x = v(free, way)
               PROVE  /\ Sound(x, asked)
                      /\ playing /\ ~x.derailed => Going(x) /\ Waits(x)
  <2> DEFINE x == v(free, way)
  <2>1. Steady(x, asked', playing') /\ alive' \in BOOLEAN
    BY <1>2, <1>8 DEF WalkInv, Steady
  <2> QED BY <1>1, <2>1, BecomesSteady
<1>9. CASE ~playing
  BY <1>4, <1>6, <1>8, <1>9, MoreRoom
<1>10. CASE playing /\ t.kind = "autoWalk"
  <2>1. x = Wa!StartAutoWalk(w, t.list, free)
    BY <1>8, <1>10
  <2>2. t \in Calls /\ t.id = 0 /\ t.list \in Routes
    BY <1>6, <1>7, <1>10, EventFields
  <2>3. Sound(x, asked) /\ x.walk # 0 /\ x.derailed = w.derailed /\ (Going(w) => Going(x))
    BY <1>6, <2>1, <2>2, StartAutoWalkIsSound
  <2>4. Going(s) => Going(w)
    <3>1. CASE s.walk = 0
      BY <3>1, <1>4 DEF Going, w, Walkers
    <3>2. CASE s.walk # 0
      BY <1>6, <2>2, <3>2
    <3> QED BY <3>1, <3>2
  <2> QED BY <1>4, <1>5, <2>3, <2>4 DEF Waits
<1>11. CASE playing /\ t.kind = "walk" /\ alive
  <2>1. x = Wa!OnWalk(w, free)
    BY <1>8, <1>11
  <2>2. /\ Sound(x, asked) /\ x.derailed = w.derailed /\ Going(x)
        /\ Waits(w) => Waits(x)
    BY <1>6, <2>1, OnWalkIsSound
  <2> QED BY <1>4, <1>5, <1>6, <1>11, <2>2
<1>12. CASE playing /\ t.kind = "walk" /\ ~alive
  <2>1. x = [w EXCEPT !.derailed = TRUE]
    BY <1>8, <1>12
  <2>2. /\ x \in Walkers /\ x.walk = w.walk /\ x.task = w.task /\ x.action = w.action
        /\ x.walkTask = w.walkTask /\ x.scheduled = w.scheduled /\ x.queue = w.queue
        /\ x.derailed = TRUE
    BY <1>6, <2>1 DEF Sound, Walkers
  <2>3. Sound(x, n)
    BY <1>6, <2>2 DEF Sound, Linked, Room, KindFits
  <2> QED BY <1>4, <1>6, <2>2, <2>3, MoreRoom
<1>13. CASE playing /\ t.kind \in {"walkTask", "action"}
  <2>1. x = Wa!Attempted(w, t.wish, way)
    BY <1>8, <1>13
  <2>2. t \in Wa!Events /\ t.wish \in Wishes \union {Nobody}
    BY <1>7, <1>13, EventFields
  <2>3. t.id # s.walk
    BY <1>6, <1>13, <2>2 DEF KindFits
  <2>4. t.wish \in Wishes
    BY <1>6, <1>13, <2>2 DEF KindFits
  <2>5. /\ Sound(x, asked) /\ x.derailed = w.derailed
        /\ (Going(w) => Going(x)) /\ (Waits(w) => Waits(x))
    BY <1>6, <2>1, <2>4, AttemptedIsSound
  <2> QED BY <1>4, <1>5, <1>6, <1>13, <2>3, <2>5
<1> QED BY <1>7, <1>9, <1>10, <1>11, <1>12, <1>13

(* What the walk does not feel, and what puts the player elsewhere.        *)
LEMMA Others ==
  ASSUME WalkInv, Wa!StepOver \/ Wa!NotBusy \/ Wa!Fall \/ Wa!Rise \/ Wa!Leave
  PROVE  WalkInv'
<1> DEFINE s == Wa!Self
<1>0. /\ Sound(s, asked) /\ asked \in 0..MaxAsked /\ asked \in Nat /\ s \in Walkers
      /\ playing \in BOOLEAN /\ alive \in BOOLEAN
      /\ playing /\ ~s.derailed => Going(s) /\ Waits(s)
  BY WalkAssumption DEF WalkInv, Steady, Sound
<1> HIDE DEF s
<1>1. ASSUME NEW v \in Walkers, Wa!Becomes(v), Alike(v, s), asked' = asked,
             playing' = playing \/ playing' = FALSE, alive' \in BOOLEAN
      PROVE  WalkInv'
  <2>1. Sound(v, asked) /\ (Going(s) => Going(v)) /\ (Waits(s) => Waits(v))
        /\ v.derailed = s.derailed
    BY <1>0, <1>1, AlikeIsSound DEF Alike
  <2>2. playing' \in BOOLEAN /\ (playing' => playing)
    <3>1. CASE playing' = playing
      BY <1>0, <3>1
    <3>2. CASE playing' = FALSE
      BY <3>2
    <3> QED BY <1>1, <3>1, <3>2
  <2>3. playing' /\ ~v.derailed => Going(v) /\ Waits(v)
    BY <1>0, <2>1, <2>2
  <2>4. Sound(v, asked') /\ asked' \in 0..MaxAsked
    BY <1>0, <1>1, <2>1
  <2>5. Steady(v, asked', playing')
    BY <2>2, <2>3, <2>4 DEF Steady
  <2> QED BY <1>1, <2>5, BecomesSteady
<1>2. CASE Wa!StepOver \/ Wa!NotBusy
  <2> DEFINE v == [s EXCEPT !.delay = FALSE]
             x == [s EXCEPT !.busy = FALSE]
  <2>1. /\ v \in Walkers /\ Alike(v, s) /\ x \in Walkers /\ Alike(x, s)
    BY <1>0 DEF Walkers, Alike
  <2>2. Wa!Becomes(v) \/ Wa!Becomes(x)
    BY <1>2 DEF Wa!StepOver, Wa!NotBusy, s
  <2>3. asked' = asked /\ playing' = playing /\ alive' = alive
    BY <1>2 DEF Wa!StepOver, Wa!NotBusy, Wa!Others
  <2> HIDE DEF v, x
  <2> QED BY <1>0, <1>1, <2>1, <2>2, <2>3
<1>3. CASE Wa!Fall \/ Wa!Leave \/ (Wa!Rise /\ Wa!Becomes(s))
  <2>1. Wa!Becomes(s) /\ asked' = asked /\ alive' \in BOOLEAN
        /\ (playing' = playing \/ playing' = FALSE)
    BY <1>0, <1>3 DEF Wa!Fall, Wa!Leave, Wa!Rise, s
  <2>2. Alike(s, s)
    BY DEF Alike
  <2> QED BY <1>0, <1>1, <2>1, <2>2
<1>4. CASE Wa!Rise /\ ~Wa!Becomes(s)
  <2> DEFINE u == Wa!StopEventWalk(s)
             v == [u EXCEPT !.pos = 0, !.derailed = TRUE]
  <2>1. Wa!Becomes(v) /\ asked' = asked /\ playing' = playing /\ alive' \in BOOLEAN
    BY <1>4 DEF Wa!Rise, s
  <2>2. Sound(u, asked)
    BY <1>0, StopEventWalkIsSound
  <2> HIDE DEF u
  <2>3. /\ v \in Walkers /\ v.walk = u.walk /\ v.task = u.task /\ v.action = u.action
        /\ v.walkTask = u.walkTask /\ v.scheduled = u.scheduled /\ v.queue = u.queue
        /\ v.derailed = TRUE
    <3>1. u \in Walkers /\ 0 \in Wa!Cells
      BY <2>2, WalkAssumption DEF Sound, Wa!Cells
    <3> QED BY <3>1 DEF Walkers
  <2> HIDE DEF v
  <2>4. Sound(v, asked)
    BY <2>2, <2>3 DEF Sound, Linked, Room, KindFits
  <2>5. Steady(v, asked', playing')
    BY <1>0, <2>1, <2>3, <2>4 DEF Steady
  <2> QED BY <2>1, <2>5, BecomesSteady
<1> QED BY <1>2, <1>3, <1>4 DEF Wa!Rise

LEMMA WalkStep == WalkInv /\ Wa!Next => WalkInv'
BY Asks, HandsOver, Executes, Others DEF Wa!Next

LEMMA WalkBegins == Wa!Init => WalkInv
<1> SUFFICES ASSUME Wa!Init PROVE WalkInv
  OBVIOUS
<1> DEFINE s == Wa!Self
<1>1. /\ s.pos = 0 /\ s.delay = FALSE /\ s.busy = FALSE /\ s.list = <<>>
      /\ s.cancel = FALSE /\ s.walk = 0 /\ s.task = 0 /\ s.action = 0
      /\ s.walkTask = Nobody /\ s.scheduled = {} /\ s.queue = <<>> /\ s.derailed = FALSE
  BY DEF Wa!Init, Wa!Self
<1>2. asked = 0 /\ playing = TRUE /\ alive = TRUE
  BY DEF Wa!Init
<1>3. s \in Walkers
  <2>1. <<>> \in Routes /\ 0 \in Wa!Cells /\ <<>> \in Seq(Wa!Events \union Calls)
    BY WalkAssumption DEF Routes, Wa!Cells
  <2> QED BY <1>1, <2>1 DEF Walkers, Wa!Self, IdOrNone
<1> HIDE DEF s
<1>4. Linked(s) /\ Going(s) /\ Waits(s)
  BY <1>1 DEF Linked, Going, Waits
<1>5. Room(s, 0)
  BY <1>1, FS_EmptySet DEF Room
<1>6. Steady(s, asked, playing)
  BY <1>1, <1>2, <1>3, <1>4, <1>5, WalkAssumption DEF Steady, Sound
<1> QED BY <1>2, <1>6 DEF WalkInv, s

(* The invariant says what the run checks.                                 *)
LEMMA WalkInvSays == WalkInv => Wa!TypeOK /\ Wa!WalksAreSound
<1> SUFFICES ASSUME WalkInv PROVE Wa!TypeOK /\ Wa!WalksAreSound
  OBVIOUS
<1> DEFINE s == Wa!Self
<1>0. /\ s.pos = pos /\ s.delay = walkDelay /\ s.busy = busy /\ s.list = list
      /\ s.cancel = cancelNextWalk /\ s.walk = eventWalk /\ s.task = walkTaskEvent
      /\ s.action = actionTaskEvent /\ s.walkTask = walkTask /\ s.scheduled = events
      /\ s.queue = queue /\ s.derailed = derailed
  BY DEF Wa!Self
<1>1. /\ s \in Walkers /\ Linked(s) /\ asked \in 0..MaxAsked
      /\ playing \in BOOLEAN /\ alive \in BOOLEAN
      /\ playing /\ ~s.derailed => Going(s) /\ Waits(s)
  BY DEF WalkInv, Steady, Sound
<1> HIDE DEF s
<1>2. Wa!TypeOK
  <2>1. /\ pos \in Wa!Cells /\ walkDelay \in BOOLEAN /\ busy \in BOOLEAN
        /\ cancelNextWalk \in BOOLEAN /\ list \in Routes
        /\ eventWalk \in IdOrNone /\ walkTaskEvent \in IdOrNone
        /\ actionTaskEvent \in IdOrNone /\ walkTask \in Wishes \union {Nobody}
        /\ events \subseteq Wa!Events /\ queue \in Seq(Wa!Events \union Calls)
        /\ derailed \in BOOLEAN
    BY <1>0, <1>1 DEF Walkers
  <2>2. \A i \in DOMAIN queue : queue[i].kind = "autoWalk" \/ queue[i] \in Wa!Events
    BY <2>1, EventFields
  <2> QED BY <1>1, <2>1, <2>2 DEF Wa!TypeOK, Routes, IdOrNone
<1>3. Wa!WalksAreSound
  <2>1. \A e \in events : /\ e.kind = "walkTask" => e.id = walkTaskEvent /\ walkTask = Nobody
                          /\ e.kind = "action" => e.id = actionTaskEvent
    BY <1>0, <1>1 DEF Linked
  <2>2. playing /\ ~derailed /\ eventWalk # 0 => Wa!Pending(eventWalk)
    BY <1>0, <1>1 DEF Going, Wa!Pending
  <2>3. playing /\ ~derailed /\ walkTask # Nobody =>
          eventWalk # 0 \/ \E i \in DOMAIN queue : queue[i].kind = "autoWalk"
    BY <1>0, <1>1 DEF Waits
  <2> QED BY <2>1, <2>2, <2>3 DEF Wa!WalksAreSound, Wa!Waiting
<1> QED BY <1>2, <1>3

(* The other parts of the run leave the walk alone.                        *)
LEMMA WalkStays ==
  ASSUME WalkInv, UNCHANGED walkingVars
  PROVE  WalkInv'
<1>1. Wa!Self' = Wa!Self /\ asked' = asked /\ playing' = playing /\ alive' = alive
  BY DEF walkingVars, Wa!Self
<1> QED BY <1>1 DEF WalkInv

(* Theorem: however walks, stops and wishes follow each other, and in      *)
(* whatever order the events come, a walk that is under way has its next   *)
(* event, a wish that waits for its end has a walk to wait for, and no     *)
(* wish that was replaced waits any more (Player::setNextWalkActionTask,   *)
(* setNextActionTask, Creature::addEventWalk, onWalk).                     *)
THEOREM Walks_are_sound == MCSpec => []WalksAreSound
<1>1. MCInit => WalkInv
  BY WalkBegins DEF MCInit
<1>2. WalkInv /\ [MCNext]_allVars => WalkInv'
  <2> SUFFICES ASSUME WalkInv, [MCNext]_allVars PROVE WalkInv'
    OBVIOUS
  <2>1. CASE WalkingNext
    BY <2>1, WalkStep DEF WalkingNext
  <2>2. CASE UNCHANGED allVars
    <3>1. UNCHANGED walkingVars
      BY <2>2 DEF allVars
    <3> QED BY <3>1, WalkStays
  <2>3. CASE MCNext /\ ~WalkingNext
    <3>1. UNCHANGED walkingVars
      BY <2>3 DEF MCNext, WaitingNext, ConditionsNext, FightsNext, CastingNext,
                  GrowthNext, PathsNext, SurroundingsNext, HuntingNext, CombatsNext,
                  CreaturesNext
    <3> QED BY <3>1, WalkStays
  <2> QED BY <2>1, <2>2, <2>3
<1>3. WalkInv => WalksAreSound
  BY WalkInvSays DEF WalksAreSound
<1> QED BY <1>1, <1>2, <1>3, PTL DEF MCSpec
===============================================================================
