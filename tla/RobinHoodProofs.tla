-------------------------- MODULE RobinHoodProofs --------------------------
(***************************************************************************)
(* Proofs about the Robin Hood table, for any keys, values, hash function  *)
(* and initial capacity.  Everything rests on one fact about neighbours:   *)
(* an entry that is not at home is preceded by one that is at most one     *)
(* step less far from its own (Tight).  A probe can therefore stop at the  *)
(* first resident that is closer to home than it has come itself; and an   *)
(* eviction, the step of a shift and a placement keep it so.               *)
(***************************************************************************)
EXTENDS RobinHood, FiniteSetTheorems, WellFoundedInduction, TLAPS

(* The slots of a table of capacity c, the one after s, and the steps from  *)
(* slot a on to slot s.                                                     *)
Index(c)     == 0 .. c - 1
Nx(s, c)     == IF s = c - 1 THEN 0 ELSE s + 1
Gap(a, s, c) == IF s >= a THEN s - a ELSE s - a + c

HomeIn(hf, k, c) == hf[k] % c

Full(t, s) == t[s].key # Empty

Sound(hf, t, c) ==
  /\ t \in [Index(c) -> Entry]
  /\ \A s \in Index(c) : Full(t, s) =>
       /\ t[s].key \in Keys /\ t[s].val \in Values
       /\ t[s].dib = Gap(HomeIn(hf, t[s].key, c), s, c)

(* An entry at distance d may come after slot s. *)
Behind(t, s, d) == d > 0 => Full(t, s) /\ t[s].dib >= d - 1

(* x is the one slot that this need not be true of, the hole of a shift. *)
Tight(t, c, x) ==
  \A s \in Index(c) : s # x /\ Full(t, Nx(s, c)) => Behind(t, s, t[Nx(s, c)].dib)

(* What comes after the hole may be moved into it. *)
Loose(t, c, x) ==
  Full(t, Nx(x, c)) =>
    \A g \in Index(c) : Nx(g, c) = x => Behind(t, g, t[Nx(x, c)].dib - 1)

(* The entry y in hand may be put at w. *)
Fits(hf, t, c, y, w) ==
  /\ w \in Index(c)
  /\ y.key \in Keys /\ y.val \in Values
  /\ y.dist = Gap(HomeIn(hf, y.key, c), w, c)
  /\ \A g \in Index(c) : Nx(g, c) = w => Behind(t, g, y.dist)

Distinct(t, c)  == \A r, s \in Index(c) : Full(t, r) /\ Full(t, s) /\ t[r].key = t[s].key => r = s
Absent(t, c, k) == \A s \in Index(c) : t[s].key # k

(* No key is k in the first d slots of the probe for it. *)
Searched(hf, t, c, k, d) ==
  \A s \in Index(c) : Gap(HomeIn(hf, k, c), s, c) < d => t[s].key # k

(* The entry with key k is in a slot behind w, and all slots in between are *)
(* full.                                                                    *)
Trail(t, c, k, w) ==
  \E a \in Index(c) :
    /\ a # w /\ Full(t, a) /\ t[a].key = k
    /\ \A s \in Index(c) : Gap(a, s, c) < Gap(a, w, c) => Full(t, s)

-----------------------------------------------------------------------------
(* Arithmetic *)

LEMMA MinHas ==
  ASSUME NEW S, S \subseteq Nat, S # {}
  PROVE  \E x \in S : \A y \in S : x <= y
<1> DEFINE R == OpToRel(<, Nat)
<1>1. PICK x \in S : \A y \in S : ~ (<<y, x>> \in R)
  <2>1. IsWellFoundedOn(R, Nat)
    BY NatLessThanWellFounded
  <2> HIDE DEF R
  <2> QED
    BY <2>1, WFMin
<1>2. \A y \in S : ~(y < x)
  BY <1>1 DEF OpToRel
<1> QED
  BY <1>2

LEMMA NxIs ==
  ASSUME NEW c \in Nat \ {0, 1}, NEW s \in Index(c)
  PROVE  /\ Nx(s, c) \in Index(c) /\ Nx(s, c) # s
         /\ \A r \in Index(c) : Nx(r, c) = Nx(s, c) => r = s
BY DEF Nx, Index

LEMMA NxIsMod ==
  ASSUME NEW c \in Nat \ {0, 1}, NEW s \in Index(c)
  PROVE  (s + 1) % c = Nx(s, c)
<1>1. CASE s = c - 1
  BY <1>1 DEF Nx, Index
<1>2. CASE s # c - 1
  BY <1>2 DEF Nx, Index
<1> QED
  BY <1>1, <1>2

LEMMA GapIs ==
  ASSUME NEW c \in Nat \ {0, 1}, NEW a \in Index(c), NEW s \in Index(c)
  PROVE  /\ Gap(a, s, c) \in Index(c) /\ Gap(a, s, c) \in Nat
         /\ Gap(a, s, c) = 0 <=> s = a
         /\ \A r \in Index(c) : Gap(a, r, c) = Gap(a, s, c) => r = s
BY DEF Gap, Index

LEMMA GapNext ==
  ASSUME NEW c \in Nat \ {0, 1}, NEW a \in Index(c), NEW s \in Index(c)
  PROVE  Gap(a, Nx(s, c), c) = IF Gap(a, s, c) = c - 1 THEN 0 ELSE Gap(a, s, c) + 1
BY DEF Gap, Index, Nx

LEMMA GapIsMod ==
  ASSUME NEW c \in Nat \ {0, 1}, NEW a \in Index(c), NEW s \in Index(c)
  PROVE  (s - a) % c = Gap(a, s, c)
<1>1. CASE s >= a
  <2>1. s - a \in 0 .. c - 1
    BY <1>1 DEF Index
  <2>2. \A n \in 0 .. c - 1 : n % c = n
    OBVIOUS
  <2> QED
    BY <1>1, <2>1, <2>2 DEF Gap
<1>2. CASE s < a
  <2> DEFINE n == s - a + c
  <2>1. n \in 0 .. c - 1 /\ s - a = n - c
    BY <1>2 DEF Index
  <2>2. \A m \in 0 .. c - 1 : (m - c) % c = m
    OBVIOUS
  <2> HIDE DEF n
  <2>3. (s - a) % c = n
    BY <2>1, <2>2
  <2> QED
    BY <1>2, <2>3 DEF Gap, n, Index
<1> QED
  BY <1>1, <1>2 DEF Index

LEMMA HomeIs ==
  ASSUME NEW c \in Nat \ {0, 1}, NEW hf \in [Keys -> Nat], NEW k \in Keys
  PROVE  HomeIn(hf, k, c) \in Index(c)
<1>1. hf[k] \in Nat
  OBVIOUS
<1>2. \A n \in Nat : n % c \in 0 .. c - 1
  OBVIOUS
<1> QED
  BY <1>1, <1>2 DEF HomeIn, Index

-----------------------------------------------------------------------------
(* Tables *)

(* Between the home of a key and its entry no probe stops. *)
LEMMA Below ==
  ASSUME NEW c \in Nat \ {0, 1}, NEW hf \in [Keys -> Nat], NEW t,
         Sound(hf, t, c), Tight(t, c, -1),
         NEW s \in Index(c), Full(t, s), NEW g \in Index(c),
         Gap(HomeIn(hf, t[s].key, c), g, c) <= t[s].dib
  PROVE  Full(t, g) /\ t[g].dib >= Gap(HomeIn(hf, t[s].key, c), g, c)
<1> DEFINE a == HomeIn(hf, t[s].key, c)
           d == t[s].dib
           Stops0(r) == ~(Full(t, r) /\ t[r].dib >= Gap(a, r, c))
           S == {n \in Nat : \E r \in Index(c) : Gap(a, r, c) + n = d /\ Stops0(r)}
<1>1. a \in Index(c) /\ d = Gap(a, s, c)
  BY HomeIs DEF Sound
<1>2. d \in 0 .. c - 1
  BY <1>1, GapIs DEF Index
<1> HIDE DEF a, d
<1>3. S = {}
  <2> SUFFICES ASSUME S # {} PROVE FALSE
    OBVIOUS
  <2>1. PICK n \in S : \A m \in S : n <= m
    BY MinHas
  <2>2. PICK r \in Index(c) : Gap(a, r, c) + n = d /\ Stops0(r)
    BY <2>1
  <2>3. Gap(a, r, c) \in 0 .. c - 1 /\ n \in Nat
    BY <1>1, <2>1, GapIs DEF Index
  <2>4. CASE n = 0
    <3>1. Gap(a, r, c) = Gap(a, s, c)
      BY <1>1, <1>2, <2>2, <2>3, <2>4
    <3>2. r = s
      BY <1>1, <3>1, GapIs
    <3> QED
      BY <1>1, <1>2, <2>2, <3>2 DEF d
  <2>5. CASE n > 0
    <3> DEFINE x == Nx(r, c)
    <3>1. x \in Index(c)
      BY NxIs
    <3>2. Gap(a, x, c) = Gap(a, r, c) + 1
      BY <1>1, <1>2, <2>2, <2>3, <2>5, GapNext
    <3>3. n - 1 \in Nat /\ n - 1 \notin S
      BY <2>1, <2>3, <2>5
    <3>4. ~Stops0(x)
      <4>1. Gap(a, x, c) + (n - 1) = d
        BY <2>2, <2>3, <3>2
      <4> HIDE DEF x
      <4> QED
        BY <3>1, <3>3, <4>1
    <3>5. Full(t, x) /\ t[x].dib >= Gap(a, r, c) + 1
      BY <3>2, <3>4
    <3>6. Behind(t, r, t[x].dib)
      <4>1. r # -1
        BY DEF Index
      <4> QED
        BY <3>5, <4>1 DEF Tight
    <3> HIDE DEF x
    <3>7. t[x].dib \in Nat /\ t[r].dib \in Nat
      BY <3>1 DEF Sound, Entry
    <3> QED
      BY <2>2, <2>3, <3>5, <3>6, <3>7 DEF Behind
  <2> QED
    BY <2>3, <2>4, <2>5
<1>4. Gap(a, g, c) \in Nat /\ d - Gap(a, g, c) \in Nat
  <2>1. Gap(a, g, c) <= d
    BY DEF a, d
  <2> QED
    BY <2>1, <1>1, <1>2, GapIs
<1>5. Gap(a, g, c) + (d - Gap(a, g, c)) = d
  BY <1>2, <1>4
<1>6. ~Stops0(g)
  BY <1>3, <1>4, <1>5
<1> QED
  BY <1>6 DEF a

(* A table with a free slot has no entry that is as far from home as can be. *)
LEMMA NotFarthest ==
  ASSUME NEW c \in Nat \ {0, 1}, NEW hf \in [Keys -> Nat], NEW t,
         Sound(hf, t, c), Tight(t, c, -1), NEW f \in Index(c), ~Full(t, f),
         NEW s \in Index(c), Full(t, s)
  PROVE  t[s].dib \in 0 .. c - 2
<1> DEFINE a == HomeIn(hf, t[s].key, c)
<1>1. a \in Index(c) /\ t[s].dib = Gap(a, s, c)
  BY HomeIs DEF Sound
<1>2. ~(Gap(a, f, c) <= t[s].dib)
  BY Below
<1> HIDE DEF a
<1> QED
  BY <1>1, <1>2, GapIs DEF Index

(* u is t with the entry e in slot s. *)
Stored(t, u, c, s, e) ==
  /\ u \in [Index(c) -> Entry]
  /\ u[s] = e
  /\ \A r \in Index(c) : r # s => u[r] = t[r]

(* put leaves the resident where it is. *)
LEMMA PassFits ==
  ASSUME NEW c \in Nat \ {0, 1}, NEW hf \in [Keys -> Nat], NEW t,
         Sound(hf, t, c), Tight(t, c, -1), NEW f \in Index(c), ~Full(t, f),
         NEW y, NEW z, NEW w, Fits(hf, t, c, y, w), Full(t, w), y.dist <= t[w].dib,
         z.key = y.key, z.val = y.val, z.dist = y.dist + 1
  PROVE  Fits(hf, t, c, z, Nx(w, c))
<1> DEFINE a == HomeIn(hf, y.key, c)
<1>1. w \in Index(c) /\ a \in Index(c) /\ y.dist = Gap(a, w, c) /\ y.dist \in Nat
  BY HomeIs, GapIs DEF Fits
<1>2. t[w].dib \in 0 .. c - 2
  BY <1>1, NotFarthest
<1>3. Gap(a, Nx(w, c), c) = y.dist + 1
  <2> HIDE DEF a
  <2> QED
    BY <1>1, <1>2, GapNext
<1>4. Nx(w, c) \in Index(c) /\ \A g \in Index(c) : Nx(g, c) = Nx(w, c) => g = w
  BY <1>1, NxIs
<1>5. Behind(t, w, z.dist)
  BY <1>1, <1>2 DEF Behind
<1> QED
  BY <1>3, <1>4, <1>5 DEF Fits

(* put takes the resident along. *)
LEMMA EvictFits ==
  ASSUME NEW c \in Nat \ {0, 1}, NEW hf \in [Keys -> Nat], NEW t, NEW u,
         Sound(hf, t, c), Tight(t, c, -1),
         NEW y, NEW z, NEW w, Fits(hf, t, c, y, w), Full(t, w), y.dist > t[w].dib,
         NEW e, Stored(t, u, c, w, e), e.key = y.key, e.val = y.val, e.dib = y.dist,
         z.key = t[w].key, z.val = t[w].val, z.dist = t[w].dib + 1
  PROVE  Sound(hf, u, c) /\ Tight(u, c, -1) /\ Fits(hf, u, c, z, Nx(w, c))
<1> DEFINE a == HomeIn(hf, y.key, c)
           b == HomeIn(hf, t[w].key, c)
<1>1. w \in Index(c) /\ a \in Index(c) /\ y.dist = Gap(a, w, c) /\ y.dist \in 0 .. c - 1
  <2>1. w \in Index(c) /\ a \in Index(c) /\ y.dist = Gap(a, w, c)
    BY HomeIs DEF Fits
  <2> HIDE DEF a
  <2>2. Gap(a, w, c) \in Index(c)
    BY <2>1, GapIs
  <2> QED
    BY <2>1, <2>2 DEF Index
<1>2. b \in Index(c) /\ t[w].dib = Gap(b, w, c) /\ t[w].dib \in Nat
  BY <1>1, HomeIs DEF Sound, Entry
<1>3. Full(u, w) /\ u[w].dib = y.dist
  BY RobinHoodAssumption DEF Stored, Fits, Full
<1>4. Sound(hf, u, c)
  BY <1>1, <1>3 DEF Sound, Stored, Full, Fits
<1>5. ASSUME NEW s \in Index(c), Full(u, Nx(s, c))
      PROVE  Behind(u, s, u[Nx(s, c)].dib)
  <2> DEFINE n == Nx(s, c)
  <2>1. n \in Index(c) /\ n # s /\ s # -1
    BY NxIs DEF Index
  <2>2. CASE n = w
    BY <1>3, <2>1, <2>2 DEF Fits, Behind, Stored, Full
  <2>3. CASE n # w /\ s = w
    <3>1. u[n] = t[n] /\ Full(t, n)
      BY <1>5, <2>1, <2>3 DEF Stored, Full
    <3>2. Behind(t, w, t[n].dib)
      BY <2>1, <2>3, <3>1 DEF Tight
    <3>3. t[n].dib \in Nat
      BY <2>1 DEF Sound, Entry
    <3> HIDE DEF n
    <3> QED
      BY <1>1, <1>2, <1>3, <2>3, <3>1, <3>2, <3>3 DEF Behind, n
  <2>4. CASE n # w /\ s # w
    <3>1. u[n] = t[n] /\ u[s] = t[s]
      BY <2>1, <2>4 DEF Stored
    <3> QED
      BY <1>5, <2>1, <3>1 DEF Tight, Full, Behind
  <2> QED
    BY <2>2, <2>3, <2>4
<1>6. Gap(b, Nx(w, c), c) = t[w].dib + 1
  <2> HIDE DEF a, b
  <2> QED
    BY <1>1, <1>2, GapNext
<1>7. Nx(w, c) \in Index(c) /\ \A g \in Index(c) : Nx(g, c) = Nx(w, c) => g = w
  BY <1>1, NxIs
<1>8. Behind(u, w, z.dist)
  BY <1>1, <1>2, <1>3 DEF Behind
<1>9. z.key \in Keys /\ z.val \in Values
  BY <1>1 DEF Sound
<1> QED
  BY <1>4, <1>5, <1>6, <1>7, <1>8, <1>9 DEF Tight, Fits

(* put has found a free slot. *)
LEMMA PlaceFits ==
  ASSUME NEW c \in Nat \ {0, 1}, NEW hf \in [Keys -> Nat], NEW t, NEW u,
         Sound(hf, t, c), Tight(t, c, -1),
         NEW y, NEW w, Fits(hf, t, c, y, w), ~Full(t, w),
         NEW e, Stored(t, u, c, w, e), e.key = y.key, e.val = y.val, e.dib = y.dist
  PROVE  Sound(hf, u, c) /\ Tight(u, c, -1) /\ Full(u, w)
<1>1. w \in Index(c) /\ Full(u, w) /\ u[w].dib = y.dist
  BY RobinHoodAssumption DEF Stored, Fits, Full
<1>2. Sound(hf, u, c)
  BY <1>1 DEF Sound, Stored, Full, Fits
<1>3. ASSUME NEW s \in Index(c), Full(u, Nx(s, c))
      PROVE  Behind(u, s, u[Nx(s, c)].dib)
  <2> DEFINE n == Nx(s, c)
  <2>1. n \in Index(c) /\ n # s /\ s # -1
    BY NxIs DEF Index
  <2>2. CASE n = w
    BY <1>1, <2>1, <2>2 DEF Fits, Behind, Stored, Full
  <2>3. CASE n # w /\ s = w
    <3>1. u[n] = t[n] /\ Full(t, n)
      BY <1>3, <2>1, <2>3 DEF Stored, Full
    <3>2. Behind(t, w, t[n].dib)
      BY <2>1, <2>3, <3>1 DEF Tight
    <3> QED
      BY <3>1, <3>2 DEF Behind
  <2>4. CASE n # w /\ s # w
    <3>1. u[n] = t[n] /\ u[s] = t[s]
      BY <2>1, <2>4 DEF Stored
    <3> QED
      BY <1>3, <2>1, <3>1 DEF Tight, Full, Behind
  <2> QED
    BY <2>2, <2>3, <2>4
<1> QED
  BY <1>1, <1>2, <1>3 DEF Tight

(* put has found its key: the value alone changes. *)
LEMMA UpdateFits ==
  ASSUME NEW c \in Nat \ {0, 1}, NEW hf \in [Keys -> Nat], NEW t, NEW u,
         Sound(hf, t, c), Tight(t, c, -1), NEW w \in Index(c), Full(t, w),
         NEW e, Stored(t, u, c, w, e), e.key = t[w].key, e.val \in Values, e.dib = t[w].dib
  PROVE  Sound(hf, u, c) /\ Tight(u, c, -1) /\ Full(u, w)
<1>1. \A s \in Index(c) : u[s].key = t[s].key /\ u[s].dib = t[s].dib
  BY DEF Stored
<1>2. Sound(hf, u, c)
  BY <1>1 DEF Sound, Stored, Full
<1>3. \A s \in Index(c) : Nx(s, c) \in Index(c)
  BY NxIs
<1> QED
  BY <1>1, <1>2, <1>3 DEF Tight, Full, Behind

(* remove has found its key, and makes a hole. *)
LEMMA PunchFits ==
  ASSUME NEW c \in Nat \ {0, 1}, NEW hf \in [Keys -> Nat], NEW t, NEW u,
         Sound(hf, t, c), Tight(t, c, -1), NEW w \in Index(c), Full(t, w),
         Stored(t, u, c, w, Vacant)
  PROVE  Sound(hf, u, c) /\ Tight(u, c, w) /\ Loose(u, c, w) /\ ~Full(u, w)
<1>1. ~Full(u, w)
  BY DEF Stored, Full, Vacant
<1>2. Sound(hf, u, c)
  BY <1>1 DEF Sound, Stored, Full
<1>3. \A s \in Index(c) : Nx(s, c) \in Index(c) /\ Nx(s, c) # s /\ s # -1
  BY NxIs DEF Index
<1>4. Tight(u, c, w)
  <2> SUFFICES ASSUME NEW s \in Index(c), s # w, Full(u, Nx(s, c))
               PROVE  Behind(u, s, u[Nx(s, c)].dib)
    BY DEF Tight
  <2>1. Nx(s, c) # w
    BY <1>1
  <2>2. u[Nx(s, c)] = t[Nx(s, c)] /\ u[s] = t[s]
    BY <1>3, <2>1 DEF Stored
  <2> QED
    BY <1>3, <2>2 DEF Tight, Full, Behind
<1>5. Loose(u, c, w)
  <2> DEFINE n == Nx(w, c)
  <2> SUFFICES ASSUME Full(u, n), NEW g \in Index(c), Nx(g, c) = w
               PROVE  Behind(u, g, u[n].dib - 1)
    BY DEF Loose
  <2>1. u[n] = t[n] /\ u[g] = t[g] /\ Full(t, n)
    BY <1>3 DEF Stored, Full
  <2>2. Behind(t, w, t[n].dib) /\ Behind(t, g, t[w].dib)
    BY <1>3, <2>1 DEF Tight
  <2>3. t[n].dib \in Nat /\ t[w].dib \in Nat /\ t[g].dib \in Nat
    BY <1>3 DEF Sound, Entry
  <2> HIDE DEF n
  <2> QED
    BY <2>1, <2>2, <2>3 DEF Behind, Full
<1> QED
  BY <1>1, <1>2, <1>4, <1>5

(* remove moves the next entry into the hole. *)
LEMMA ShiftFits ==
  ASSUME NEW c \in Nat \ {0, 1}, NEW hf \in [Keys -> Nat], NEW t, NEW u,
         NEW x \in Index(c), Sound(hf, t, c), Tight(t, c, x), Loose(t, c, x), ~Full(t, x),
         Full(t, Nx(x, c)), t[Nx(x, c)].dib > 0,
         u \in [Index(c) -> Entry],
         u[x].key = t[Nx(x, c)].key, u[x].val = t[Nx(x, c)].val,
         u[x].dib = t[Nx(x, c)].dib - 1, u[Nx(x, c)] = Vacant,
         \A s \in Index(c) \ {x, Nx(x, c)} : u[s] = t[s]
  PROVE  /\ Sound(hf, u, c) /\ Tight(u, c, Nx(x, c)) /\ Loose(u, c, Nx(x, c))
         /\ ~Full(u, Nx(x, c)) /\ Full(u, x)
<1> DEFINE n == Nx(x, c)
<1>1. n \in Index(c) /\ n # x
  BY NxIs
<1>2. ~Full(u, n) /\ Full(u, x)
  BY <1>1 DEF Full, Vacant
<1>3. \A s \in Index(c) : /\ Nx(s, c) \in Index(c) /\ Nx(s, c) # s
                          /\ Nx(s, c) = n => s = x
  BY NxIs
<1>4. t[n].dib \in 0 .. c - 1 /\ t[n].dib \in Nat
  <2>1. t[n].key \in Keys /\ t[n].dib = Gap(HomeIn(hf, t[n].key, c), n, c)
    BY <1>1 DEF Sound
  <2>2. HomeIn(hf, t[n].key, c) \in Index(c)
    BY <2>1, HomeIs
  <2> QED
    BY <1>1, <2>1, <2>2, GapIs DEF Index
<1>5. Sound(hf, u, c)
  <2> SUFFICES ASSUME NEW s \in Index(c), Full(u, s)
               PROVE  /\ u[s].key \in Keys /\ u[s].val \in Values
                      /\ u[s].dib = Gap(HomeIn(hf, u[s].key, c), s, c)
    BY DEF Sound
  <2>1. CASE s = x
    <3> DEFINE a == HomeIn(hf, t[n].key, c)
    <3>1. /\ t[n].key \in Keys /\ t[n].val \in Values /\ t[n].dib = Gap(a, n, c)
          /\ a \in Index(c)
      BY <1>1, HomeIs DEF Sound
    <3>2. Gap(a, n, c) = IF Gap(a, x, c) = c - 1 THEN 0 ELSE Gap(a, x, c) + 1
      BY <3>1, GapNext
    <3>3. Gap(a, x, c) \in Nat
      BY <3>1, GapIs
    <3>4. Gap(a, x, c) = t[n].dib - 1
      <4> HIDE DEF a, n
      <4> QED
        BY <3>1, <3>2, <3>3 DEF n
    <3> QED
      BY <2>1, <3>1, <3>4
  <2>2. CASE s # x
    <3>1. s # n /\ u[s] = t[s]
      BY <1>2, <2>2
    <3> QED
      BY <3>1 DEF Sound, Full
  <2> QED
    BY <2>1, <2>2
<1>6. Tight(u, c, n)
  <2> SUFFICES ASSUME NEW s \in Index(c), s # n, Full(u, Nx(s, c))
               PROVE  Behind(u, s, u[Nx(s, c)].dib)
    BY DEF Tight
  <2>1. Nx(s, c) # n /\ s # x
    BY <1>2
  <2>2. u[s] = t[s]
    BY <2>1
  <2>3. CASE Nx(s, c) = x
    BY <2>2, <2>3 DEF Loose, Behind, Full
  <2>4. CASE Nx(s, c) # x
    <3>1. u[Nx(s, c)] = t[Nx(s, c)]
      BY <1>3, <2>1, <2>4
    <3> QED
      BY <2>1, <2>2, <3>1 DEF Tight, Behind, Full
  <2> QED
    BY <2>3, <2>4
<1>7. Loose(u, c, n)
  <2> DEFINE m == Nx(n, c)
  <2> SUFFICES ASSUME Full(u, m)
               PROVE  Behind(u, x, u[m].dib - 1)
    BY <1>3 DEF Loose
  <2>1. m \in Index(c) /\ m # n
    BY <1>1, NxIs
  <2>2. CASE m = x
    <3>1. c = 2
      BY <1>1, <2>2 DEF Nx, Index
    <3>2. u[m].dib - 1 <= 0 /\ u[m].dib - 1 \in Int
      BY <1>4, <2>2, <3>1
    <3> QED
      BY <3>2 DEF Behind
  <2>3. CASE m # x
    <3>1. u[m] = t[m] /\ Full(t, m)
      BY <2>1, <2>3 DEF Full
    <3>2. Behind(t, n, t[m].dib)
      BY <1>1, <3>1 DEF Tight
    <3>3. t[m].dib \in Nat
      BY <2>1 DEF Sound, Entry
    <3>4. u[x].dib = t[n].dib - 1
      OBVIOUS
    <3> HIDE DEF m, n
    <3> QED
      BY <1>2, <1>4, <3>1, <3>2, <3>3, <3>4 DEF Behind
  <2> QED
    BY <2>2, <2>3
<1> QED
  BY <1>2, <1>5, <1>6, <1>7

LEMMA ShiftEnds ==
  ASSUME NEW c \in Nat \ {0, 1}, NEW t, NEW x \in Index(c), Tight(t, c, x),
         ~Full(t, Nx(x, c)) \/ t[Nx(x, c)].dib = 0
  PROVE  Tight(t, c, -1)
BY DEF Tight, Behind

(* A probe that ends without its key: no slot has it. *)
LEMMA SearchEnds ==
  ASSUME NEW c \in Nat \ {0, 1}, NEW hf \in [Keys -> Nat], NEW t,
         Sound(hf, t, c), Tight(t, c, -1), NEW k \in Keys, NEW w \in Index(c),
         Searched(hf, t, c, k, Gap(HomeIn(hf, k, c), w, c)),
         ~Full(t, w) \/ t[w].dib < Gap(HomeIn(hf, k, c), w, c)
  PROVE  Absent(t, c, k)
<1> DEFINE a == HomeIn(hf, k, c)
<1> SUFFICES ASSUME NEW s \in Index(c), t[s].key = k PROVE FALSE
  BY DEF Absent
<1>1. Full(t, s) /\ t[s].dib = Gap(a, s, c) /\ a \in Index(c)
  BY RobinHoodAssumption, HomeIs DEF Full, Sound
<1>2. Gap(a, s, c) \in Nat /\ Gap(a, w, c) \in Nat
  BY <1>1, GapIs
<1>3. ~(Gap(a, s, c) < Gap(a, w, c))
  BY DEF Searched
<1>4. Gap(a, w, c) <= t[s].dib
  BY <1>1, <1>2, <1>3
<1>5. Full(t, w) /\ t[w].dib >= Gap(a, w, c)
  BY <1>1, <1>4, Below
<1>6. t[w].dib \in Nat
  BY DEF Sound, Entry
<1> HIDE DEF a
<1> QED
  BY <1>2, <1>5, <1>6 DEF a

LEMMA SearchPasses ==
  ASSUME NEW c \in Nat \ {0, 1}, NEW hf \in [Keys -> Nat], NEW t, NEW k \in Keys,
         NEW w \in Index(c), NEW d, d = Gap(HomeIn(hf, k, c), w, c),
         Searched(hf, t, c, k, d), t[w].key # k
  PROVE  Searched(hf, t, c, k, d + 1)
<1> DEFINE a == HomeIn(hf, k, c)
<1>1. a \in Index(c)
  BY HomeIs
<1> SUFFICES ASSUME NEW s \in Index(c), Gap(a, s, c) < d + 1 PROVE t[s].key # k
  BY DEF Searched
<1>2. Gap(a, s, c) \in Nat /\ d \in Nat
  BY <1>1, GapIs
<1>3. CASE Gap(a, s, c) < d
  BY <1>3 DEF Searched
<1>4. CASE Gap(a, s, c) = d
  BY <1>1, <1>4, GapIs
<1> QED
  BY <1>2, <1>3, <1>4

(* The trail gets longer, but never leads all around. *)
LEMMA TrailGrows ==
  ASSUME NEW c \in Nat \ {0, 1}, NEW t, NEW u, NEW k, NEW w \in Index(c), Trail(t, c, k, w),
         NEW f \in Index(c), ~Full(t, f), Full(t, w),
         \A s \in Index(c) : Full(t, s) => Full(u, s),
         \A s \in Index(c) : s # w => u[s] = t[s]
  PROVE  Trail(u, c, k, Nx(w, c))
<1>1. PICK a \in Index(c) :
        /\ a # w /\ Full(t, a) /\ t[a].key = k
        /\ \A s \in Index(c) : Gap(a, s, c) < Gap(a, w, c) => Full(t, s)
  BY DEF Trail
<1>2. \A s \in Index(c) : Gap(a, s, c) \in 0 .. c - 1 /\ (Gap(a, s, c) = 0 <=> s = a)
                          /\ (Gap(a, s, c) = Gap(a, w, c) => s = w)
  BY GapIs DEF Index
<1>3. Gap(a, w, c) < c - 1
  <2>1. Gap(a, f, c) # Gap(a, w, c) /\ ~(Gap(a, f, c) < Gap(a, w, c))
    BY <1>1, <1>2
  <2> QED
    BY <1>2, <2>1
<1>4. Gap(a, Nx(w, c), c) = Gap(a, w, c) + 1 /\ Nx(w, c) \in Index(c)
  <2>1. Nx(w, c) \in Index(c)
    BY NxIs
  <2> QED
    BY <1>2, <1>3, <2>1, GapNext
<1>5. a # Nx(w, c)
  BY <1>2, <1>4
<1>6. \A s \in Index(c) : Gap(a, s, c) < Gap(a, Nx(w, c), c) => Full(u, s)
  <2> TAKE s \in Index(c)
  <2> HAVE Gap(a, s, c) < Gap(a, Nx(w, c), c)
  <2>1. Gap(a, s, c) < Gap(a, w, c) \/ Gap(a, s, c) = Gap(a, w, c)
    BY <1>2, <1>4
  <2> QED
    BY <1>1, <1>2, <2>1
<1>7. Full(u, a) /\ u[a].key = k
  BY <1>1 DEF Full
<1> QED
  BY <1>5, <1>6, <1>7 DEF Trail

LEMMA TrailBegins ==
  ASSUME NEW c \in Nat \ {0, 1}, NEW u, NEW w \in Index(c), Full(u, w)
  PROVE  Trail(u, c, u[w].key, Nx(w, c))
<1>1. Gap(w, w, c) = 0 /\ Gap(w, Nx(w, c), c) = 1 /\ Nx(w, c) # w
  BY DEF Gap, Nx, Index
<1>2. \A s \in Index(c) : Gap(w, s, c) < 1 => s = w
  BY GapIs
<1> QED
  BY <1>1, <1>2 DEF Trail

-----------------------------------------------------------------------------
(* Counting *)

UsedIn(t) == {s \in DOMAIN t : Full(t, s)}

LEMMA UsedFinite ==
  ASSUME NEW c \in Nat, NEW t, DOMAIN t = Index(c)
  PROVE  IsFiniteSet(UsedIn(t)) /\ Cardinality(UsedIn(t)) \in 0 .. c
<1>1. IsFiniteSet(Index(c)) /\ Cardinality(Index(c)) = c
  BY FS_Interval DEF Index
<1>2. UsedIn(t) \in SUBSET Index(c)
  BY DEF UsedIn
<1>3. IsFiniteSet(UsedIn(t)) /\ Cardinality(UsedIn(t)) <= c
  BY <1>1, <1>2, FS_Subset
<1> QED
  BY <1>3, FS_CardinalityType

(* Fewer entries than slots: one is free. *)
LEMMA FreeSlot ==
  ASSUME NEW c \in Nat, NEW t, DOMAIN t = Index(c), Cardinality(UsedIn(t)) < c
  PROVE  \E f \in Index(c) : ~Full(t, f)
<1> SUFFICES ASSUME \A f \in Index(c) : Full(t, f) PROVE FALSE
  OBVIOUS
<1>1. UsedIn(t) = Index(c)
  BY DEF UsedIn
<1>2. Cardinality(UsedIn(t)) = c
  BY <1>1, FS_Interval DEF Index
<1> QED
  BY <1>2

LEMMA OneMore ==
  ASSUME NEW c \in Nat, NEW t, NEW u, DOMAIN t = Index(c), DOMAIN u = Index(c),
         NEW w \in Index(c), ~Full(t, w), Full(u, w),
         \A s \in Index(c) : s # w => u[s] = t[s]
  PROVE  Cardinality(UsedIn(u)) = Cardinality(UsedIn(t)) + 1
<1>1. UsedIn(u) = UsedIn(t) \cup {w} /\ w \notin UsedIn(t)
  BY DEF UsedIn, Full
<1> QED
  BY <1>1, UsedFinite, FS_AddElement

LEMMA AsMany ==
  ASSUME NEW t, NEW u, DOMAIN u = DOMAIN t, \A s \in DOMAIN t : Full(u, s) <=> Full(t, s)
  PROVE  UsedIn(u) = UsedIn(t)
BY DEF UsedIn

-----------------------------------------------------------------------------
(* Keys *)

LEMMA StoredExcept ==
  ASSUME NEW c \in Nat, NEW t \in [Index(c) -> Entry], NEW s \in Index(c), NEW e \in Entry
  PROVE  Stored(t, [t EXCEPT ![s] = e], c, s, e)
BY DEF Stored

(* An entry with a new key takes a slot, and the place of a resident. *)
LEMMA StoredKeys ==
  ASSUME NEW c \in Nat, NEW t, NEW u, NEW w \in Index(c), NEW e, Stored(t, u, c, w, e),
         Distinct(t, c), Absent(t, c, e.key)
  PROVE  /\ Distinct(u, c)
         /\ Full(t, w) => Absent(u, c, t[w].key)
         /\ \A k : k # e.key /\ Absent(t, c, k) => Absent(u, c, k)
<1>1. Distinct(u, c)
  BY DEF Stored, Distinct, Absent, Full
<1>2. Full(t, w) => Absent(u, c, t[w].key)
  BY DEF Stored, Distinct, Absent, Full
<1>3. \A k : k # e.key /\ Absent(t, c, k) => Absent(u, c, k)
  BY DEF Stored, Absent
<1> QED
  BY <1>1, <1>2, <1>3

LEMMA FreshIs ==
  ASSUME NEW c \in Nat \ {0, 1}, NEW hf
  PROVE  /\ Fresh(c) \in [Index(c) -> Entry]
         /\ \A s \in Index(c) : ~Full(Fresh(c), s)
         /\ Sound(hf, Fresh(c), c) /\ Tight(Fresh(c), c, -1) /\ Distinct(Fresh(c), c)
         /\ \A k \in Keys : Absent(Fresh(c), c, k)
         /\ UsedIn(Fresh(c)) = {} /\ Cardinality(UsedIn(Fresh(c))) = 0
<1> DEFINE t == Fresh(c)
<1>1. Vacant \in Entry /\ Vacant.key = Empty
  BY DEF Vacant, Entry
<1>2. t \in [Index(c) -> Entry] /\ DOMAIN t = Index(c) /\ \A s \in Index(c) : t[s] = Vacant
  BY <1>1 DEF Fresh, Index
<1> HIDE DEF t
<1>3. \A s \in Index(c) : ~Full(t, s) /\ t[s].key = Empty
  BY <1>1, <1>2 DEF Full
<1>4. \A s \in Index(c) : Nx(s, c) \in Index(c)
  BY NxIs
<1>5. Sound(hf, t, c)
  BY <1>2, <1>3 DEF Sound
<1>6. Tight(t, c, -1)
  BY <1>3, <1>4 DEF Tight
<1>7. Distinct(t, c) /\ \A k \in Keys : Absent(t, c, k)
  BY <1>3, RobinHoodAssumption DEF Distinct, Absent
<1>8. UsedIn(t) = {}
  BY <1>2, <1>3 DEF UsedIn
<1> QED
  BY <1>2, <1>3, <1>5, <1>6, <1>7, <1>8, FS_EmptySet DEF t

(* A probe begins. *)
LEMMA BeginFits ==
  ASSUME NEW c \in Nat \ {0, 1}, NEW hf \in [Keys -> Nat], NEW t,
         NEW k \in Keys, NEW v \in Values
  PROVE  /\ Fits(hf, t, c, Carried(k, v), HomeIn(hf, k, c))
         /\ Searched(hf, t, c, k, 0)
<1> DEFINE a == HomeIn(hf, k, c)
<1>1. a \in Index(c) /\ Gap(a, a, c) = 0
  <2>1. a \in Index(c)
    BY HomeIs
  <2> HIDE DEF a
  <2> QED
    BY <2>1, GapIs
<1>2. \A g : Behind(t, g, 0)
  BY DEF Behind
<1>3. \A s \in Index(c) : Gap(a, s, c) \in Nat
  BY <1>1, GapIs
<1>4. Searched(hf, t, c, k, 0)
  BY <1>3 DEF Searched
<1> QED
  BY <1>1, <1>2, <1>4 DEF Fits, Carried

-----------------------------------------------------------------------------
(* The invariant *)

Hand == [key : Keys \cup {Empty}, val : Values \cup {None}, dist : Nat]

Moving == pc \in {"rehash", "reinsert"}

(* What rh_rehash has yet to move, without the entry in hand. *)
Left == {t \in DOMAIN old : t >= i /\ old[t].key # Empty}

NullInv == pc = "null" => capacity = 0 /\ h = 0

TableInv ==
  pc # "null" =>
    /\ capacity \in Nat \ {0, 1}
    /\ Sound(hash, slots, capacity) /\ Distinct(slots, capacity)
    /\ Cardinality(UsedIn(slots)) < capacity
    /\ pc # "shift" => Tight(slots, capacity, -1)
    /\ pc = "shift" => /\ Tight(slots, capacity, h) /\ Loose(slots, capacity, h)
                       /\ ~Full(slots, h)

LengthInv ==
  /\ pc # "shift" => length = Cardinality(UsedIn(slots))
  /\ pc = "shift" => length = Cardinality(UsedIn(slots)) + 1

ArgInv == pc = "put" \/ Moving => arg.key \in Keys /\ arg.val \in Values

(* Either put has the new entry in hand, and has not met its key; or, after *)
(* an eviction, another one, whose key is in no slot.  There is room for it.*)
PutInv ==
  pc = "put" =>
    /\ 2 * Cardinality(UsedIn(slots)) < capacity
    /\ Fits(hash, slots, capacity, carry, h)
    /\ carry.key = arg.key =>
         carry.val = arg.val /\ Searched(hash, slots, capacity, carry.key, carry.dist)
    /\ carry.key # arg.key =>
         Absent(slots, capacity, carry.key) /\ Trail(slots, capacity, arg.key, h)

LeftInv ==
  /\ \A s \in Left : old[s].key \in Keys /\ old[s].val \in Values
                     /\ Absent(slots, capacity, old[s].key)
  /\ \A r, s \in Left : old[r].key = old[s].key => r = s

RoomInv ==
  \E c \in Nat : /\ DOMAIN old = Index(c) /\ capacity = 2 * c /\ i <= c
                 /\ Cardinality(UsedIn(slots)) + Cardinality(Left) < c
                 /\ pc = "reinsert" => Cardinality(UsedIn(slots)) + Cardinality(Left) + 1 < c

ReinsertInv ==
  pc = "reinsert" =>
    /\ Fits(hash, slots, capacity, carry, h)
    /\ Absent(slots, capacity, carry.key)
    /\ \A s \in Left : old[s].key # carry.key

MoveInv ==
  /\ ~Moving => DOMAIN old = {}
  /\ Moving => LeftInv /\ RoomInv
  /\ ReinsertInv

IInv ==
  /\ TypeOK /\ carry \in Hand /\ arg \in Hand
  /\ NullInv /\ TableInv /\ LengthInv /\ ArgInv /\ PutInv /\ MoveInv

(* What every step of a loop may use. *)
LEMMA Facts ==
  ASSUME IInv, pc # "null"
  PROVE  /\ hash \in [Keys -> Nat]
         /\ capacity \in Nat \ {0, 1} /\ capacity \in Nat
         /\ slots \in [Index(capacity) -> Entry] /\ DOMAIN slots = Index(capacity)
         /\ h \in Index(capacity) /\ Succ(h) = Nx(h, capacity)
         /\ Cardinality(UsedIn(slots)) \in Nat
         /\ Sound(hash, slots, capacity) /\ Distinct(slots, capacity)
         /\ pc # "shift" => Tight(slots, capacity, -1)
         /\ \E f \in Index(capacity) : ~Full(slots, f)
         /\ \A s : IsEmpty(s) <=> ~Full(slots, s)
<1>1. hash \in [Keys -> Nat]
  BY RobinHoodAssumption DEF IInv, TypeOK
<1>2. /\ capacity \in Nat \ {0, 1} /\ capacity \in Nat
      /\ Sound(hash, slots, capacity) /\ Distinct(slots, capacity)
      /\ pc # "shift" => Tight(slots, capacity, -1)
      /\ Cardinality(UsedIn(slots)) < capacity
  BY DEF IInv, TableInv
<1>3. slots \in [Index(capacity) -> Entry] /\ DOMAIN slots = Index(capacity)
  BY <1>2 DEF Sound
<1>4. h \in Index(capacity)
  BY DEF IInv, TypeOK, Index
<1>5. Succ(h) = Nx(h, capacity)
  BY <1>2, <1>4, NxIsMod DEF Succ
<1>6. Cardinality(UsedIn(slots)) \in Nat
  BY <1>2, <1>3, UsedFinite
<1>7. \E f \in Index(capacity) : ~Full(slots, f)
  BY <1>2, <1>3, FreeSlot
<1>8. \A s : IsEmpty(s) <=> ~Full(slots, s)
  BY DEF IsEmpty, Full
<1> QED
  BY <1>1, <1>2, <1>3, <1>4, <1>5, <1>6, <1>7, <1>8

-----------------------------------------------------------------------------
(* Steps of an entry in hand *)

Carrying == pc \in {"put", "reinsert"}

LEMMA CarryFits ==
  ASSUME IInv, Carrying
  PROVE  /\ Fits(hash, slots, capacity, carry, h)
         /\ carry.key \in Keys /\ carry.val \in Values /\ carry.dist \in Nat
         /\ AsEntry(carry) \in Entry
<1>1. Fits(hash, slots, capacity, carry, h)
  BY DEF IInv, Carrying, PutInv, MoveInv, ReinsertInv
<1>2. carry.key \in Keys /\ carry.val \in Values /\ carry.dist \in Nat
  BY <1>1 DEF Fits, IInv, Hand
<1> QED
  BY <1>1, <1>2 DEF AsEntry, Entry

(* What is placed, or takes the place of a resident, is in no slot. *)
LEMMA CarryAbsent ==
  ASSUME IInv, Carrying, IsEmpty(h) \/ carry.dist > slots[h].dib
  PROVE  Absent(slots, capacity, carry.key)
<1>1. CASE pc = "put" /\ carry.key = arg.key
  <2>1. Searched(hash, slots, capacity, carry.key, carry.dist)
    BY <1>1 DEF IInv, PutInv
  <2>2. carry.dist = Gap(HomeIn(hash, carry.key, capacity), h, capacity)
    BY CarryFits DEF Fits
  <2>3. ~Full(slots, h) \/ slots[h].dib < carry.dist
    <3>1. h \in Index(capacity) /\ slots \in [Index(capacity) -> Entry]
      BY Facts DEF Carrying
    <3>2. slots[h].dib \in Nat
      BY <3>1 DEF Entry
    <3> QED
      BY <3>2, CarryFits DEF IsEmpty, Full
  <2>4. /\ hash \in [Keys -> Nat] /\ capacity \in Nat \ {0, 1} /\ h \in Index(capacity)
        /\ Sound(hash, slots, capacity) /\ Tight(slots, capacity, -1)
    BY Facts DEF Carrying
  <2> QED
    BY <2>1, <2>2, <2>3, <2>4, CarryFits, SearchEnds
<1>2. CASE pc = "put" /\ carry.key # arg.key
  BY <1>2 DEF IInv, PutInv
<1>3. CASE pc = "reinsert"
  BY <1>3 DEF IInv, MoveInv, ReinsertInv
<1> QED
  BY <1>1, <1>2, <1>3 DEF Carrying

LEMMA PlaceFacts ==
  ASSUME IInv, Carrying, Place
  PROVE  /\ Stored(slots, slots', capacity, h, AsEntry(carry))
         /\ Sound(hash, slots', capacity) /\ Tight(slots', capacity, -1)
         /\ Distinct(slots', capacity)
         /\ \A k : k # carry.key /\ Absent(slots, capacity, k) => Absent(slots', capacity, k)
         /\ Cardinality(UsedIn(slots')) = Cardinality(UsedIn(slots)) + 1
         /\ length' = Cardinality(UsedIn(slots')) /\ h' = h
<1> DEFINE e == AsEntry(carry)
<1>1. /\ hash \in [Keys -> Nat] /\ capacity \in Nat \ {0, 1} /\ capacity \in Nat
      /\ slots \in [Index(capacity) -> Entry] /\ DOMAIN slots = Index(capacity)
      /\ h \in Index(capacity) /\ ~Full(slots, h)
      /\ Sound(hash, slots, capacity) /\ Distinct(slots, capacity)
      /\ Tight(slots, capacity, -1)
  BY Facts DEF Carrying, Place
<1>2. /\ Fits(hash, slots, capacity, carry, h) /\ e \in Entry
      /\ e.key = carry.key /\ e.val = carry.val /\ e.dib = carry.dist
  BY CarryFits DEF AsEntry
<1>3. Absent(slots, capacity, carry.key)
  BY CarryAbsent DEF Place
<1>4. slots' = [slots EXCEPT ![h] = e] /\ length' = length + 1 /\ h' = h
  BY DEF Place
<1> HIDE DEF e
<1>5. Stored(slots, slots', capacity, h, e)
  BY <1>1, <1>2, <1>4, StoredExcept
<1>6. Sound(hash, slots', capacity) /\ Tight(slots', capacity, -1) /\ Full(slots', h)
  BY <1>1, <1>2, <1>5, PlaceFits
<1>7. /\ Distinct(slots', capacity)
      /\ \A k : k # carry.key /\ Absent(slots, capacity, k) => Absent(slots', capacity, k)
  BY <1>1, <1>2, <1>3, <1>5, StoredKeys
<1>8. Cardinality(UsedIn(slots')) = Cardinality(UsedIn(slots)) + 1
  <2>1. DOMAIN slots' = Index(capacity) /\ \A s \in Index(capacity) : s # h => slots'[s] = slots[s]
    BY <1>5 DEF Stored
  <2> QED
    BY <1>1, <1>6, <2>1, OneMore
<1>9. length = Cardinality(UsedIn(slots))
  BY DEF IInv, LengthInv, Carrying
<1> QED
  BY <1>4, <1>5, <1>6, <1>7, <1>8, <1>9 DEF e

(* The two disjuncts of PassBy. *)
Passes ==
  /\ ~IsEmpty(h) /\ carry.dist <= slots[h].dib
  /\ carry' = [carry EXCEPT !.dist = @ + 1]
  /\ h' = Succ(h) /\ UNCHANGED <<slots, length>>

Evicts ==
  /\ ~IsEmpty(h) /\ carry.dist > slots[h].dib
  /\ slots' = [slots EXCEPT ![h] = AsEntry(carry)]
  /\ carry' = [key |-> slots[h].key, val |-> slots[h].val, dist |-> slots[h].dib + 1]
  /\ h' = Succ(h) /\ UNCHANGED length

LEMMA PassOrEvict == PassBy => Passes \/ Evicts
BY DEF PassBy, Passes, Evicts

LEMMA PassFacts ==
  ASSUME IInv, Carrying, Passes
  PROVE  /\ carry' \in Hand /\ carry'.key = carry.key /\ carry'.val = carry.val
         /\ carry'.dist = carry.dist + 1
         /\ h' = Nx(h, capacity) /\ h' \in Index(capacity)
         /\ Fits(hash, slots, capacity, carry', h')
<1>1. /\ hash \in [Keys -> Nat] /\ capacity \in Nat \ {0, 1}
      /\ h \in Index(capacity) /\ Full(slots, h) /\ Succ(h) = Nx(h, capacity)
      /\ Sound(hash, slots, capacity) /\ Tight(slots, capacity, -1)
  BY Facts DEF Carrying, Passes
<1>2. PICK f \in Index(capacity) : ~Full(slots, f)
  BY Facts DEF Carrying
<1>3. carry \in Hand /\ carry.dist \in Nat
  BY CarryFits DEF IInv
<1>4. /\ carry' \in Hand /\ carry'.key = carry.key /\ carry'.val = carry.val
      /\ carry'.dist = carry.dist + 1
  <2>1. carry' = [carry EXCEPT !.dist = carry.dist + 1]
    BY DEF Passes
  <2> QED
    BY <1>3, <2>1 DEF Hand
<1>5. h' = Nx(h, capacity) /\ h' \in Index(capacity)
  BY <1>1, NxIs DEF Passes
<1>6. Fits(hash, slots, capacity, carry, h) /\ carry.dist <= slots[h].dib
  BY CarryFits DEF Passes
<1>7. Fits(hash, slots, capacity, carry', Nx(h, capacity))
  BY <1>1, <1>2, <1>4, <1>6, PassFits
<1> QED
  BY <1>4, <1>5, <1>7

LEMMA EvictFacts ==
  ASSUME IInv, Carrying, Evicts
  PROVE  /\ Stored(slots, slots', capacity, h, AsEntry(carry))
         /\ Sound(hash, slots', capacity) /\ Tight(slots', capacity, -1)
         /\ Distinct(slots', capacity) /\ Absent(slots', capacity, slots[h].key)
         /\ \A k : k # carry.key /\ Absent(slots, capacity, k) => Absent(slots', capacity, k)
         /\ UsedIn(slots') = UsedIn(slots)
         /\ \A s \in Index(capacity) : Full(slots', s) <=> Full(slots, s)
         /\ carry' \in Hand /\ carry'.key = slots[h].key /\ carry'.val = slots[h].val
         /\ carry'.key # carry.key
         /\ h' = Nx(h, capacity) /\ h' \in Index(capacity)
         /\ Fits(hash, slots', capacity, carry', h')
<1> DEFINE e == AsEntry(carry)
<1>1. /\ hash \in [Keys -> Nat] /\ capacity \in Nat \ {0, 1} /\ capacity \in Nat
      /\ slots \in [Index(capacity) -> Entry] /\ DOMAIN slots = Index(capacity)
      /\ h \in Index(capacity) /\ Full(slots, h) /\ Succ(h) = Nx(h, capacity)
      /\ Sound(hash, slots, capacity) /\ Distinct(slots, capacity)
      /\ Tight(slots, capacity, -1)
  BY Facts DEF Carrying, Evicts
<1>2. /\ Fits(hash, slots, capacity, carry, h) /\ e \in Entry
      /\ e.key = carry.key /\ e.val = carry.val /\ e.dib = carry.dist /\ e.key \in Keys
  BY CarryFits DEF AsEntry
<1>3. Absent(slots, capacity, carry.key)
  BY CarryAbsent DEF Evicts
<1>4. /\ slots' = [slots EXCEPT ![h] = e] /\ carry.dist > slots[h].dib
      /\ carry' = [key |-> slots[h].key, val |-> slots[h].val, dist |-> slots[h].dib + 1]
  BY DEF Evicts
<1> HIDE DEF e
<1>5. Stored(slots, slots', capacity, h, e)
  BY <1>1, <1>2, <1>4, StoredExcept
<1>6. /\ carry' \in Hand /\ carry'.key = slots[h].key /\ carry'.val = slots[h].val
      /\ carry'.dist = slots[h].dib + 1
  <2>1. slots[h] \in Entry
    BY <1>1
  <2>2. slots[h].key \in Keys \cup {Empty} /\ slots[h].val \in Values \cup {None} /\ slots[h].dib \in Nat
    BY <2>1 DEF Entry
  <2> QED
    BY <1>4, <2>2 DEF Hand
<1>7. h' = Nx(h, capacity) /\ h' \in Index(capacity)
  BY <1>1, NxIs DEF Evicts
<1>8. /\ Sound(hash, slots', capacity) /\ Tight(slots', capacity, -1)
      /\ Fits(hash, slots', capacity, carry', Nx(h, capacity))
  BY <1>1, <1>2, <1>4, <1>5, <1>6, EvictFits
<1>9. /\ Distinct(slots', capacity) /\ Absent(slots', capacity, slots[h].key)
      /\ \A k : k # carry.key /\ Absent(slots, capacity, k) => Absent(slots', capacity, k)
  BY <1>1, <1>2, <1>3, <1>5, StoredKeys
<1>10. DOMAIN slots' = DOMAIN slots /\ \A s \in DOMAIN slots : Full(slots', s) <=> Full(slots, s)
  <2>1. Full(slots', h)
    BY <1>2, <1>5, RobinHoodAssumption DEF Stored, Full
  <2> QED
    BY <1>1, <1>5, <2>1 DEF Stored, Full
<1>11. UsedIn(slots') = UsedIn(slots)
  BY <1>10, AsMany
<1>12. carry'.key # carry.key
  BY <1>1, <1>3, <1>6 DEF Absent
<1> QED
  BY <1>1, <1>5, <1>6, <1>7, <1>8, <1>9, <1>10, <1>11, <1>12 DEF e

-----------------------------------------------------------------------------
(* The steps *)

LEMMA InitInv == ASSUME Init PROVE IInv
<1> USE DEF Init
<1>1. DOMAIN slots = {} /\ slots \in [0 .. capacity - 1 -> Entry] /\ DOMAIN old = {}
  BY DEF Fresh
<1>2. Nothing \in Hand
  BY DEF Nothing, Hand
<1>3. TypeOK
  BY <1>1 DEF TypeOK
<1>4. UsedIn(slots) = {}
  BY <1>1 DEF UsedIn
<1>5. Cardinality(UsedIn(slots)) = 0
  BY <1>4, FS_EmptySet
<1>6. NullInv /\ TableInv /\ LengthInv /\ ArgInv /\ PutInv /\ MoveInv
  BY <1>1, <1>5
     DEF NullInv, TableInv, LengthInv, ArgInv, PutInv, MoveInv, Moving, ReinsertInv
<1> QED
  BY <1>2, <1>3, <1>6 DEF IInv

LEMMA NewInv == ASSUME IInv, New PROVE IInv'
<1> DEFINE c == InitialCapacity
<1>1. /\ pc = "null" /\ pc' = "idle" /\ capacity' = c /\ length' = 0 /\ slots' = Fresh(c)
      /\ UNCHANGED <<hash, old, i, arg, carry, h>> /\ c \in Nat \ {0, 1}
  BY RobinHoodAssumption DEF New, Create
<1> HIDE DEF c
<1>2. h = 0 /\ DOMAIN old = {}
  BY <1>1 DEF IInv, NullInv, MoveInv, Moving
<1>3. /\ slots' \in [Index(c) -> Entry] /\ Sound(hash, slots', c) /\ Tight(slots', c, -1)
      /\ Distinct(slots', c) /\ Cardinality(UsedIn(slots')) = 0
  BY <1>1, FreshIs
<1>4. TypeOK'
  BY <1>1, <1>2, <1>3 DEF IInv, TypeOK, Index
<1>5. TableInv' /\ LengthInv'
  BY <1>1, <1>3 DEF TableInv, LengthInv
<1>6. NullInv' /\ ArgInv' /\ PutInv' /\ MoveInv'
  BY <1>1, <1>2 DEF NullInv, ArgInv, PutInv, MoveInv, Moving, ReinsertInv
<1> QED
  BY <1>1, <1>4, <1>5, <1>6 DEF IInv

LEMMA DeleteInv == ASSUME IInv, Delete PROVE IInv'
<1> USE DEF Delete
<1>1. DOMAIN slots' = {} /\ slots' \in [0 .. capacity' - 1 -> Entry] /\ DOMAIN old' = {}
  BY DEF Fresh, IInv, MoveInv, Moving
<1>2. TypeOK'
  BY <1>1 DEF IInv, TypeOK
<1>3. UsedIn(slots') = {}
  BY <1>1 DEF UsedIn
<1>4. Cardinality(UsedIn(slots')) = 0
  BY <1>3, FS_EmptySet
<1>5. NullInv' /\ TableInv' /\ LengthInv' /\ ArgInv' /\ PutInv' /\ MoveInv'
  BY <1>1, <1>4
     DEF NullInv, TableInv, LengthInv, ArgInv, PutInv, MoveInv, Moving, ReinsertInv
<1> QED
  BY <1>2, <1>5 DEF IInv

LEMMA CarriedHand == ASSUME NEW k \in Keys, NEW v \in Values \cup {None} PROVE Carried(k, v) \in Hand
BY DEF Carried, Hand

(* The probe of put begins, in a table with room for one more. *)
LEMMA PutBegins ==
  ASSUME NEW c \in Nat \ {0, 1}, NEW k \in Keys, NEW v \in Values, TypeOK, pc' = "put",
         hash' = hash, capacity' = c, slots' \in [Index(c) -> Entry],
         Sound(hash, slots', c), Distinct(slots', c), Tight(slots', c, -1),
         2 * Cardinality(UsedIn(slots')) < c, length' = Cardinality(UsedIn(slots')),
         arg' \in Hand, arg'.key = k, arg'.val = v,
         carry' = Carried(k, v), h' = HomeIn(hash, k, c),
         DOMAIN old' = {}, i' \in Nat
  PROVE  IInv'
<1>1. hash \in [Keys -> Nat] /\ hash' \in HashFunctions
  BY RobinHoodAssumption DEF TypeOK
<1>2. /\ Fits(hash, slots', c, carry', h') /\ Searched(hash, slots', c, k, 0)
      /\ carry' \in Hand /\ carry'.key = k /\ carry'.val = v /\ carry'.dist = 0
  BY <1>1, BeginFits, CarriedHand DEF Carried
<1>3. h' \in Index(c)
  BY <1>2 DEF Fits
<1>4. Cardinality(UsedIn(slots')) \in Nat /\ Cardinality(UsedIn(slots')) < c
  <2>1. Cardinality(UsedIn(slots')) \in 0 .. c
    BY UsedFinite
  <2> QED
    BY <2>1
<1>5. TypeOK'
  BY <1>1, <1>3, <1>4 DEF TypeOK, Index
<1>6. TableInv' /\ LengthInv' /\ NullInv' /\ ArgInv' /\ MoveInv'
  BY <1>4 DEF TableInv, LengthInv, NullInv, ArgInv, MoveInv, Moving, ReinsertInv
<1>7. PutInv'
  BY <1>2 DEF PutInv
<1> QED
  BY <1>2, <1>5, <1>6, <1>7 DEF IInv

LEMMA PutNullInv ==
  ASSUME IInv, NEW k \in Keys, NEW v \in Values, PutNull(k, v) PROVE IInv'
<1> DEFINE c == InitialCapacity
<1>1. /\ pc = "null" /\ pc' = "put" /\ capacity' = c /\ length' = 0 /\ slots' = Fresh(c)
      /\ UNCHANGED <<hash, old, i>> /\ c \in Nat \ {0, 1}
      /\ arg' = Carried(k, v) /\ carry' = Carried(k, v) /\ h' = HomeIn(hash, k, c)
  BY RobinHoodAssumption DEF PutNull, Create, BeginProbe, Home, HomeIn
<1> HIDE DEF c
<1>2. /\ slots' \in [Index(c) -> Entry] /\ Sound(hash, slots', c) /\ Tight(slots', c, -1)
      /\ Distinct(slots', c) /\ Cardinality(UsedIn(slots')) = 0
  BY <1>1, FreshIs
<1>3. DOMAIN old' = {} /\ i' \in Nat /\ TypeOK
  BY <1>1 DEF IInv, TypeOK, MoveInv, Moving
<1>4. arg' \in Hand /\ arg'.key = k /\ arg'.val = v
  BY <1>1, CarriedHand DEF Carried
<1> QED
  BY <1>1, <1>2, <1>3, <1>4, PutBegins

(* put, of a map that is not NULL: with room, or after the rebuilding.      *)
LEMMA PutInvIs ==
  ASSUME IInv, NEW k \in Keys, NEW v \in Values, Put(k, v) PROVE IInv'
<1>1. /\ pc = "idle" /\ arg' = Carried(k, v) /\ hash' = hash
      /\ DOMAIN old = {} /\ i \in Nat /\ TypeOK
  BY DEF Put, IInv, TypeOK, MoveInv, Moving
<1>2. arg' \in Hand /\ arg'.key = k /\ arg'.val = v
  BY <1>1, CarriedHand DEF Carried
<1>3. /\ hash \in [Keys -> Nat]
      /\ capacity \in Nat \ {0, 1} /\ capacity \in Nat
      /\ slots \in [Index(capacity) -> Entry] /\ DOMAIN slots = Index(capacity)
      /\ h \in Index(capacity)
      /\ Cardinality(UsedIn(slots)) \in Nat
      /\ Sound(hash, slots, capacity) /\ Distinct(slots, capacity)
      /\ Tight(slots, capacity, -1)
  BY <1>1, Facts
<1>4. length = Cardinality(UsedIn(slots)) /\ Cardinality(UsedIn(slots)) < capacity
  BY <1>1 DEF IInv, LengthInv, TableInv
<1>5. CASE /\ length * 2 < capacity /\ pc' = "put"
           /\ BeginProbe(k, v, capacity) /\ UNCHANGED <<capacity, length, slots, old, i>>
  <2>1. carry' = Carried(k, v) /\ h' = HomeIn(hash, k, capacity)
    BY <1>5 DEF BeginProbe, Home, HomeIn
  <2>2. 2 * Cardinality(UsedIn(slots)) < capacity
    BY <1>3, <1>4, <1>5
  <2> QED
    BY <1>1, <1>2, <1>3, <1>4, <1>5, <2>1, <2>2, PutBegins
<1>6. CASE /\ length * 2 >= capacity /\ pc' = "rehash"
           /\ capacity' = 2 * capacity /\ length' = 0 /\ slots' = Fresh(capacity')
           /\ old' = slots /\ i' = 0 /\ UNCHANGED <<carry, h>>
  <2> DEFINE c == 2 * capacity
  <2>1. c \in Nat \ {0, 1} /\ capacity' = c /\ slots' = Fresh(c) /\ capacity < c
    BY <1>3, <1>6
  <2> HIDE DEF c
  <2>2. /\ slots' \in [Index(c) -> Entry] /\ Sound(hash, slots', c) /\ Tight(slots', c, -1)
        /\ Distinct(slots', c) /\ Cardinality(UsedIn(slots')) = 0
        /\ \A x \in Keys : Absent(slots', c, x)
    BY <2>1, FreshIs
  <2>3. h' \in Index(c)
    BY <1>3, <1>6, <2>1 DEF Index
  <2>4. \A s \in DOMAIN old' : old'[s] \in Entry
    BY <1>3, <1>6
  <2>5. TypeOK'
    BY <1>1, <1>6, <2>1, <2>2, <2>3, <2>4 DEF TypeOK, Index
  <2>6. Left' = UsedIn(slots)
    <3>1. \A s \in Index(capacity) : s >= 0
      BY DEF Index
    <3> QED
      BY <1>3, <1>6, <3>1 DEF Left, UsedIn, Full
  <2>7. LeftInv'
    <3>1. \A s \in UsedIn(slots) : s \in Index(capacity) /\ slots[s].key \in Keys
                                   /\ slots[s].val \in Values
      BY <1>3 DEF UsedIn, Sound
    <3>2. \A r, s \in UsedIn(slots) : slots[r].key = slots[s].key => r = s
      BY <1>3 DEF UsedIn, Distinct
    <3> QED
      BY <1>6, <2>1, <2>2, <2>6, <3>1, <3>2 DEF LeftInv
  <2>8. RoomInv'
    <3>1. /\ DOMAIN old' = Index(capacity) /\ capacity' = 2 * capacity /\ i' <= capacity
          /\ Cardinality(UsedIn(slots')) + Cardinality(Left') < capacity
          /\ pc' # "reinsert"
      BY <1>3, <1>4, <1>6, <2>2, <2>6
    <3> QED
      BY <1>3, <3>1 DEF RoomInv
  <2>9. TableInv' /\ LengthInv' /\ NullInv' /\ PutInv'
    BY <1>1, <1>6, <2>1, <2>2 DEF TableInv, LengthInv, NullInv, PutInv
  <2>10. ArgInv' /\ MoveInv'
    BY <1>2, <1>6, <2>7, <2>8 DEF ArgInv, MoveInv, Moving, ReinsertInv
  <2> QED
    BY <1>2, <1>6, <2>5, <2>9, <2>10 DEF IInv
<1> QED
  BY <1>5, <1>6 DEF Put

(* The table is sound and nothing is in hand: a call has ended, or goes on  *)
(* without any.                                                             *)
LEMMA TableTypes ==
  ASSUME TypeOK, hash' = hash, capacity' = capacity, capacity \in Nat \ {0, 1},
         Sound(hash, slots', capacity), h' \in Index(capacity),
         pc' \in {"idle", "put", "rehash", "reinsert", "remove", "shift"},
         length' \in Nat, i' \in Nat, \A s \in DOMAIN old' : old'[s] \in Entry
  PROVE  TypeOK'
<1>1. slots' \in [Index(capacity) -> Entry]
  BY DEF Sound
<1> QED
  BY <1>1 DEF TypeOK, Index

LEMMA CallEnds ==
  ASSUME TypeOK, hash' = hash, capacity' = capacity, capacity \in Nat \ {0, 1},
         Sound(hash, slots', capacity), Distinct(slots', capacity),
         Tight(slots', capacity, -1), Cardinality(UsedIn(slots')) < capacity,
         length' = Cardinality(UsedIn(slots')), h' \in Index(capacity),
         pc' \in {"idle", "remove"}, DOMAIN old' = {}, i' \in Nat,
         carry' \in Hand, arg' \in Hand
  PROVE  IInv'
<1>1. Cardinality(UsedIn(slots')) \in Nat
  BY UsedFinite DEF Sound
<1>2. TypeOK'
  BY <1>1, TableTypes
<1>3. TableInv' /\ LengthInv' /\ NullInv' /\ ArgInv' /\ PutInv' /\ MoveInv'
  BY DEF TableInv, LengthInv, NullInv, ArgInv, PutInv, MoveInv, Moving, ReinsertInv
<1> QED
  BY <1>2, <1>3 DEF IInv

LEMMA NothingHand == Nothing \in Hand
BY DEF Nothing, Hand

LEMMA PutProbeInv == ASSUME IInv, PutProbe PROVE IInv'
<1>1. /\ pc = "put" /\ Carrying /\ UNCHANGED <<hash, capacity, old, i, arg>>
  BY DEF PutProbe, Carrying
<1>2. /\ hash \in [Keys -> Nat]
      /\ capacity \in Nat \ {0, 1} /\ capacity \in Nat
      /\ slots \in [Index(capacity) -> Entry] /\ DOMAIN slots = Index(capacity)
      /\ h \in Index(capacity) /\ Cardinality(UsedIn(slots)) \in Nat
      /\ Sound(hash, slots, capacity) /\ Distinct(slots, capacity)
      /\ Tight(slots, capacity, -1)
  BY <1>1, Facts
<1>3. /\ TypeOK /\ arg' \in Hand /\ DOMAIN old' = {} /\ i' \in Nat
      /\ arg.key \in Keys /\ arg.val \in Values
      /\ \A s \in DOMAIN old' : old'[s] \in Entry
  BY <1>1 DEF IInv, TypeOK, MoveInv, Moving, ArgInv
<1>4. /\ length = Cardinality(UsedIn(slots)) /\ Cardinality(UsedIn(slots)) < capacity
      /\ 2 * Cardinality(UsedIn(slots)) < capacity
  BY <1>1 DEF IInv, LengthInv, TableInv, PutInv
<1>5. CASE Place /\ pc' = "idle" /\ carry' = Nothing
  <2>1. /\ Sound(hash, slots', capacity) /\ Tight(slots', capacity, -1)
        /\ Distinct(slots', capacity)
        /\ Cardinality(UsedIn(slots')) = Cardinality(UsedIn(slots)) + 1
        /\ length' = Cardinality(UsedIn(slots')) /\ h' = h
    BY <1>1, <1>5, PlaceFacts
  <2>2. Cardinality(UsedIn(slots')) < capacity
    BY <1>2, <1>4, <2>1
  <2> QED
    BY <1>1, <1>2, <1>3, <1>5, <2>1, <2>2, NothingHand, CallEnds
<1>6. CASE /\ ~IsEmpty(h) /\ slots[h].key = carry.key
           /\ slots' = [slots EXCEPT ![h].val = carry.val]
           /\ pc' = "idle" /\ carry' = Nothing /\ UNCHANGED <<length, h>>
  <2> DEFINE e == [slots[h] EXCEPT !.val = carry.val]
  <2>1. slots[h] \in Entry /\ carry.val \in Values /\ Full(slots, h)
    BY <1>1, <1>2, <1>6, CarryFits DEF IsEmpty, Full
  <2>2. e \in Entry /\ e.key = slots[h].key /\ e.val = carry.val /\ e.dib = slots[h].dib
    BY <2>1 DEF Entry
  <2>3. slots' = [slots EXCEPT ![h] = e]
    BY <1>6
  <2> HIDE DEF e
  <2>4. Stored(slots, slots', capacity, h, e)
    BY <1>2, <2>2, <2>3, StoredExcept
  <2>5. Sound(hash, slots', capacity) /\ Tight(slots', capacity, -1)
    BY <1>2, <2>1, <2>2, <2>4, UpdateFits
  <2>6. \A s \in Index(capacity) : slots'[s].key = slots[s].key
    BY <2>2, <2>4 DEF Stored
  <2>7. Distinct(slots', capacity) /\ UsedIn(slots') = UsedIn(slots)
    <3>1. DOMAIN slots' = Index(capacity)
      BY <2>4 DEF Stored
    <3> QED
      BY <1>2, <2>6, <3>1 DEF Distinct, Full, UsedIn
  <2> QED
    BY <1>1, <1>2, <1>3, <1>4, <1>6, <2>5, <2>7, NothingHand, CallEnds
<1>7. CASE slots[h].key # carry.key /\ Passes /\ UNCHANGED pc
  <2>1. slots' = slots /\ length' = length /\ ~IsEmpty(h)
    BY <1>7 DEF Passes
  <2>2. /\ carry' \in Hand /\ carry'.key = carry.key /\ carry'.val = carry.val
        /\ carry'.dist = carry.dist + 1
        /\ h' = Nx(h, capacity) /\ h' \in Index(capacity)
        /\ Fits(hash, slots, capacity, carry', h')
    BY <1>1, <1>7, PassFacts
  <2>3. TypeOK'
    BY <1>1, <1>2, <1>3, <1>4, <1>7, <2>1, <2>2, TableTypes
  <2>4. ASSUME carry.key = arg.key
        PROVE  Searched(hash, slots, capacity, carry.key, carry.dist + 1) /\ carry.val = arg.val
    <3>1. /\ Searched(hash, slots, capacity, carry.key, carry.dist) /\ carry.val = arg.val
          /\ carry.dist = Gap(HomeIn(hash, carry.key, capacity), h, capacity)
      BY <1>1, <2>4, CarryFits DEF IInv, PutInv, Fits
    <3>2. carry.key \in Keys
      BY <1>1, CarryFits
    <3> QED
      BY <1>2, <1>7, <3>1, <3>2, SearchPasses
  <2>5. ASSUME carry.key # arg.key
        PROVE  Absent(slots, capacity, carry.key) /\ Trail(slots, capacity, arg.key, h')
    <3>1. Absent(slots, capacity, carry.key) /\ Trail(slots, capacity, arg.key, h)
      BY <1>1, <2>5 DEF IInv, PutInv
    <3>2. PICK f \in Index(capacity) : ~Full(slots, f)
      BY <1>1, Facts
    <3>3. Full(slots, h)
      BY <2>1 DEF IsEmpty, Full
    <3> QED
      BY <1>2, <2>2, <3>1, <3>2, <3>3, TrailGrows
  <2>6. PutInv'
    BY <1>1, <1>4, <1>7, <2>1, <2>2, <2>4, <2>5 DEF PutInv
  <2>7. TableInv' /\ LengthInv' /\ NullInv' /\ ArgInv' /\ MoveInv'
    BY <1>1, <1>2, <1>3, <1>4, <1>7, <2>1
       DEF TableInv, LengthInv, NullInv, ArgInv, MoveInv, Moving, ReinsertInv
  <2> QED
    BY <1>3, <2>2, <2>3, <2>6, <2>7 DEF IInv
<1>8. CASE slots[h].key # carry.key /\ Evicts /\ UNCHANGED pc
  <2>1. length' = length /\ ~IsEmpty(h) /\ Full(slots, h)
    BY <1>8 DEF Evicts, IsEmpty, Full
  <2>2. /\ Stored(slots, slots', capacity, h, AsEntry(carry))
        /\ Sound(hash, slots', capacity) /\ Tight(slots', capacity, -1)
        /\ Distinct(slots', capacity) /\ Absent(slots', capacity, slots[h].key)
        /\ UsedIn(slots') = UsedIn(slots)
        /\ \A s \in Index(capacity) : Full(slots', s) <=> Full(slots, s)
        /\ carry' \in Hand /\ carry'.key = slots[h].key /\ carry'.val = slots[h].val
        /\ carry'.key # carry.key
        /\ h' = Nx(h, capacity) /\ h' \in Index(capacity)
        /\ Fits(hash, slots', capacity, carry', h')
    BY <1>1, <1>8, EvictFacts
  <2>3. TypeOK'
    BY <1>1, <1>2, <1>3, <1>4, <1>8, <2>1, <2>2, TableTypes
  <2>4. carry'.key # arg.key /\ Trail(slots', capacity, arg.key, h')
    <3>1. CASE carry.key = arg.key
      <4>1. Full(slots', h) /\ slots'[h].key = arg.key
        BY <1>2, <2>1, <2>2, <3>1 DEF Stored, AsEntry
      <4>2. Trail(slots', capacity, slots'[h].key, Nx(h, capacity))
        BY <1>2, <4>1, TrailBegins
      <4> QED
        BY <2>2, <3>1, <4>1, <4>2
    <3>2. CASE carry.key # arg.key
      <4>1. Trail(slots, capacity, arg.key, h)
        BY <1>1, <3>2 DEF IInv, PutInv
      <4>2. PICK f \in Index(capacity) : ~Full(slots, f)
        BY <1>1, Facts
      <4>3. \A s \in Index(capacity) : s # h => slots'[s] = slots[s]
        BY <2>2 DEF Stored
      <4>4. Trail(slots', capacity, arg.key, Nx(h, capacity))
        BY <1>2, <2>1, <2>2, <4>1, <4>2, <4>3, TrailGrows
      <4>5. slots[h].key # arg.key
        <5>1. PICK a \in Index(capacity) : a # h /\ Full(slots, a) /\ slots[a].key = arg.key
          BY <4>1 DEF Trail
        <5> QED
          BY <1>2, <2>1, <5>1 DEF Distinct
      <4> QED
        BY <2>2, <4>4, <4>5
    <3> QED
      BY <3>1, <3>2
  <2>5. PutInv'
    BY <1>1, <1>4, <1>8, <2>2, <2>4 DEF PutInv
  <2>6. TableInv' /\ LengthInv' /\ NullInv' /\ ArgInv' /\ MoveInv'
    BY <1>1, <1>2, <1>3, <1>4, <1>8, <2>1, <2>2
       DEF TableInv, LengthInv, NullInv, ArgInv, MoveInv, Moving, ReinsertInv
  <2> QED
    BY <1>3, <2>2, <2>3, <2>5, <2>6 DEF IInv
<1> QED
  BY <1>5, <1>6, <1>7, <1>8, PassOrEvict DEF PutProbe

LEMMA RehashNextInv == ASSUME IInv, RehashNext PROVE IInv'
<1>1. pc = "rehash" /\ UNCHANGED <<hash, capacity, length, slots, arg>>
  BY DEF RehashNext
<1>2. /\ hash \in [Keys -> Nat]
      /\ capacity \in Nat \ {0, 1} /\ capacity \in Nat
      /\ slots \in [Index(capacity) -> Entry] /\ DOMAIN slots = Index(capacity)
      /\ h \in Index(capacity) /\ Cardinality(UsedIn(slots)) \in Nat
      /\ Sound(hash, slots, capacity) /\ Distinct(slots, capacity)
      /\ Tight(slots, capacity, -1)
  BY <1>1, Facts
<1>3. /\ TypeOK /\ arg \in Hand /\ carry \in Hand /\ arg.key \in Keys /\ arg.val \in Values
      /\ length = Cardinality(UsedIn(slots)) /\ Cardinality(UsedIn(slots)) < capacity
      /\ i \in Nat /\ LeftInv /\ RoomInv /\ \A s \in DOMAIN old : old[s] \in Entry
  BY <1>1 DEF IInv, TypeOK, ArgInv, LengthInv, TableInv, MoveInv, Moving
<1>4. PICK c \in Nat : /\ DOMAIN old = Index(c) /\ capacity = 2 * c /\ i <= c
                       /\ Cardinality(UsedIn(slots)) + Cardinality(Left) < c
  BY <1>3 DEF RoomInv
<1>5. Left \subseteq Index(c) /\ IsFiniteSet(Left) /\ Cardinality(Left) \in Nat
  <2>1. IsFiniteSet(Index(c))
    BY FS_Interval DEF Index
  <2>2. Left \in SUBSET Index(c)
    BY <1>4 DEF Left
  <2> QED
    BY <2>1, <2>2, FS_Subset, FS_CardinalityType
<1>6. CASE /\ i \in DOMAIN old /\ i' = i + 1 /\ old[i].key = Empty
           /\ UNCHANGED <<pc, carry, h, old>>
  <2>1. Left' = Left
    <3>1. \A s \in Index(c) : s >= i /\ old[s].key # Empty <=> s >= i + 1 /\ old[s].key # Empty
      BY <1>3, <1>6 DEF Index
    <3> QED
      BY <1>4, <1>6, <3>1 DEF Left
  <2>2. i' \in Nat /\ i' <= c
    BY <1>3, <1>4, <1>6 DEF Index
  <2>3. TypeOK'
    BY <1>1, <1>2, <1>3, <1>6, <2>2, TableTypes
  <2>4. LeftInv' /\ RoomInv'
    BY <1>1, <1>3, <1>4, <1>6, <2>1, <2>2 DEF LeftInv, RoomInv
  <2>5. TableInv' /\ LengthInv' /\ NullInv' /\ PutInv' /\ ArgInv' /\ MoveInv'
    BY <1>1, <1>2, <1>3, <1>6, <2>4
       DEF TableInv, LengthInv, NullInv, PutInv, ArgInv, MoveInv, Moving, ReinsertInv
  <2> QED
    BY <1>1, <1>3, <1>6, <2>3, <2>5 DEF IInv
<1>7. CASE /\ i \in DOMAIN old /\ i' = i + 1 /\ old[i].key # Empty
           /\ pc' = "reinsert" /\ BeginProbe(old[i].key, old[i].val, capacity) /\ old' = old
  <2>1. i \in Left
    BY <1>3, <1>7 DEF Left
  <2>2. Left' = Left \ {i}
    <3>1. \A s \in Index(c) : s >= i + 1 <=> s >= i /\ s # i
      BY <1>3 DEF Index
    <3> QED
      BY <1>4, <1>7, <3>1 DEF Left
  <2>3. Cardinality(Left') = Cardinality(Left) - 1
    BY <1>5, <2>1, <2>2, FS_RemoveElement
  <2>4. i' \in Nat /\ i' <= c
    BY <1>3, <1>4, <1>7 DEF Index
  <2>5. /\ old[i].key \in Keys /\ old[i].val \in Values
        /\ Absent(slots, capacity, old[i].key)
    BY <1>3, <2>1 DEF LeftInv
  <2>6. carry' = Carried(old[i].key, old[i].val) /\ h' = HomeIn(hash, old[i].key, capacity)
    BY <1>7 DEF BeginProbe, Home, HomeIn
  <2>7. /\ Fits(hash, slots, capacity, carry', h') /\ carry' \in Hand
        /\ carry'.key = old[i].key
    BY <1>2, <2>5, <2>6, BeginFits, CarriedHand DEF Carried
  <2>8. TypeOK'
    <3>1. h' \in Index(capacity)
      BY <2>7 DEF Fits
    <3> QED
      BY <1>1, <1>2, <1>3, <1>7, <2>4, <3>1, TableTypes
  <2>9. LeftInv'
    BY <1>1, <1>3, <1>7, <2>2 DEF LeftInv
  <2>10. RoomInv'
    <3>1. Cardinality(UsedIn(slots')) + Cardinality(Left') + 1 < c
          /\ Cardinality(UsedIn(slots')) + Cardinality(Left') < c
      BY <1>1, <1>2, <1>4, <1>5, <2>3
    <3> QED
      BY <1>1, <1>4, <1>7, <2>4, <3>1 DEF RoomInv
  <2>11. ReinsertInv'
    <3>1. \A s \in Left' : old'[s].key # carry'.key
      BY <1>3, <1>7, <2>1, <2>2, <2>7 DEF LeftInv
    <3> QED
      BY <1>1, <2>5, <2>7, <3>1 DEF ReinsertInv
  <2>12. TableInv' /\ LengthInv' /\ NullInv' /\ PutInv' /\ ArgInv' /\ MoveInv'
    BY <1>1, <1>2, <1>3, <1>7, <2>9, <2>10, <2>11
       DEF TableInv, LengthInv, NullInv, PutInv, ArgInv, MoveInv, Moving
  <2> QED
    BY <1>1, <1>3, <2>7, <2>8, <2>12 DEF IInv
<1>8. CASE /\ i \notin DOMAIN old /\ i' = 0 /\ old' = Fresh(0)
           /\ pc' = "put" /\ BeginProbe(arg.key, arg.val, capacity)
  <2>1. carry' = Carried(arg.key, arg.val) /\ h' = HomeIn(hash, arg.key, capacity)
    BY <1>8 DEF BeginProbe, Home, HomeIn
  <2>2. DOMAIN old' = {} /\ i' \in Nat
    BY <1>8 DEF Fresh
  <2>3. 2 * Cardinality(UsedIn(slots)) < capacity
    BY <1>2, <1>4, <1>5
  <2> QED
    BY <1>1, <1>2, <1>3, <1>8, <2>1, <2>2, <2>3, PutBegins
<1> QED
  BY <1>6, <1>7, <1>8 DEF RehashNext

LEMMA ReinsertStepInv == ASSUME IInv, Reinsert PROVE IInv'
<1>1. pc = "reinsert" /\ Carrying /\ UNCHANGED <<hash, capacity, old, i, arg>>
  BY DEF Reinsert, Carrying
<1>2. /\ hash \in [Keys -> Nat]
      /\ capacity \in Nat \ {0, 1} /\ capacity \in Nat
      /\ slots \in [Index(capacity) -> Entry] /\ DOMAIN slots = Index(capacity)
      /\ h \in Index(capacity) /\ Cardinality(UsedIn(slots)) \in Nat
      /\ Sound(hash, slots, capacity) /\ Distinct(slots, capacity)
      /\ Tight(slots, capacity, -1)
  BY <1>1, Facts
<1>3. /\ TypeOK /\ arg \in Hand /\ carry \in Hand /\ arg.key \in Keys /\ arg.val \in Values
      /\ length = Cardinality(UsedIn(slots)) /\ Cardinality(UsedIn(slots)) < capacity
      /\ i \in Nat /\ LeftInv /\ RoomInv /\ ReinsertInv
      /\ \A s \in DOMAIN old : old[s] \in Entry
  BY <1>1 DEF IInv, TypeOK, ArgInv, LengthInv, TableInv, MoveInv, Moving
<1>4. PICK c \in Nat : /\ DOMAIN old = Index(c) /\ capacity = 2 * c /\ i <= c
                       /\ Cardinality(UsedIn(slots)) + Cardinality(Left) < c
                       /\ Cardinality(UsedIn(slots)) + Cardinality(Left) + 1 < c
  BY <1>1, <1>3 DEF RoomInv
<1>5. Cardinality(Left) \in Nat
  <2>1. IsFiniteSet(Index(c))
    BY FS_Interval DEF Index
  <2>2. Left \in SUBSET Index(c)
    BY <1>4 DEF Left
  <2> QED
    BY <2>1, <2>2, FS_Subset, FS_CardinalityType
<1>6. Left' = Left
  BY <1>1 DEF Left
<1>7. CASE Place /\ pc' = "rehash" /\ carry' = Nothing
  <2>1. /\ Sound(hash, slots', capacity) /\ Tight(slots', capacity, -1)
        /\ Distinct(slots', capacity)
        /\ \A k : k # carry.key /\ Absent(slots, capacity, k) => Absent(slots', capacity, k)
        /\ Cardinality(UsedIn(slots')) = Cardinality(UsedIn(slots)) + 1
        /\ length' = Cardinality(UsedIn(slots')) /\ h' = h
    BY <1>1, <1>7, PlaceFacts
  <2>2. Cardinality(UsedIn(slots')) + Cardinality(Left') < c
        /\ Cardinality(UsedIn(slots')) < capacity /\ length' \in Nat
    BY <1>2, <1>4, <1>5, <1>6, <2>1
  <2>3. TypeOK'
    BY <1>1, <1>2, <1>3, <1>7, <2>1, <2>2, TableTypes
  <2>4. LeftInv'
    BY <1>1, <1>3, <1>6, <2>1 DEF LeftInv, ReinsertInv
  <2>5. RoomInv'
    BY <1>1, <1>4, <1>7, <2>2 DEF RoomInv
  <2>6. TableInv' /\ LengthInv' /\ NullInv' /\ PutInv' /\ ArgInv' /\ MoveInv'
    BY <1>1, <1>2, <1>3, <1>7, <2>1, <2>2, <2>4, <2>5
       DEF TableInv, LengthInv, NullInv, PutInv, ArgInv, MoveInv, Moving, ReinsertInv
  <2> QED
    BY <1>1, <1>3, <1>7, <2>3, <2>6, NothingHand DEF IInv
<1>8. CASE Passes /\ UNCHANGED pc
  <2>1. slots' = slots /\ length' = length
    BY <1>8 DEF Passes
  <2>2. /\ carry' \in Hand /\ carry'.key = carry.key /\ h' \in Index(capacity)
        /\ Fits(hash, slots, capacity, carry', h')
    BY <1>1, <1>8, PassFacts
  <2>3. TypeOK'
    BY <1>1, <1>2, <1>3, <1>8, <2>1, <2>2, TableTypes
  <2>4. LeftInv' /\ RoomInv'
    BY <1>1, <1>3, <1>4, <1>6, <1>8, <2>1 DEF LeftInv, RoomInv
  <2>5. ReinsertInv'
    BY <1>1, <1>3, <1>6, <2>1, <2>2 DEF ReinsertInv
  <2>6. TableInv' /\ LengthInv' /\ NullInv' /\ PutInv' /\ ArgInv' /\ MoveInv'
    BY <1>1, <1>2, <1>3, <1>8, <2>1, <2>4, <2>5
       DEF TableInv, LengthInv, NullInv, PutInv, ArgInv, MoveInv, Moving
  <2> QED
    BY <1>1, <1>3, <2>2, <2>3, <2>6 DEF IInv
<1>9. CASE Evicts /\ UNCHANGED pc
  <2>1. length' = length /\ Full(slots, h)
    BY <1>9 DEF Evicts, IsEmpty, Full
  <2>2. /\ Sound(hash, slots', capacity) /\ Tight(slots', capacity, -1)
        /\ Distinct(slots', capacity) /\ Absent(slots', capacity, slots[h].key)
        /\ \A k : k # carry.key /\ Absent(slots, capacity, k) => Absent(slots', capacity, k)
        /\ UsedIn(slots') = UsedIn(slots)
        /\ carry' \in Hand /\ carry'.key = slots[h].key
        /\ h' \in Index(capacity)
        /\ Fits(hash, slots', capacity, carry', h')
    BY <1>1, <1>9, EvictFacts
  <2>3. TypeOK'
    BY <1>1, <1>2, <1>3, <1>9, <2>1, <2>2, TableTypes
  <2>4. LeftInv'
    BY <1>1, <1>3, <1>6, <2>2 DEF LeftInv, ReinsertInv
  <2>5. RoomInv'
    BY <1>1, <1>4, <1>6, <1>9, <2>2 DEF RoomInv
  <2>6. ReinsertInv'
    <3>1. \A s \in Left : old[s].key # slots[h].key
      BY <1>2, <1>3 DEF LeftInv, Absent
    <3> QED
      BY <1>1, <1>6, <2>2, <3>1 DEF ReinsertInv
  <2>7. TableInv' /\ LengthInv' /\ NullInv' /\ PutInv' /\ ArgInv' /\ MoveInv'
    BY <1>1, <1>2, <1>3, <1>9, <2>1, <2>2, <2>4, <2>5, <2>6
       DEF TableInv, LengthInv, NullInv, PutInv, ArgInv, MoveInv, Moving
  <2> QED
    BY <1>1, <1>3, <2>2, <2>3, <2>7 DEF IInv
<1> QED
  BY <1>7, <1>8, <1>9, PassOrEvict DEF Reinsert

LEMMA RemoveInv == ASSUME IInv, NEW k \in Keys, Remove(k) PROVE IInv'
<1>1. /\ pc = "idle" /\ pc' = "remove" /\ carry' = Carried(k, None)
      /\ h' = HomeIn(hash, k, capacity)
      /\ UNCHANGED <<hash, capacity, length, slots, old, i, arg>>
  BY DEF Remove, BeginProbe, Home, HomeIn
<1>2. /\ capacity \in Nat \ {0, 1} /\ hash \in [Keys -> Nat]
      /\ Sound(hash, slots, capacity) /\ Distinct(slots, capacity)
      /\ Tight(slots, capacity, -1)
  BY <1>1, Facts
<1>3. h' \in Index(capacity) /\ carry' \in Hand
  BY <1>1, <1>2, HomeIs, CarriedHand
<1>4. /\ TypeOK /\ arg \in Hand /\ i \in Nat /\ DOMAIN old = {}
      /\ length = Cardinality(UsedIn(slots)) /\ Cardinality(UsedIn(slots)) < capacity
  BY <1>1 DEF IInv, TypeOK, MoveInv, Moving, LengthInv, TableInv
<1> QED
  BY <1>1, <1>2, <1>3, <1>4, CallEnds

LEMMA RemoveProbeInv == ASSUME IInv, RemoveProbe PROVE IInv'
<1>1. pc = "remove" /\ UNCHANGED <<hash, capacity, length, old, i, arg>>
  BY DEF RemoveProbe
<1>2. /\ hash \in [Keys -> Nat]
      /\ capacity \in Nat \ {0, 1} /\ capacity \in Nat
      /\ slots \in [Index(capacity) -> Entry] /\ DOMAIN slots = Index(capacity)
      /\ h \in Index(capacity) /\ Succ(h) = Nx(h, capacity)
      /\ Cardinality(UsedIn(slots)) \in Nat
      /\ Sound(hash, slots, capacity) /\ Distinct(slots, capacity)
      /\ Tight(slots, capacity, -1)
  BY <1>1, Facts
<1>3. /\ TypeOK /\ arg \in Hand /\ carry \in Hand /\ i \in Nat /\ DOMAIN old = {}
      /\ length = Cardinality(UsedIn(slots)) /\ Cardinality(UsedIn(slots)) < capacity
  BY <1>1 DEF IInv, TypeOK, MoveInv, Moving, LengthInv, TableInv
<1>4. CASE pc' = "idle" /\ carry' = Nothing /\ UNCHANGED <<slots, h>>
  BY <1>1, <1>2, <1>3, <1>4, NothingHand, CallEnds
<1>5. CASE /\ ~IsEmpty(h) /\ slots[h].key = carry.key
           /\ slots' = [slots EXCEPT ![h] = Vacant]
           /\ pc' = "shift" /\ carry' = Nothing /\ UNCHANGED h
  <2>1. Vacant \in Entry /\ Full(slots, h)
    BY <1>5 DEF Vacant, Entry, IsEmpty, Full
  <2>2. Stored(slots, slots', capacity, h, Vacant)
    BY <1>2, <1>5, <2>1, StoredExcept
  <2>3. /\ Sound(hash, slots', capacity) /\ Tight(slots', capacity, h)
        /\ Loose(slots', capacity, h) /\ ~Full(slots', h)
    BY <1>2, <2>1, <2>2, PunchFits
  <2>4. Cardinality(UsedIn(slots)) = Cardinality(UsedIn(slots')) + 1
    <3>1. DOMAIN slots' = Index(capacity) /\ \A s \in Index(capacity) : s # h => slots[s] = slots'[s]
      BY <2>2 DEF Stored
    <3> QED
      BY <1>2, <2>1, <2>3, <3>1, OneMore
  <2>5. Cardinality(UsedIn(slots')) \in Nat /\ Cardinality(UsedIn(slots')) < capacity
    <3>1. Cardinality(UsedIn(slots')) \in 0 .. capacity
      BY <1>2, <2>3, UsedFinite DEF Sound
    <3> QED
      BY <1>2, <1>3, <2>4, <3>1
  <2>6. Distinct(slots', capacity)
    BY <1>2, <2>2, <2>3 DEF Distinct, Stored, Full
  <2>7. TypeOK'
    BY <1>1, <1>2, <1>3, <1>5, <2>3, TableTypes
  <2>8. TableInv' /\ LengthInv' /\ NullInv' /\ PutInv' /\ ArgInv' /\ MoveInv'
    BY <1>1, <1>2, <1>3, <1>5, <2>3, <2>4, <2>5, <2>6
       DEF TableInv, LengthInv, NullInv, PutInv, ArgInv, MoveInv, Moving, ReinsertInv
  <2> QED
    BY <1>1, <1>3, <1>5, <2>7, <2>8, NothingHand DEF IInv
<1>6. CASE /\ carry' = [carry EXCEPT !.dist = @ + 1] /\ h' = Succ(h) /\ UNCHANGED <<slots, pc>>
  <2>1. carry' \in Hand
    <3>1. carry' = [carry EXCEPT !.dist = carry.dist + 1] /\ carry.dist \in Nat
      BY <1>3, <1>6 DEF Hand
    <3> QED
      BY <1>3, <3>1 DEF Hand
  <2>2. h' \in Index(capacity)
    BY <1>2, <1>6, NxIs
  <2> QED
    BY <1>1, <1>2, <1>3, <1>6, <2>1, <2>2, CallEnds
<1> QED
  BY <1>4, <1>5, <1>6 DEF RemoveProbe

LEMMA ShiftInv == ASSUME IInv, Shift PROVE IInv'
<1>1. pc = "shift" /\ UNCHANGED <<hash, capacity, old, i, arg, carry>>
  BY DEF Shift
<1>2. /\ hash \in [Keys -> Nat]
      /\ capacity \in Nat \ {0, 1} /\ capacity \in Nat
      /\ slots \in [Index(capacity) -> Entry] /\ DOMAIN slots = Index(capacity)
      /\ h \in Index(capacity) /\ Succ(h) = Nx(h, capacity)
      /\ Cardinality(UsedIn(slots)) \in Nat
      /\ Sound(hash, slots, capacity) /\ Distinct(slots, capacity)
  BY <1>1, Facts
<1>3. /\ TypeOK /\ arg \in Hand /\ carry \in Hand /\ i \in Nat /\ DOMAIN old = {}
      /\ length = Cardinality(UsedIn(slots)) + 1 /\ Cardinality(UsedIn(slots)) < capacity
      /\ Tight(slots, capacity, h) /\ Loose(slots, capacity, h) /\ ~Full(slots, h)
  BY <1>1 DEF IInv, TypeOK, MoveInv, Moving, LengthInv, TableInv
<1> DEFINE n == Nx(h, capacity)
<1>4. n \in Index(capacity) /\ n # h
  BY <1>2, NxIs
<1>5. CASE /\ ~IsEmpty(n) /\ slots[n].dib > 0
           /\ slots' = [slots EXCEPT ![h] = [slots[n] EXCEPT !.dib = @ - 1], ![n] = Vacant]
           /\ h' = n /\ UNCHANGED <<length, pc>>
  <2> DEFINE e == [slots[n] EXCEPT !.dib = @ - 1]
  <2>1. slots[n] \in Entry /\ Vacant \in Entry
    BY <1>2, <1>4 DEF Vacant, Entry
  <2>2. e \in Entry /\ e.key = slots[n].key /\ e.val = slots[n].val /\ e.dib = slots[n].dib - 1
    BY <1>5, <2>1 DEF Entry
  <2>3. slots' = [slots EXCEPT ![h] = e, ![n] = Vacant]
    BY <1>5
  <2> HIDE DEF e
  <2>4. /\ slots' \in [Index(capacity) -> Entry] /\ slots'[h] = e /\ slots'[n] = Vacant
        /\ \A s \in Index(capacity) \ {h, n} : slots'[s] = slots[s]
    <3> HIDE DEF n
    <3> QED
      BY <1>2, <1>4, <2>1, <2>2, <2>3
  <2>5. Full(slots, n)
    BY <1>5 DEF IsEmpty, Full
  <2>6. /\ Sound(hash, slots', capacity) /\ Tight(slots', capacity, n)
        /\ Loose(slots', capacity, n) /\ ~Full(slots', n) /\ Full(slots', h)
    <3>1. /\ slots'[h].key = slots[n].key /\ slots'[h].val = slots[n].val
          /\ slots'[h].dib = slots[n].dib - 1 /\ slots[n].dib > 0
      BY <1>5, <2>2, <2>4
    <3> DEFINE u == slots'
               c == capacity
               x == h
    <3>2. /\ c \in Nat \ {0, 1} /\ hash \in [Keys -> Nat] /\ x \in Index(c)
          /\ Sound(hash, slots, c) /\ Tight(slots, c, x) /\ Loose(slots, c, x) /\ ~Full(slots, x)
          /\ Full(slots, Nx(x, c)) /\ slots[Nx(x, c)].dib > 0
          /\ u \in [Index(c) -> Entry]
          /\ u[x].key = slots[Nx(x, c)].key /\ u[x].val = slots[Nx(x, c)].val
          /\ u[x].dib = slots[Nx(x, c)].dib - 1 /\ u[Nx(x, c)] = Vacant
          /\ \A s \in Index(c) \ {x, Nx(x, c)} : u[s] = slots[s]
      BY <1>2, <1>3, <2>4, <2>5, <3>1
    <3>3. n = Nx(x, c)
      OBVIOUS
    <3> HIDE DEF n, u, c, x
    <3>4. /\ Sound(hash, u, c) /\ Tight(u, c, Nx(x, c)) /\ Loose(u, c, Nx(x, c))
          /\ ~Full(u, Nx(x, c)) /\ Full(u, x)
      BY <3>2, ShiftFits
    <3>5. /\ Sound(hash, u, c) /\ Tight(u, c, n) /\ Loose(u, c, n)
          /\ ~Full(u, n) /\ Full(u, x)
      BY <3>3, <3>4
    <3> QED
      BY <3>5 DEF u, c, x
  <2>7. Distinct(slots', capacity)
    <3> DEFINE back(s) == IF s = h THEN n ELSE s
    <3>1. ASSUME NEW s \in Index(capacity), Full(slots', s)
          PROVE  /\ back(s) \in Index(capacity) /\ s # n
                 /\ slots'[s].key = slots[back(s)].key /\ Full(slots, back(s))
      <4>1. s # n
        BY <2>6, <3>1
      <4>2. slots'[s].key = slots[back(s)].key
        BY <2>2, <2>4, <4>1
      <4> QED
        BY <1>4, <3>1, <4>1, <4>2 DEF Full
    <3> QED
      BY <1>2, <3>1 DEF Distinct
  <2>8. Cardinality(UsedIn(slots')) = Cardinality(UsedIn(slots))
    <3> DEFINE U == UsedIn(slots)
               V == UsedIn(slots')
    <3>1. DOMAIN slots' = Index(capacity)
      BY <2>4
    <3>2. IsFiniteSet(U) /\ IsFiniteSet(V) /\ Cardinality(U) \in Nat /\ Cardinality(V) \in Nat
      BY <1>2, <3>1, UsedFinite, FS_CardinalityType
    <3>3. U \ {n} = V \ {h} /\ n \in U /\ h \in V
      BY <1>2, <1>3, <1>4, <2>4, <2>5, <2>6, <3>1 DEF UsedIn, Full
    <3> HIDE DEF U, V
    <3>4. Cardinality(U \ {n}) = Cardinality(U) - 1 /\ Cardinality(V \ {h}) = Cardinality(V) - 1
      BY <3>2, <3>3, FS_RemoveElement
    <3>5. Cardinality(U) - 1 = Cardinality(V) - 1
      BY <3>3, <3>4
    <3>6. Cardinality(U) = Cardinality(V)
      BY <3>2, <3>5
    <3> QED
      BY <3>6 DEF U, V
  <2>9. TypeOK'
    BY <1>1, <1>2, <1>3, <1>4, <1>5, <2>6, TableTypes
  <2>10. TableInv' /\ LengthInv' /\ NullInv' /\ PutInv' /\ ArgInv' /\ MoveInv'
    BY <1>1, <1>2, <1>3, <1>5, <2>6, <2>7, <2>8
       DEF TableInv, LengthInv, NullInv, PutInv, ArgInv, MoveInv, Moving, ReinsertInv
  <2> QED
    BY <1>1, <1>3, <2>9, <2>10 DEF IInv
<1>6. CASE /\ IsEmpty(n) \/ slots[n].dib = 0
           /\ length' = length - 1 /\ pc' = "idle" /\ UNCHANGED <<slots, h>>
  <2>1. Tight(slots, capacity, -1)
    <3>1. ~Full(slots, Nx(h, capacity)) \/ slots[Nx(h, capacity)].dib = 0
      BY <1>6 DEF IsEmpty, Full
    <3> QED
      BY <1>2, <1>3, <3>1, ShiftEnds
  <2>2. length' = Cardinality(UsedIn(slots))
    BY <1>2, <1>3, <1>6
  <2> QED
    BY <1>1, <1>2, <1>3, <1>6, <2>1, <2>2, CallEnds
<1> QED
  BY <1>2, <1>5, <1>6 DEF Shift

LEMMA StutterInv == ASSUME IInv, UNCHANGED vars PROVE IInv'
BY DEF vars, IInv, TypeOK, NullInv, TableInv, LengthInv, ArgInv, PutInv, MoveInv, Moving,
       LeftInv, RoomInv, ReinsertInv, Left

LEMMA NextInv == IInv /\ [Next]_vars => IInv'
BY NewInv, DeleteInv, PutNullInv, PutInvIs, PutProbeInv, RehashNextInv, ReinsertStepInv,
   RemoveInv, RemoveProbeInv, ShiftInv, StutterInv
   DEF Next, Loops

LEMMA Invariant == Spec => []IInv
BY InitInv, NextInv, PTL DEF Spec

-----------------------------------------------------------------------------
(* The entries *)

Pair(e)  == [key |-> e.key, val |-> e.val]
One(e)   == IF e.key # Empty THEN {Pair(e)} ELSE {}
Pairs(t) == {Pair(t[s]) : s \in UsedIn(t)}
InOld    == {Pair(old[s]) : s \in Left}
InHand   == IF pc = "reinsert" \/ (pc = "put" /\ carry.key # arg.key)
              THEN {Pair(carry)} ELSE {}

LEMMA HeldIs == Held = Pairs(slots) \cup InOld \cup InHand
BY DEF Held, Pairs, Pair, InOld, InHand, Left, Used, UsedIn, IsEmpty, Full

LEMMA HeldIsThen == Held' = Pairs(slots') \cup InOld' \cup InHand'
BY DEF Held, Pairs, Pair, InOld, InHand, Left, Used, UsedIn, IsEmpty, Full

Unique(H) == \A e, f \in H : e.key = f.key => e = f

LEMMA InPairs ==
  ASSUME NEW c, NEW t \in [Index(c) -> Entry], NEW e \in Pairs(t)
  PROVE  \E s \in Index(c) : Full(t, s) /\ t[s].key = e.key /\ e = Pair(t[s])
BY DEF Pairs, Pair, UsedIn

LEMMA NullHolds == ASSUME IInv, pc = "null" PROVE Held = {} /\ DOMAIN slots = {}
<1>1. DOMAIN slots = {} /\ Left = {}
  BY DEF IInv, TypeOK, NullInv, MoveInv, Moving, Left
<1>2. Pairs(slots) = {} /\ InOld = {} /\ InHand = {}
  BY <1>1 DEF Pairs, UsedIn, InOld, InHand
<1> QED
  BY <1>1, <1>2, HeldIs

LEMMA LeftIs ==
  ASSUME IInv
  PROVE  /\ \A s \in Left : /\ old[s].key \in Keys /\ old[s].val \in Values
                            /\ Absent(slots, capacity, old[s].key)
         /\ \A r, s \in Left : old[r].key = old[s].key => r = s
BY DEF IInv, MoveInv, LeftInv, Left

LEMMA HandIs ==
  ASSUME IInv, NEW e \in InHand
  PROVE  /\ e = Pair(carry) /\ e.key = carry.key /\ Carrying
         /\ Absent(slots, capacity, carry.key)
         /\ \A s \in Left : old[s].key # carry.key
<1>1. e = Pair(carry) /\ e.key = carry.key
      /\ (pc = "reinsert" \/ (pc = "put" /\ carry.key # arg.key))
  BY DEF InHand, Pair
<1>2. CASE pc = "reinsert"
  BY <1>1, <1>2 DEF IInv, MoveInv, ReinsertInv, Carrying
<1>3. CASE pc = "put" /\ carry.key # arg.key
  <2>1. Left = {}
    BY <1>3 DEF IInv, MoveInv, Moving, Left
  <2> QED
    BY <1>1, <1>3, <2>1 DEF IInv, PutInv, Carrying
<1> QED
  BY <1>1, <1>2, <1>3

LEMMA HeldUnique == ASSUME IInv PROVE Unique(Held)
<1>1. CASE pc = "null"
  BY <1>1, NullHolds DEF Unique
<1>2. CASE pc # "null"
  <2>1. slots \in [Index(capacity) -> Entry] /\ Distinct(slots, capacity)
    BY <1>2, Facts
  <2>2. ASSUME NEW e \in Pairs(slots), NEW f \in Pairs(slots), e.key = f.key PROVE e = f
    BY <2>1, <2>2, InPairs DEF Distinct
  <2>3. ASSUME NEW e \in InOld, NEW f \in InOld, e.key = f.key PROVE e = f
    BY <2>3, LeftIs DEF InOld, Pair
  <2>4. ASSUME NEW e \in InHand, NEW f \in InHand PROVE e = f
    BY <2>4, HandIs
  <2>5. ASSUME NEW e \in Pairs(slots), NEW f \in InOld PROVE e.key # f.key
    BY <2>1, LeftIs, InPairs DEF InOld, Pair, Absent
  <2>6. ASSUME NEW e \in Pairs(slots), NEW f \in InHand PROVE e.key # f.key
    BY <2>1, HandIs, InPairs DEF Absent
  <2>7. ASSUME NEW e \in InOld, NEW f \in InHand PROVE e.key # f.key
    BY HandIs DEF InOld, Pair
  <2> QED
    BY <2>2, <2>3, <2>4, <2>5, <2>6, <2>7, HeldIs DEF Unique
<1> QED
  BY <1>1, <1>2

LEMMA SoundNow == ASSUME IInv PROVE TableSound
<1>1. TypeOK
  BY DEF IInv
<1>2. KeysUnique
  BY HeldUnique DEF KeysUnique, Unique
<1>3. Used = UsedIn(slots)
  BY DEF Used, UsedIn, IsEmpty, Full
<1>4. DibExact
  <2>1. CASE pc = "null"
    BY <2>1, NullHolds DEF DibExact, Used
  <2>2. CASE pc # "null"
    <3>1. /\ hash \in [Keys -> Nat] /\ capacity \in Nat \ {0, 1}
          /\ DOMAIN slots = Index(capacity) /\ Sound(hash, slots, capacity)
      BY <2>2, Facts
    <3> SUFFICES ASSUME NEW s \in Used
                 PROVE  slots[s].dib = (s - Home(slots[s].key, capacity)) % capacity
      BY DEF DibExact
    <3>2. s \in Index(capacity) /\ slots[s].key \in Keys
          /\ slots[s].dib = Gap(HomeIn(hash, slots[s].key, capacity), s, capacity)
      BY <1>3, <3>1 DEF Sound, UsedIn
    <3>3. HomeIn(hash, slots[s].key, capacity) \in Index(capacity)
      BY <3>1, <3>2, HomeIs
    <3>4. slots[s].dib = (s - HomeIn(hash, slots[s].key, capacity)) % capacity
      BY <3>1, <3>2, <3>3, GapIsMod
    <3> QED
      BY <3>4 DEF Home, HomeIn
  <2> QED
    BY <2>1, <2>2
<1>5. LengthExact
  BY <1>3 DEF IInv, LengthInv, TableInv, LengthExact
<1> QED
  BY <1>1, <1>2, <1>4, <1>5 DEF TableSound

(* In every iteration of every loop of put, rh_rehash and remove, for any   *)
(* hash function: no key is held twice, each dib is the distance to the     *)
(* home slot, length counts the entries, and one slot is always free.       *)
THEOREM TableStaysSound == Spec => []TableSound
BY Invariant, SoundNow, PTL

-----------------------------------------------------------------------------
(* get and contains *)

(* The d-th slot of the probe for k, counted from its home. *)
LEMMA AtIs ==
  ASSUME IInv, pc # "null", NEW k \in Keys, NEW s \in Index(capacity)
  PROVE  At(k, Gap(HomeIn(hash, k, capacity), s, capacity)) = s
<1> DEFINE a == HomeIn(hash, k, capacity)
           g == Gap(a, s, capacity)
<1>1. capacity \in Nat \ {0, 1} /\ a \in Index(capacity)
  BY Facts, HomeIs
<1>2. At(k, g) = (a + g) % capacity
  BY DEF At, Home, HomeIn
<1>3. g = Gap(a, s, capacity) /\ (At(k, g) = s => At(k, Gap(HomeIn(hash, k, capacity), s, capacity)) = s)
  OBVIOUS
<1> HIDE DEF a, g
<1>4. ASSUME s >= a PROVE At(k, g) = s
  <2>1. a + g = s /\ s \in 0 .. capacity - 1
    BY <1>3, <1>1, <1>4 DEF Gap, Index
  <2>2. \A n \in 0 .. capacity - 1 : n % capacity = n
    BY <1>1
  <2> QED
    BY <1>2, <2>1, <2>2
<1>5. ASSUME s < a PROVE At(k, g) = s
  <2>1. a + g = s + capacity /\ s \in 0 .. capacity - 1
    BY <1>3, <1>1, <1>5 DEF Gap, Index
  <2>2. \A n \in 0 .. capacity - 1 : (n + capacity) % capacity = n
    BY <1>1
  <2> QED
    BY <1>2, <2>1, <2>2
<1> QED
  BY <1>3, <1>1, <1>4, <1>5 DEF Index

LEMMA AtSlot ==
  ASSUME IInv, pc # "null", NEW k \in Keys, NEW d \in Nat
  PROVE  At(k, d) \in Index(capacity)
<1>1. capacity \in Nat \ {0, 1} /\ HomeIn(hash, k, capacity) \in Index(capacity)
  BY Facts, HomeIs
<1>2. At(k, d) = (HomeIn(hash, k, capacity) + d) % capacity
  BY DEF At, Home, HomeIn
<1>3. HomeIn(hash, k, capacity) + d \in Nat
  BY <1>1 DEF Index
<1>4. \A n \in Nat : n % capacity \in 0 .. capacity - 1
  BY <1>1
<1> QED
  BY <1>2, <1>3, <1>4 DEF Index

(* A key in a slot is hit there, and nothing in front of it ends the probe. *)
LEMMA ProbeIs ==
  ASSUME IInv, pc # "null", pc # "shift", NEW k \in Keys,
         NEW s \in Index(capacity), slots[s].key = k
  PROVE  /\ slots[s].dib \in 0 .. capacity /\ Probe(k, slots[s].dib)
         /\ At(k, slots[s].dib) = s
<1> DEFINE a == HomeIn(hash, k, capacity)
           d == slots[s].dib
<1>1. /\ hash \in [Keys -> Nat] /\ capacity \in Nat \ {0, 1}
      /\ Sound(hash, slots, capacity) /\ Tight(slots, capacity, -1)
      /\ Distinct(slots, capacity) /\ \A r : IsEmpty(r) <=> ~Full(slots, r)
  BY Facts
<1>2. Full(slots, s) /\ d = Gap(a, s, capacity) /\ a \in Index(capacity)
  BY <1>1, HomeIs, RobinHoodAssumption DEF Full, Sound
<1>3. d \in Index(capacity)
  BY <1>1, <1>2, GapIs
<1>4. At(k, d) = s
  BY <1>2, AtIs
<1>5. ASSUME NEW e \in Nat, e <= d PROVE ~Stops(k, e)
  <2>1. PICK r \in Index(capacity) : Gap(a, r, capacity) = e
    <3> DEFINE r == IF a + e >= capacity THEN a + e - capacity ELSE a + e
    <3>1. r \in Index(capacity) /\ Gap(a, r, capacity) = e
      BY <1>1, <1>2, <1>3, <1>5 DEF Gap, Index
    <3> QED
      BY <3>1
  <2>2. At(k, e) = r
    BY <2>1, AtIs
  <2>3. Full(slots, r) /\ slots[r].dib >= e
    BY <1>1, <1>2, <1>5, <2>1, Below
  <2>4. slots[r].dib \in Nat
    BY <1>1 DEF Sound, Entry
  <2> QED
    BY <1>1, <2>2, <2>3, <2>4 DEF Stops
<1>6. ASSUME NEW e \in 0 .. d - 1 PROVE ~Hits(k, e)
  <2>1. At(k, e) \in Index(capacity) /\ e \in Nat
    BY <1>3, AtSlot DEF Index
  <2> SUFFICES ASSUME Hits(k, e) PROVE FALSE
    OBVIOUS
  <2>2. slots[At(k, e)].key = k /\ Full(slots, At(k, e))
    BY RobinHoodAssumption DEF Hits, Full
  <2>3. At(k, e) = s
    BY <1>1, <1>2, <2>1, <2>2 DEF Distinct
  <2>4. At(k, e) = (a + e) % capacity /\ e < d /\ d \in 0 .. capacity - 1
    BY <1>3 DEF At, Home, HomeIn, Index
  <2>5. PICK r \in Index(capacity) : Gap(a, r, capacity) = e
    <3> DEFINE r == IF a + e >= capacity THEN a + e - capacity ELSE a + e
    <3>1. r \in Index(capacity) /\ Gap(a, r, capacity) = e
      BY <1>1, <1>2, <1>3, <2>1, <2>4 DEF Gap, Index
    <3> QED
      BY <3>1
  <2>6. At(k, e) = r
    BY <2>5, AtIs
  <2> QED
    BY <1>2, <2>3, <2>4, <2>5, <2>6, <1>3 DEF Index
<1>7. Probe(k, d)
  <2>1. Hits(k, d)
    BY <1>3, <1>4, <1>5 DEF Hits, Index
  <2> QED
    BY <1>3, <1>5, <1>6, <2>1 DEF Probe, Index
<1> QED
  BY <1>1, <1>3, <1>4, <1>7 DEF Index

LEMMA FindsNow == ASSUME IInv PROVE FindsExactly
<1> SUFFICES ASSUME pc \in {"null", "idle"}, NEW k \in Keys
             PROVE  /\ contains(k) <=> k \in DOMAIN Content
                    /\ contains(k) => get(k) = Content[k]
  BY DEF FindsExactly
<1>1. DOMAIN Content = {e.key : e \in Held}
  BY DEF Content
<1>2. CASE pc = "null"
  BY <1>1, <1>2, NullHolds DEF contains
<1>3. CASE pc = "idle"
  <2>1. /\ slots \in [Index(capacity) -> Entry] /\ Distinct(slots, capacity)
        /\ capacity \in Nat \ {0, 1}
    BY <1>3, Facts
  <2>2. Held = Pairs(slots)
    <3>1. Left = {} /\ InHand = {}
      BY <1>3 DEF IInv, MoveInv, Moving, Left, InHand
    <3> QED
      BY <3>1, HeldIs DEF InOld
  <2>3. ASSUME NEW d \in 0 .. capacity, Probe(k, d)
        PROVE  At(k, d) \in Index(capacity) /\ slots[At(k, d)].key = k
    BY <1>3, <2>1, <2>3, AtSlot DEF Probe, Hits
  <2>4. ASSUME NEW s \in Index(capacity), slots[s].key = k
        PROVE  contains(k) /\ k \in DOMAIN Content /\ get(k) = Content[k]
    <3>1. slots[s].dib \in 0 .. capacity /\ Probe(k, slots[s].dib)
      BY <1>3, <2>4, ProbeIs
    <3> DEFINE d == CHOOSE x \in 0 .. capacity : Probe(k, x)
    <3>2. d \in 0 .. capacity /\ Probe(k, d)
      BY <3>1
    <3>3. get(k) = slots[At(k, d)].val
      BY DEF get
    <3> HIDE DEF d
    <3>4. At(k, d) = s
      <4>1. At(k, d) \in Index(capacity) /\ slots[At(k, d)].key = k
        BY <2>3, <3>2
      <4> QED
        BY <2>1, <2>4, <4>1, RobinHoodAssumption DEF Distinct, Full
    <3>5. Pair(slots[s]) \in Held /\ Pair(slots[s]).key = k /\ Pair(slots[s]).val = slots[s].val
      BY <2>1, <2>2, <2>4, RobinHoodAssumption DEF Pairs, UsedIn, Full, Pair
    <3>6. (CHOOSE e \in Held : e.key = k) = Pair(slots[s])
      BY <3>5, HeldUnique DEF Unique
    <3>7. k \in DOMAIN Content /\ Content[k] = slots[s].val
      BY <1>1, <3>5, <3>6 DEF Content
    <3>8. contains(k)
      BY <1>3, <3>1 DEF contains
    <3> QED
      BY <3>3, <3>4, <3>7, <3>8
  <2>5. contains(k) => \E s \in Index(capacity) : slots[s].key = k
    BY <2>3 DEF contains
  <2>6. k \in DOMAIN Content => \E s \in Index(capacity) : slots[s].key = k
    BY <1>1, <2>1, <2>2, InPairs
  <2> QED
    BY <2>4, <2>5, <2>6
<1> QED
  BY <1>2, <1>3

(* Between calls, get and contains find every key that is in the table with *)
(* its own value, and no other key, for any hash function: the early end of *)
(* the probe hides no entry.                                                *)
THEOREM KeysAreFound == Spec => []FindsExactly
BY Invariant, FindsNow, PTL

-----------------------------------------------------------------------------
(* Refinement *)

MapOf(H) ==
  [k \in {e.key : e \in H} |-> (CHOOSE e \in H : e.key = k).val]

NoMap == [x \in {} |-> x]

PutIn(m, k, v)  == [x \in DOMAIN m \cup {k} |-> IF x = k THEN v ELSE m[x]]
WithoutIn(m, k) == [x \in DOMAIN m \ {k} |-> m[x]]

(* The entries whose key is not k, and these and the pair of k and v. *)
Apart(H, k)    == {e \in H : e.key # k}
With(H, k, v) == Apart(H, k) \cup {[key |-> k, val |-> v]}

LEMMA ContentIs == Content = MapOf(Held) /\ Content' = MapOf(Held')
BY DEF Content, MapOf

LEMMA MapOfAt ==
  ASSUME NEW H, Unique(H), NEW e \in H
  PROVE  e.key \in DOMAIN MapOf(H) /\ MapOf(H)[e.key] = e.val
<1>1. (CHOOSE f \in H : f.key = e.key) = e
  BY DEF Unique
<1>2. e.key \in {f.key : f \in H}
  OBVIOUS
<1> QED
  BY <1>1, <1>2 DEF MapOf

LEMMA MapOfIs ==
  ASSUME NEW H, Unique(H), NEW D, NEW f, f = [k \in D |-> f[k]],
         \A k \in D : \E e \in H : e.key = k,
         \A e \in H : e.key \in D /\ f[e.key] = e.val
  PROVE  MapOf(H) = f
<1>1. DOMAIN MapOf(H) = D
  BY DEF MapOf
<1>2. ASSUME NEW k \in D PROVE MapOf(H)[k] = f[k]
  BY MapOfAt
<1>3. MapOf(H) = [k \in D |-> MapOf(H)[k]]
  <2> DEFINE S == {e.key : e \in H}
             g(k) == (CHOOSE e \in H : e.key = k).val
  <2>1. MapOf(H) = [k \in S |-> g(k)]
    BY DEF MapOf
  <2> HIDE DEF S, g
  <2> QED
    BY <1>1, <2>1
<1> QED
  BY <1>2, <1>3

LEMMA MapOfWith ==
  ASSUME NEW H, NEW k, NEW v, Unique(H)
  PROVE  MapOf(With(H, k, v)) = PutIn(MapOf(H), k, v)
<1> DEFINE G == With(H, k, v)
           D == DOMAIN MapOf(H) \cup {k}
           f == [x \in D |-> IF x = k THEN v ELSE MapOf(H)[x]]
<1>1. Unique(G)
  BY DEF Unique, With, Apart
<1>2. DOMAIN MapOf(H) = {e.key : e \in H}
  BY DEF MapOf
<1>3. ASSUME NEW x \in D PROVE \E e \in G : e.key = x
  <2>1. CASE x = k
    <3>1. [key |-> k, val |-> v] \in G /\ [key |-> k, val |-> v].key = x
      BY <2>1 DEF With
    <3> QED
      BY <3>1
  <2>2. CASE x # k
    BY <1>2, <2>2 DEF With, Apart
  <2> QED
    BY <2>1, <2>2
<1>4. ASSUME NEW e \in G PROVE e.key \in D /\ f[e.key] = e.val
  <2>1. CASE e = [key |-> k, val |-> v]
    BY <2>1
  <2>2. CASE e \in Apart(H, k)
    BY <2>2, MapOfAt DEF Apart
  <2> QED
    BY <2>1, <2>2 DEF With
<1>5. f = [x \in D |-> f[x]]
  OBVIOUS
<1> HIDE DEF G, D, f
<1>6. MapOf(G) = f
  BY <1>1, <1>3, <1>4, <1>5, MapOfIs
<1> QED
  BY <1>6 DEF G, D, f, PutIn

LEMMA MapOfApart ==
  ASSUME NEW H, NEW k, Unique(H)
  PROVE  MapOf(Apart(H, k)) = WithoutIn(MapOf(H), k)
<1> DEFINE G == Apart(H, k)
           D == DOMAIN MapOf(H) \ {k}
           f == [x \in D |-> MapOf(H)[x]]
<1>1. Unique(G)
  BY DEF Unique, Apart
<1>2. DOMAIN MapOf(H) = {e.key : e \in H}
  BY DEF MapOf
<1>3. ASSUME NEW x \in D PROVE \E e \in G : e.key = x
  BY <1>2 DEF Apart
<1>4. ASSUME NEW e \in G PROVE e.key \in D /\ f[e.key] = e.val
  BY MapOfAt DEF Apart
<1>5. f = [x \in D |-> f[x]]
  OBVIOUS
<1> HIDE DEF G, D, f
<1>6. MapOf(G) = f
  BY <1>1, <1>3, <1>4, <1>5, MapOfIs
<1> QED
  BY <1>6 DEF G, D, f, WithoutIn

MapStep == Map!Next \/ UNCHANGED Content

LEMMA SameHeld == Held' = Held => MapStep
BY ContentIs DEF MapStep

LEMMA WithHeld ==
  ASSUME IInv, NEW k \in Keys, NEW v \in Values, Held' = With(Held, k, v) PROVE MapStep
<1>1. Content' = PutIn(Content, k, v)
  BY HeldUnique, MapOfWith, ContentIs
<1>2. Map!Put(k, v)
  BY <1>1 DEF Map!Put, PutIn
<1> QED
  BY <1>2 DEF MapStep, Map!Next

LEMMA ApartHeld ==
  ASSUME IInv, NEW k \in Keys, \E e \in Held : e.key = k, Held' = Apart(Held, k) PROVE MapStep
<1>1. Content' = WithoutIn(Content, k) /\ k \in DOMAIN Content
  BY HeldUnique, MapOfApart, MapOfAt, ContentIs
<1>2. Map!Remove(k)
  BY <1>1 DEF Map!Remove, Map!Without, WithoutIn
<1> QED
  BY <1>2 DEF MapStep, Map!Next

LEMMA NoneHeld == ASSUME Held' = {} PROVE MapStep
<1>1. Content' = NoMap
  BY ContentIs DEF MapOf, NoMap
<1> QED
  BY <1>1 DEF MapStep, Map!Next, Map!Clear, NoMap

(* The entries of a table, when slot s takes e. *)
LEMMA PairsStored ==
  ASSUME NEW c \in Nat, NEW t \in [Index(c) -> Entry], NEW u, NEW s \in Index(c), NEW e,
         Stored(t, u, c, s, e), Distinct(t, c)
  PROVE  /\ Pairs(u) = Apart(Pairs(t), t[s].key) \cup One(e)
         /\ Pairs(t) = Apart(Pairs(t), t[s].key) \cup One(t[s])
<1>1. DOMAIN u = Index(c) /\ DOMAIN t = Index(c) /\ u[s] = e
      /\ \A r \in Index(c) : r # s => u[r] = t[r]
  BY DEF Stored
<1>2. ASSUME NEW p \in Pairs(u) PROVE p \in Apart(Pairs(t), t[s].key) \cup One(e)
  <2>1. PICK r \in Index(c) : Full(u, r) /\ p = Pair(u[r])
    BY <1>1 DEF Pairs, UsedIn
  <2>2. CASE r = s
    BY <1>1, <2>1, <2>2 DEF One, Full
  <2>3. CASE r # s
    <3>1. Full(t, r) /\ p = Pair(t[r]) /\ t[r].key # t[s].key
      BY <1>1, <2>1, <2>3 DEF Full, Distinct
    <3> QED
      BY <1>1, <3>1 DEF Apart, Pairs, Pair, UsedIn
  <2> QED
    BY <2>2, <2>3
<1>3. ASSUME NEW p \in Apart(Pairs(t), t[s].key) PROVE p \in Pairs(u)
  <2>1. PICK r \in Index(c) : Full(t, r) /\ p = Pair(t[r]) /\ t[r].key # t[s].key
    BY <1>1 DEF Apart, Pairs, Pair, UsedIn
  <2>2. u[r] = t[r]
    BY <1>1, <2>1
  <2> QED
    BY <1>1, <2>1, <2>2 DEF Pairs, UsedIn, Full
<1>4. ASSUME NEW p \in One(e) PROVE p \in Pairs(u)
  BY <1>1, <1>4 DEF One, Pairs, UsedIn, Full
<1>5. ASSUME NEW p \in Pairs(t) PROVE p \in Apart(Pairs(t), t[s].key) \cup One(t[s])
  <2>1. PICK r \in Index(c) : Full(t, r) /\ p = Pair(t[r])
    BY <1>1 DEF Pairs, UsedIn
  <2>2. CASE r = s
    BY <2>1, <2>2 DEF One, Full
  <2>3. CASE r # s
    BY <2>1, <2>3 DEF Apart, Pair, Distinct, Full
  <2> QED
    BY <2>2, <2>3
<1>6. ASSUME NEW p \in One(t[s]) PROVE p \in Pairs(t)
  BY <1>1 DEF One, Pairs, UsedIn, Full
<1> QED
  BY <1>2, <1>3, <1>4, <1>5, <1>6 DEF Apart

LEMMA AbsentApart ==
  ASSUME IInv, pc # "null", NEW k, Absent(slots, capacity, k)
  PROVE  Apart(Pairs(slots), k) = Pairs(slots)
<1>1. slots \in [Index(capacity) -> Entry]
  BY Facts
<1> QED
  BY <1>1, InPairs DEF Apart, Absent

LEMMA PlacePairs ==
  ASSUME IInv, Carrying, Place
  PROVE  Pairs(slots') = Pairs(slots) \cup {Pair(carry)}
<1>1. /\ capacity \in Nat /\ slots \in [Index(capacity) -> Entry] /\ h \in Index(capacity)
      /\ Distinct(slots, capacity)
  BY Facts DEF Carrying
<1>2. Stored(slots, slots', capacity, h, AsEntry(carry))
  BY PlaceFacts
<1>3. slots[h].key = Empty
  BY DEF Place, IsEmpty
<1>4. One(AsEntry(carry)) = {Pair(carry)}
  BY CarryFits, RobinHoodAssumption DEF One, AsEntry, Pair
<1>5. One(slots[h]) = {}
  BY <1>3 DEF One
<1>6. /\ Pairs(slots') = Apart(Pairs(slots), slots[h].key) \cup One(AsEntry(carry))
      /\ Pairs(slots) = Apart(Pairs(slots), slots[h].key) \cup One(slots[h])
  BY <1>1, <1>2, PairsStored
<1> QED
  BY <1>4, <1>5, <1>6

LEMMA EvictPairs ==
  ASSUME IInv, Carrying, Evicts
  PROVE  Pairs(slots') \cup {Pair(carry')} = Pairs(slots) \cup {Pair(carry)}
<1>1. /\ capacity \in Nat /\ slots \in [Index(capacity) -> Entry] /\ h \in Index(capacity)
      /\ Distinct(slots, capacity)
  BY Facts DEF Carrying
<1>2. /\ Stored(slots, slots', capacity, h, AsEntry(carry))
      /\ carry'.key = slots[h].key /\ carry'.val = slots[h].val
  BY EvictFacts
<1>3. slots[h].key # Empty
  BY DEF Evicts, IsEmpty
<1>4. One(AsEntry(carry)) = {Pair(carry)}
  BY CarryFits, RobinHoodAssumption DEF One, AsEntry, Pair
<1>5. One(slots[h]) = {Pair(carry')}
  BY <1>2, <1>3 DEF One, Pair
<1>6. /\ Pairs(slots') = Apart(Pairs(slots), slots[h].key) \cup One(AsEntry(carry))
      /\ Pairs(slots) = Apart(Pairs(slots), slots[h].key) \cup One(slots[h])
  BY <1>1, <1>2, PairsStored
<1> QED
  BY <1>4, <1>5, <1>6

(* A step of put changes the map when the new entry enters the table, and   *)
(* no other time: what it moves on the way stays held.                      *)
LEMMA PutProbeHeld == ASSUME IInv, PutProbe PROVE MapStep
<1>1. pc = "put" /\ Carrying /\ UNCHANGED <<capacity, old, i, arg>>
  BY DEF PutProbe, Carrying
<1>2. /\ capacity \in Nat /\ slots \in [Index(capacity) -> Entry] /\ h \in Index(capacity)
      /\ Distinct(slots, capacity) /\ carry.key \in Keys /\ carry.val \in Values
  BY <1>1, Facts, CarryFits
<1>3. InOld = {} /\ InOld' = {}
  BY <1>1 DEF IInv, MoveInv, Moving, InOld, Left
<1> DEFINE E == Pairs(slots)
           mine == carry.key = arg.key
<1>4. (mine => Held = E) /\ (~mine => Held = E \cup {Pair(carry)})
  BY <1>1, <1>3, HeldIs DEF InHand
<1>5. ~mine => Absent(slots, capacity, carry.key) /\ Trail(slots, capacity, arg.key, h)
  BY <1>1 DEF IInv, PutInv
<1>6. ASSUME Absent(slots, capacity, carry.key), Held' = E \cup {Pair(carry)} PROVE MapStep
  <2>1. CASE mine
    <3>1. Held' = With(Held, carry.key, carry.val)
      BY <1>1, <1>4, <1>6, <2>1, AbsentApart DEF With, Pair
    <3> QED
      BY <1>2, <3>1, WithHeld
  <2>2. CASE ~mine
    BY <1>4, <1>6, <2>2, SameHeld
  <2> QED
    BY <2>1, <2>2
<1>7. CASE Place /\ pc' = "idle"
  <2>1. InHand' = {}
    BY <1>7 DEF InHand
  <2>2. Held' = E \cup {Pair(carry)}
    BY <1>1, <1>3, <1>7, <2>1, PlacePairs, HeldIsThen
  <2> QED
    BY <1>1, <1>6, <1>7, <2>2, CarryAbsent DEF Place
<1>8. CASE /\ ~IsEmpty(h) /\ slots[h].key = carry.key
           /\ slots' = [slots EXCEPT ![h].val = carry.val] /\ pc' = "idle"
  <2> DEFINE e == [slots[h] EXCEPT !.val = carry.val]
  <2>1. slots[h] \in Entry
    BY <1>2
  <2>2. e \in Entry /\ e.key = carry.key /\ e.val = carry.val
    BY <1>2, <1>8, <2>1 DEF Entry
  <2>3. slots' = [slots EXCEPT ![h] = e]
    BY <1>8
  <2> HIDE DEF e
  <2>4. Stored(slots, slots', capacity, h, e)
    BY <1>2, <2>2, <2>3, StoredExcept
  <2>5. Pairs(slots') = Apart(E, slots[h].key) \cup One(e)
    BY <1>2, <2>4, PairsStored
  <2>6. One(e) = {[key |-> carry.key, val |-> carry.val]}
    BY <1>2, <2>2, RobinHoodAssumption DEF One, Pair
  <2>7. InHand' = {}
    BY <1>8 DEF InHand
  <2>8. mine
    BY <1>2, <1>5, <1>8 DEF Absent
  <2>9. Held' = With(Held, carry.key, carry.val)
    BY <1>3, <1>4, <1>8, <2>5, <2>6, <2>7, <2>8, HeldIsThen DEF With
  <2> QED
    BY <1>2, <2>9, WithHeld
<1>9. CASE Passes /\ UNCHANGED pc
  <2>1. carry'.key = carry.key /\ carry'.val = carry.val /\ slots' = slots
    BY <1>1, <1>9, PassFacts DEF Passes
  <2>2. InHand' = InHand
    BY <1>1, <1>9, <2>1 DEF InHand, Pair
  <2>3. Held' = Held
    BY <1>3, <2>1, <2>2, HeldIs, HeldIsThen
  <2> QED
    BY <2>3, SameHeld
<1>10. CASE Evicts /\ UNCHANGED pc
  <2>1. carry'.key = slots[h].key /\ carry'.key # carry.key /\ Full(slots, h)
    BY <1>1, <1>10, EvictFacts DEF Evicts, IsEmpty, Full
  <2>2. Absent(slots, capacity, carry.key)
    BY <1>1, <1>10, CarryAbsent DEF Evicts
  <2>3. carry'.key # arg.key
    <3>1. CASE mine
      BY <2>1, <3>1
    <3>2. CASE ~mine
      <4>1. PICK a \in Index(capacity) : a # h /\ Full(slots, a) /\ slots[a].key = arg.key
        BY <1>5, <3>2 DEF Trail
      <4> QED
        BY <1>2, <2>1, <4>1 DEF Distinct
    <3> QED
      BY <3>1, <3>2
  <2>4. InHand' = {Pair(carry')}
    BY <1>1, <1>10, <2>3 DEF InHand
  <2>5. Held' = E \cup {Pair(carry)}
    BY <1>1, <1>3, <1>10, <2>4, EvictPairs, HeldIsThen
  <2> QED
    BY <1>6, <2>2, <2>5
<1> QED
  BY <1>7, <1>8, <1>9, <1>10, PassOrEvict DEF PutProbe

(* A rebuild leaves the map as it is. *)
LEMMA ReinsertHeld == ASSUME IInv, Reinsert PROVE MapStep
<1>1. pc = "reinsert" /\ Carrying /\ UNCHANGED <<old, i, arg>>
  BY DEF Reinsert, Carrying
<1>2. InOld' = InOld /\ InHand = {Pair(carry)}
  BY <1>1 DEF InOld, Left, InHand
<1>3. CASE Place /\ pc' = "rehash"
  <2>1. InHand' = {}
    BY <1>3 DEF InHand
  <2> QED
    BY <1>1, <1>2, <1>3, <2>1, PlacePairs, HeldIs, HeldIsThen, SameHeld
<1>4. CASE Passes /\ UNCHANGED pc
  <2>1. carry'.key = carry.key /\ carry'.val = carry.val /\ slots' = slots
    BY <1>1, <1>4, PassFacts DEF Passes
  <2>2. InHand' = InHand
    BY <1>1, <1>4, <2>1 DEF InHand, Pair
  <2> QED
    BY <1>2, <2>1, <2>2, HeldIs, HeldIsThen, SameHeld
<1>5. CASE Evicts /\ UNCHANGED pc
  <2>1. InHand' = {Pair(carry')}
    BY <1>1, <1>5 DEF InHand
  <2>2. Held' = Held
    BY <1>1, <1>2, <1>5, <2>1, EvictPairs, HeldIs, HeldIsThen
  <2> QED
    BY <2>2, SameHeld
<1> QED
  BY <1>3, <1>4, <1>5, PassOrEvict DEF Reinsert

LEMMA RehashNextHeld == ASSUME IInv, RehashNext PROVE MapStep
<1>1. pc = "rehash" /\ UNCHANGED <<slots, arg>> /\ i \in Nat
  BY DEF RehashNext, IInv, TypeOK
<1>2. InHand = {}
  BY <1>1 DEF InHand
<1>3. PICK c \in Nat : DOMAIN old = Index(c) /\ i <= c
  BY <1>1 DEF IInv, MoveInv, Moving, RoomInv
<1>4. CASE i \in DOMAIN old /\ i' = i + 1 /\ old' = old
  <2>1. Left' = {s \in DOMAIN old : s >= i + 1 /\ old[s].key # Empty}
    BY <1>4 DEF Left
  <2>2. \A s \in DOMAIN old : s >= i <=> s = i \/ s >= i + 1
    BY <1>1, <1>3 DEF Index
  <2>3. CASE old[i].key = Empty
    <3>1. Left' = Left
      BY <2>1, <2>2, <2>3 DEF Left
    <3>2. UNCHANGED pc
      BY <1>4, <2>3 DEF RehashNext
    <3>3. InOld' = InOld /\ InHand' = {}
      BY <1>1, <1>4, <3>1, <3>2 DEF InOld, InHand
    <3> QED
      BY <1>1, <1>2, <3>3, HeldIs, HeldIsThen, SameHeld
  <2>4. CASE old[i].key # Empty
    <3>1. Left = Left' \cup {i}
      BY <1>4, <2>1, <2>2, <2>4 DEF Left
    <3>2. pc' = "reinsert" /\ carry' = Carried(old[i].key, old[i].val)
      BY <1>4, <2>4 DEF RehashNext, BeginProbe
    <3>3. InHand' = {Pair(old[i])}
      BY <3>2 DEF InHand, Carried, Pair
    <3>4. InOld = InOld' \cup {Pair(old[i])}
      BY <1>4, <3>1 DEF InOld
    <3> QED
      BY <1>1, <1>2, <3>3, <3>4, HeldIs, HeldIsThen, SameHeld
  <2> QED
    BY <2>3, <2>4
<1>5. CASE i \notin DOMAIN old /\ old' = Fresh(0) /\ pc' = "put"
           /\ BeginProbe(arg.key, arg.val, capacity)
  <2>1. Left = {}
    BY <1>1, <1>3, <1>5 DEF Left, Index
  <2>2. Left' = {}
    BY <1>5 DEF Left, Fresh
  <2>3. InHand' = {}
    BY <1>1, <1>5 DEF InHand, BeginProbe, Carried
  <2> QED
    BY <1>1, <1>2, <2>1, <2>2, <2>3, HeldIs, HeldIsThen, SameHeld DEF InOld
<1> QED
  BY <1>4, <1>5 DEF RehashNext

LEMMA FreshPairs == ASSUME NEW c PROVE Pairs(Fresh(c)) = {}
BY DEF Pairs, UsedIn, Full, Fresh, Vacant

LEMMA NoOld == ASSUME IInv, ~Moving, UNCHANGED <<old, i>> PROVE InOld = {} /\ InOld' = {}
BY DEF IInv, MoveInv, InOld, Left

LEMMA EmptyHeld ==
  ASSUME IInv, pc = "null", slots' = Fresh(InitialCapacity), InHand' = {}, UNCHANGED <<old, i>>
  PROVE  MapStep
<1>1. InOld' = {}
  BY NoOld DEF Moving
<1>2. Pairs(slots') = {}
  BY FreshPairs
<1> QED
  BY <1>1, <1>2, NullHolds, HeldIsThen, SameHeld

LEMMA NewHeld == ASSUME IInv, New PROVE MapStep
<1>1. InHand' = {}
  BY DEF New, InHand
<1> QED
  BY <1>1, EmptyHeld DEF New, Create

LEMMA PutNullHeld == ASSUME IInv, NEW k \in Keys, NEW v \in Values, PutNull(k, v) PROVE MapStep
<1>1. InHand' = {}
  BY DEF PutNull, BeginProbe, InHand
<1> QED
  BY <1>1, EmptyHeld DEF PutNull, Create

LEMMA DeleteHeld == ASSUME IInv, Delete PROVE MapStep
<1>1. InOld' = {}
  BY NoOld DEF Delete, Moving
<1>2. InHand' = {} /\ Pairs(slots') = {}
  BY FreshPairs DEF Delete, InHand
<1> QED
  BY <1>1, <1>2, HeldIsThen, NoneHeld

LEMMA RemoveHeld == ASSUME IInv, NEW k \in Keys, Remove(k) PROVE MapStep
<1>1. InOld = {} /\ InOld' = {}
  BY NoOld DEF Remove, Moving
<1>2. InHand = {} /\ InHand' = {} /\ slots' = slots
  BY DEF Remove, InHand
<1> QED
  BY <1>1, <1>2, HeldIs, HeldIsThen, SameHeld

LEMMA PutHeld == ASSUME IInv, NEW k \in Keys, NEW v \in Values, Put(k, v) PROVE MapStep
<1>1. pc = "idle" /\ InHand = {}
  BY DEF Put, InHand
<1>2. CASE pc' = "put" /\ BeginProbe(k, v, capacity) /\ UNCHANGED <<slots, old, i>>
  <2>1. InHand' = {}
    BY <1>2 DEF Put, InHand, BeginProbe
  <2>2. InOld = {} /\ InOld' = {}
    BY <1>1, <1>2, NoOld DEF Moving
  <2> QED
    BY <1>1, <1>2, <2>1, <2>2, HeldIs, HeldIsThen, SameHeld
<1>3. CASE pc' = "rehash" /\ slots' = Fresh(capacity') /\ old' = slots /\ i' = 0
  <2>1. InHand' = {} /\ Pairs(slots') = {}
    BY <1>3, FreshPairs DEF InHand
  <2>2. InOld = {}
    BY <1>1 DEF IInv, MoveInv, Moving, InOld, Left
  <2>3. DOMAIN slots = Index(capacity) /\ \A s \in Index(capacity) : s >= 0
    BY <1>1, Facts DEF Index
  <2>4. InOld' = Pairs(slots)
    BY <1>3, <2>3 DEF InOld, Left, Pairs, UsedIn, Full
  <2> QED
    BY <1>1, <2>1, <2>2, <2>4, HeldIs, HeldIsThen, SameHeld
<1> QED
  BY <1>2, <1>3 DEF Put

LEMMA RemoveProbeHeld == ASSUME IInv, RemoveProbe PROVE MapStep
<1>1. pc = "remove" /\ pc' \in {"idle", "remove", "shift"} /\ UNCHANGED <<capacity, old, i>>
  BY DEF RemoveProbe
<1>2. /\ capacity \in Nat /\ slots \in [Index(capacity) -> Entry] /\ h \in Index(capacity)
      /\ Distinct(slots, capacity) /\ Sound(hash, slots, capacity)
  BY <1>1, Facts
<1>3. InOld = {} /\ InOld' = {} /\ InHand = {} /\ InHand' = {}
  <2>1. InOld = {} /\ InOld' = {}
    BY <1>1, NoOld DEF Moving
  <2>2. InHand = {} /\ InHand' = {}
    BY <1>1 DEF InHand
  <2> QED
    BY <2>1, <2>2
<1>4. CASE slots' = slots
  BY <1>3, <1>4, HeldIs, HeldIsThen, SameHeld
<1>5. CASE ~IsEmpty(h) /\ slots' = [slots EXCEPT ![h] = Vacant]
  <2> DEFINE k == slots[h].key
  <2>1. Full(slots, h) /\ k \in Keys /\ Vacant \in Entry
    BY <1>2, <1>5 DEF IsEmpty, Full, Sound, Vacant, Entry
  <2>2. Stored(slots, slots', capacity, h, Vacant)
    BY <1>2, <1>5, <2>1, StoredExcept
  <2>3. Pairs(slots') = Apart(Pairs(slots), k) \cup One(Vacant)
    BY <1>2, <2>2, PairsStored
  <2>4. One(Vacant) = {}
    BY DEF One, Vacant
  <2>5. Held = Pairs(slots) /\ Held' = Apart(Held, k)
    BY <1>3, <2>3, <2>4, HeldIs, HeldIsThen
  <2>6. \E e \in Pairs(slots) : e.key = k
    <3>1. h \in UsedIn(slots)
      BY <1>2, <2>1 DEF UsedIn
    <3>2. Pair(slots[h]) \in Pairs(slots) /\ Pair(slots[h]).key = k
      BY <3>1 DEF Pairs, Pair
    <3> QED
      BY <3>2
  <2> QED
    BY <2>1, <2>5, <2>6, ApartHeld
<1> QED
  BY <1>4, <1>5 DEF RemoveProbe

LEMMA ShiftHeld == ASSUME IInv, Shift PROVE MapStep
<1>1. pc = "shift" /\ pc' \in {"idle", "shift"} /\ UNCHANGED <<capacity, old, i>>
  BY DEF Shift
<1>2. /\ capacity \in Nat \ {0, 1} /\ slots \in [Index(capacity) -> Entry]
      /\ h \in Index(capacity) /\ Succ(h) = Nx(h, capacity) /\ ~Full(slots, h)
  BY <1>1, Facts DEF IInv, TableInv
<1>3. InOld = {} /\ InOld' = {} /\ InHand = {} /\ InHand' = {}
  <2>1. InOld = {} /\ InOld' = {}
    BY <1>1, NoOld DEF Moving
  <2>2. InHand = {} /\ InHand' = {}
    BY <1>1 DEF InHand
  <2> QED
    BY <2>1, <2>2
<1>4. CASE slots' = slots
  BY <1>3, <1>4, HeldIs, HeldIsThen, SameHeld
<1> DEFINE n == Nx(h, capacity)
<1>5. n \in Index(capacity) /\ n # h
  BY <1>2, NxIs
<1>6. CASE /\ ~IsEmpty(n)
           /\ slots' = [slots EXCEPT ![h] = [slots[n] EXCEPT !.dib = @ - 1], ![n] = Vacant]
  <2> DEFINE e == [slots[n] EXCEPT !.dib = @ - 1]
  <2>1. Pair(e) = Pair(slots[n]) /\ e.key = slots[n].key
    <3>1. slots[n] \in Entry
      BY <1>2, <1>5
    <3> QED
      BY <3>1 DEF Entry, Pair
  <2>2. slots' = [slots EXCEPT ![h] = e, ![n] = Vacant]
    BY <1>6
  <2>3. Full(slots, n)
    BY <1>6 DEF IsEmpty, Full
  <2> HIDE DEF e, n
  <2>4. /\ DOMAIN slots' = Index(capacity) /\ DOMAIN slots = Index(capacity)
        /\ slots'[h] = e /\ slots'[n] = Vacant
        /\ \A s \in Index(capacity) \ {h, n} : slots'[s] = slots[s]
    BY <1>2, <1>5, <2>2
  <2>5. ASSUME NEW p \in Pairs(slots) PROVE p \in Pairs(slots')
    <3>1. PICK s \in Index(capacity) : Full(slots, s) /\ p = Pair(slots[s])
      BY <2>4 DEF Pairs, UsedIn
    <3>2. CASE s = n
      <4>1. Full(slots', h) /\ p = Pair(slots'[h])
        BY <2>1, <2>3, <2>4, <3>1, <3>2 DEF Full
      <4> QED
        BY <1>2, <2>4, <4>1 DEF Pairs, UsedIn
    <3>3. CASE s # n
      <4>1. s # h /\ slots'[s] = slots[s]
        BY <1>2, <2>4, <3>1, <3>3
      <4> QED
        BY <2>4, <3>1, <4>1 DEF Pairs, UsedIn, Full
    <3> QED
      BY <3>2, <3>3
  <2>6. ASSUME NEW p \in Pairs(slots') PROVE p \in Pairs(slots)
    <3>1. PICK s \in Index(capacity) : Full(slots', s) /\ p = Pair(slots'[s])
      BY <2>4 DEF Pairs, UsedIn
    <3>2. CASE s = h
      <4>1. p = Pair(slots[n])
        BY <2>1, <2>4, <3>1, <3>2
      <4> QED
        BY <1>5, <2>3, <2>4, <4>1 DEF Pairs, UsedIn
    <3>3. CASE s # h
      <4>1. s # n /\ slots'[s] = slots[s]
        BY <2>4, <3>1, <3>3 DEF Full, Vacant
      <4> QED
        BY <2>4, <3>1, <4>1 DEF Pairs, UsedIn, Full
    <3> QED
      BY <3>2, <3>3
  <2> QED
    BY <1>3, <2>5, <2>6, HeldIs, HeldIsThen, SameHeld
<1> QED
  BY <1>2, <1>4, <1>6 DEF Shift

LEMMA StutterHeld == ASSUME UNCHANGED vars PROVE MapStep
<1>1. Held' = Held
  BY DEF vars, Held, Used, IsEmpty
<1> QED
  BY <1>1, SameHeld

LEMMA NextHeld == IInv /\ [Next]_vars => MapStep
BY NewHeld, DeleteHeld, PutNullHeld, PutHeld, PutProbeHeld, RehashNextHeld, ReinsertHeld,
   RemoveHeld, RemoveProbeHeld, ShiftHeld, StutterHeld
   DEF Next, Loops

LEMMA InitMap == ASSUME Init PROVE Map!Init
<1>1. UsedIn(slots) = {} /\ Left = {} /\ InHand = {}
  BY DEF Init, UsedIn, Fresh, Left, InHand
<1>2. Held = {}
  BY <1>1, HeldIs DEF Pairs, InOld
<1>3. Content = NoMap
  BY <1>2, ContentIs DEF MapOf, NoMap
<1> QED
  BY <1>3 DEF Map!Init, NoMap

(* The table is a map, for any hash function: the steps that evict, shift   *)
(* back or rebuild change nothing, a put changes one key at one point, and  *)
(* a remove forgets one key.                                                *)
THEOREM Refinement == Spec => ImplementsMap
<1>1. Init => Map!Init
  BY InitMap
<1>2. IInv /\ [Next]_vars => [Map!Next]_Content
  BY NextHeld DEF MapStep
<1> QED
  BY <1>1, <1>2, Invariant, PTL DEF Spec, ImplementsMap, Map!Spec
=============================================================================
