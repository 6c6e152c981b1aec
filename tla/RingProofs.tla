----------------------------- MODULE RingProofs -----------------------------
(***************************************************************************)
(* What the functions of deques.c preserve: if the n elements of a deque   *)
(* are linked one after the other, in both directions, between the head    *)
(* and itself, they still are when one was added at the back or removed    *)
(* at an end.                                                              *)
(***************************************************************************)
EXTENDS Ring, Integers, Sequences, FiniteSetTheorems, SequenceTheorems, WellFoundedInduction,
        TLAPS

Rings(C) == [next : [C -> C], prev : [C -> C]]

(* f numbers the elements of the deque with head h from 1 to n, and the     *)
(* head itself 0 and n + 1.                                                 *)
Ordered(r, h, f, n) ==
  /\ f[0] = h /\ f[n + 1] = h
  /\ \A i \in 1 .. n : f[i] # h
  /\ \A i, j \in 1 .. n : f[i] = f[j] => i = j
  /\ \A i \in 0 .. n : r.next[f[i]] = f[i + 1] /\ r.prev[f[i + 1]] = f[i]

Numbering(C, n) == [0 .. n + 1 -> C]

Elements(f, n) == {f[i] : i \in 1 .. n}

-----------------------------------------------------------------------------
(* link_init of a head gives a deque without elements. *)
THEOREM InitOrdered ==
  ASSUME NEW C, NEW r \in Rings(C), NEW h \in C
  PROVE  /\ LinkInit(r, h) \in Rings(C)
         /\ \E f \in Numbering(C, 0) : Ordered(LinkInit(r, h), h, f, 0)
<1> DEFINE f == [i \in 0 .. 1 |-> h]
<1>1. LinkInit(r, h) \in Rings(C)
  BY DEF LinkInit, Rings
<1>2. f \in Numbering(C, 0)
  BY DEF Numbering
<1>3. Ordered(LinkInit(r, h), h, f, 0)
  BY DEF Ordered, LinkInit, Rings
<1> QED
  BY <1>1, <1>2, <1>3

(* deque_addback, of an element that is in no deque and that link_init has  *)
(* linked to itself: it becomes the last.                                   *)
THEOREM AddBackOrdered ==
  ASSUME NEW C, NEW r \in Rings(C), NEW h \in C, NEW n \in Nat,
         NEW f \in Numbering(C, n), Ordered(r, h, f, n),
         NEW e \in C, e # h, e \notin Elements(f, n)
  PROVE  LET s == AddBack(LinkInit(r, e), h, e) IN
         /\ s \in Rings(C)
         /\ \E g \in Numbering(C, n + 1) :
              /\ Ordered(s, h, g, n + 1)
              /\ Elements(g, n + 1) = Elements(f, n) \cup {e}
              /\ g[n + 1] = e /\ \A i \in 1 .. n : g[i] = f[i]
<1> DEFINE g == [i \in 0 .. n + 2 |-> IF i <= n THEN f[i] ELSE IF i = n + 1 THEN e ELSE h]
           s == AddBack(LinkInit(r, e), h, e)
<1>1. s \in Rings(C)
  BY DEF AddBack, LinkInit, Rings
<1>2. g \in Numbering(C, n + 1)
  BY DEF Numbering
<1>3. r.prev[h] = f[n] /\ f[n] \in C /\ f[n] # e
  BY DEF Ordered, Numbering, Elements
<1>4. /\ \A c \in C : s.next[c] = IF c = f[n] THEN e ELSE IF c = e THEN h ELSE r.next[c]
      /\ \A c \in C : s.prev[c] = IF c = h THEN e ELSE IF c = e THEN f[n] ELSE r.prev[c]
  BY <1>3 DEF AddBack, LinkInit, Rings
<1>5. /\ g[0] = h /\ g[n + 1] = e /\ g[n + 2] = h
      /\ \A i \in 0 .. n : g[i] = f[i] /\ f[i] \in C
  BY DEF Ordered, Numbering
<1>6. /\ \A i \in 1 .. n + 1 : g[i] # h
      /\ \A i, j \in 1 .. n + 1 : g[i] = g[j] => i = j
  BY <1>5 DEF Ordered, Elements
<1>7. ASSUME NEW i \in 0 .. n + 1
      PROVE  s.next[g[i]] = g[i + 1] /\ s.prev[g[i + 1]] = g[i]
  <2>1. CASE i < n
    <3>1. i + 1 \in 1 .. n /\ i \in 0 .. n
      BY <2>1
    <3>2. f[i] # e /\ f[i + 1] # e /\ f[i + 1] # h
      BY <3>1 DEF Ordered, Elements
    <3>3. f[i] # f[n]
      BY <3>1, <2>1 DEF Ordered
    <3>4. g[i] = f[i] /\ g[i + 1] = f[i + 1] /\ f[i] \in C /\ f[i + 1] \in C
      BY <3>1, <1>5
    <3> QED
      BY <3>1, <3>2, <3>3, <3>4, <1>4 DEF Ordered
  <2>2. CASE i = n
    BY <2>2, <1>3, <1>4, <1>5
  <2>3. CASE i = n + 1
    BY <2>3, <1>3, <1>4, <1>5
  <2> QED
    BY <2>1, <2>2, <2>3
<1>8. Elements(g, n + 1) = Elements(f, n) \cup {e}
  <2>1. \A i \in 1 .. n + 1 : i \in 1 .. n \/ i = n + 1
    OBVIOUS
  <2> QED
    BY <1>5, <2>1 DEF Elements
<1>9. Ordered(s, h, g, n + 1)
  <2> HIDE DEF g, s
  <2>1. (n + 1) + 1 = n + 2
    OBVIOUS
  <2> QED
    BY <1>5, <1>6, <1>7, <2>1 DEF Ordered
<1> QED
  BY <1>1, <1>2, <1>5, <1>8, <1>9

(* deque_deletefront, of a deque that is not empty: the first element goes, *)
(* and each of the others becomes the one before.                           *)
THEOREM DeleteFrontOrdered ==
  ASSUME NEW C, NEW r \in Rings(C), NEW h \in C, NEW n \in Nat \ {0},
         NEW f \in Numbering(C, n), Ordered(r, h, f, n)
  PROVE  LET s == DeleteFront(r, h)
             e == r.next[h] IN
         /\ s \in Rings(C)
         /\ e \in Elements(f, n) /\ e = f[1]
         /\ \E g \in Numbering(C, n - 1) :
              /\ Ordered(s, h, g, n - 1)
              /\ Elements(g, n - 1) = Elements(f, n) \ {e}
              /\ \A i \in 1 .. n - 1 : g[i] = f[i + 1]
<1> DEFINE g == [i \in 0 .. n |-> IF i = 0 THEN h ELSE f[i + 1]]
           s == DeleteFront(r, h)
           e == r.next[h]
<1>1. s \in Rings(C)
  BY DEF DeleteFront, Rings
<1>2. g \in Numbering(C, n - 1)
  BY DEF Numbering
<1>3. e = f[1] /\ r.next[e] = f[2] /\ e \in C /\ f[2] \in C /\ e # h
  BY DEF Ordered, Numbering
<1>4. /\ \A c \in C : s.next[c] = IF c = h THEN f[2] ELSE r.next[c]
      /\ \A c \in C : s.prev[c] = IF c = f[2] THEN h ELSE r.prev[c]
  BY <1>3 DEF DeleteFront, Rings
<1>5. /\ g[0] = h /\ g[n] = h
      /\ \A i \in 1 .. n : g[i] = f[i + 1] /\ f[i + 1] \in C
      /\ \A i \in 1 .. n - 1 : i + 1 \in 1 .. n
  BY DEF Ordered, Numbering
<1>6. /\ \A i \in 1 .. n - 1 : g[i] # h
      /\ \A i, j \in 1 .. n - 1 : g[i] = g[j] => i = j
  BY <1>5 DEF Ordered
<1>7. ASSUME NEW i \in 0 .. n - 1
      PROVE  s.next[g[i]] = g[i + 1] /\ s.prev[g[i + 1]] = g[i]
  <2>1. CASE i = 0
    BY <2>1, <1>3, <1>4, <1>5
  <2>2. CASE i # 0
    <3>1. i \in 1 .. n - 1 /\ i + 1 \in 1 .. n /\ (i + 1) + 1 = i + 2
      BY <2>2
    <3>2. g[i] = f[i + 1] /\ g[i + 1] = f[i + 2] /\ f[i + 1] \in C /\ f[i + 2] \in C
      <4> HIDE DEF g
      <4>1. i \in 1 .. n
        BY <3>1
      <4> QED
        BY <3>1, <4>1, <1>5
    <3>3. f[i + 1] # h
      BY <3>1 DEF Ordered
    <3>4. f[i + 2] # f[2]
      BY <3>1, <2>2 DEF Ordered
    <3>5. r.next[f[i + 1]] = f[i + 2] /\ r.prev[f[i + 2]] = f[i + 1]
      BY <3>1 DEF Ordered
    <3> QED
      BY <3>2, <3>3, <3>4, <3>5, <1>4
  <2> QED
    BY <2>1, <2>2
<1>8. Elements(g, n - 1) = Elements(f, n) \ {e}
  <2>1. \A j \in 1 .. n : j # 1 => j - 1 \in 1 .. n - 1 /\ (j - 1) + 1 = j
    OBVIOUS
  <2>2. \A j \in 1 .. n : j # 1 => f[j] # e
    BY <1>3 DEF Ordered
  <2>3. \A j \in 1 .. n : j # 1 => g[j - 1] = f[j]
    BY <2>1, <1>5
  <2>4. \A i \in 1 .. n - 1 : g[i] = f[i + 1] /\ i + 1 \in 1 .. n /\ i + 1 # 1
    BY <1>5
  <2> HIDE DEF g, e
  <2>5. ASSUME NEW x \in Elements(g, n - 1) PROVE x \in Elements(f, n) \ {e}
    BY <2>2, <2>4 DEF Elements
  <2>6. ASSUME NEW x \in Elements(f, n) \ {e} PROVE x \in Elements(g, n - 1)
    <3>1. PICK j \in 1 .. n : x = f[j]
      BY DEF Elements
    <3>2. j # 1
      BY <3>1, <1>3
    <3> QED
      BY <3>1, <3>2, <2>1, <2>3 DEF Elements
  <2> QED
    BY <2>5, <2>6
<1>9. Ordered(s, h, g, n - 1)
  <2> HIDE DEF g, s
  <2>1. (n - 1) + 1 = n
    OBVIOUS
  <2> QED
    BY <1>5, <1>6, <1>7, <2>1 DEF Ordered
<1>10. e \in Elements(f, n)
  BY <1>3 DEF Elements
<1> QED
  BY <1>1, <1>2, <1>3, <1>5, <1>8, <1>9, <1>10

(* deque_deleteback, of a deque that is not empty: the last element goes.   *)
THEOREM DeleteBackOrdered ==
  ASSUME NEW C, NEW r \in Rings(C), NEW h \in C, NEW n \in Nat \ {0},
         NEW f \in Numbering(C, n), Ordered(r, h, f, n)
  PROVE  LET s == DeleteBack(r, h)
             e == r.prev[h] IN
         /\ s \in Rings(C)
         /\ e \in Elements(f, n) /\ e = f[n]
         /\ \E g \in Numbering(C, n - 1) :
              /\ Ordered(s, h, g, n - 1)
              /\ Elements(g, n - 1) = Elements(f, n) \ {e}
              /\ \A i \in 1 .. n - 1 : g[i] = f[i]
<1> DEFINE g == [i \in 0 .. n |-> IF i = n THEN h ELSE f[i]]
           s == DeleteBack(r, h)
           e == r.prev[h]
<1>1. s \in Rings(C)
  BY DEF DeleteBack, Rings
<1>2. g \in Numbering(C, n - 1)
  BY DEF Numbering
<1>3. e = f[n] /\ r.prev[e] = f[n - 1] /\ e \in C /\ f[n - 1] \in C /\ e # h
  <2>1. n - 1 \in 0 .. n /\ (n - 1) + 1 = n /\ n \in 0 .. n /\ n \in 1 .. n
    OBVIOUS
  <2> QED
    BY <2>1 DEF Ordered, Numbering
<1>4. /\ \A c \in C : s.next[c] = IF c = f[n - 1] THEN h ELSE r.next[c]
      /\ \A c \in C : s.prev[c] = IF c = h THEN f[n - 1] ELSE r.prev[c]
  BY <1>3 DEF DeleteBack, Rings
<1>5. /\ g[0] = h /\ g[n] = h
      /\ \A i \in 0 .. n - 1 : g[i] = f[i] /\ f[i] \in C
      /\ \A i \in 1 .. n - 1 : i \in 1 .. n
  BY DEF Ordered, Numbering
<1>6. /\ \A i \in 1 .. n - 1 : g[i] # h
      /\ \A i, j \in 1 .. n - 1 : g[i] = g[j] => i = j
  BY <1>5 DEF Ordered
<1>7. ASSUME NEW i \in 0 .. n - 1
      PROVE  s.next[g[i]] = g[i + 1] /\ s.prev[g[i + 1]] = g[i]
  <2>1. CASE i = n - 1
    BY <2>1, <1>3, <1>4, <1>5
  <2>2. CASE i # n - 1
    <3>1. i \in 0 .. n - 1 /\ i + 1 \in 0 .. n - 1 /\ i + 1 \in 1 .. n
      BY <2>2
    <3>2. g[i] = f[i] /\ g[i + 1] = f[i + 1] /\ f[i] \in C /\ f[i + 1] \in C
      BY <3>1, <1>5
    <3>3. f[i + 1] # h
      BY <3>1 DEF Ordered
    <3>4. f[i] # f[n - 1]
      BY <3>1, <2>2 DEF Ordered
    <3>5. r.next[f[i]] = f[i + 1] /\ r.prev[f[i + 1]] = f[i]
      BY <3>1 DEF Ordered
    <3> QED
      BY <3>2, <3>3, <3>4, <3>5, <1>4
  <2> QED
    BY <2>1, <2>2
<1>8. Elements(g, n - 1) = Elements(f, n) \ {e}
  <2>1. \A j \in 1 .. n : j # n => j \in 1 .. n - 1 /\ f[j] # e
    BY <1>3 DEF Ordered
  <2> HIDE DEF g, e
  <2>2. ASSUME NEW x \in Elements(g, n - 1) PROVE x \in Elements(f, n) \ {e}
    BY <2>1, <1>5 DEF Elements
  <2>3. ASSUME NEW x \in Elements(f, n) \ {e} PROVE x \in Elements(g, n - 1)
    <3>1. PICK j \in 1 .. n : x = f[j]
      BY DEF Elements
    <3>2. j # n
      BY <3>1, <1>3
    <3> QED
      BY <3>1, <3>2, <2>1, <1>5 DEF Elements
  <2> QED
    BY <2>2, <2>3
<1>9. Ordered(s, h, g, n - 1)
  <2> HIDE DEF g, s
  <2>1. (n - 1) + 1 = n
    OBVIOUS
  <2> QED
    BY <1>5, <1>6, <1>7, <2>1 DEF Ordered
<1>10. e \in Elements(f, n)
  BY <1>3 DEF Elements
<1>11. \A i \in 1 .. n - 1 : g[i] = f[i]
  BY <1>5
<1> QED
  BY <1>1, <1>2, <1>3, <1>8, <1>9, <1>10, <1>11

(* What closed.h does by hand in the middle of a deque: the element goes,   *)
(* and those behind it move up.                                             *)
THEOREM UnlinkOrdered ==
  ASSUME NEW C, NEW r \in Rings(C), NEW h \in C, NEW n \in Nat,
         NEW f \in Numbering(C, n), Ordered(r, h, f, n), NEW e \in Elements(f, n)
  PROVE  LET s == Unlink(r, e) IN
         /\ s \in Rings(C)
         /\ n - 1 \in Nat
         /\ \E g \in Numbering(C, n - 1) :
              /\ Ordered(s, h, g, n - 1)
              /\ Elements(g, n - 1) = Elements(f, n) \ {e}
<1>1. PICK j \in 1 .. n : e = f[j]
  BY DEF Elements
<1> DEFINE g == [i \in 0 .. n |-> IF i < j THEN f[i] ELSE f[i + 1]]
           s == Unlink(r, e)
<1>2. n - 1 \in Nat /\ (n - 1) + 1 = n /\ j - 1 \in 0 .. n /\ (j - 1) + 1 = j /\ j \in 0 .. n
      /\ j + 1 \in 0 .. n + 1 /\ j - 1 \in 0 .. n + 1
  OBVIOUS
<1>3. s \in Rings(C)
  BY <1>1 DEF Unlink, Rings, Numbering
<1>4. g \in Numbering(C, n - 1)
  BY DEF Numbering
<1>5. \A i \in 0 .. n + 1 : f[i] \in C
  BY DEF Numbering
<1>6. r.next[e] = f[j + 1] /\ r.prev[e] = f[j - 1] /\ e # h
  BY <1>1, <1>2 DEF Ordered
<1>7. e \in C /\ f[j - 1] # e /\ f[j + 1] # e
  <2>1. e \in C
    BY <1>1, <1>5
  <2>2. f[j - 1] # e
    <3>1. j - 1 = 0 \/ (j - 1 \in 1 .. n /\ j - 1 # j)
      OBVIOUS
    <3> QED
      BY <3>1, <1>1, <1>6 DEF Ordered
  <2>3. f[j + 1] # e
    <3>1. j + 1 = n + 1 \/ (j + 1 \in 1 .. n /\ j + 1 # j)
      OBVIOUS
    <3> QED
      BY <3>1, <1>1, <1>6 DEF Ordered
  <2> QED
    BY <2>1, <2>2, <2>3
<1>8. /\ \A c \in C : s.next[c] = IF c = e THEN e ELSE IF c = f[j - 1] THEN f[j + 1] ELSE r.next[c]
      /\ \A c \in C : s.prev[c] = IF c = e THEN e ELSE IF c = f[j + 1] THEN f[j - 1] ELSE r.prev[c]
  BY <1>6, <1>7 DEF Unlink, Rings
<1>9. g[0] = h /\ g[n] = h
  <2>1. 0 \in 0 .. n /\ 0 < j /\ n \in 0 .. n /\ ~(n < j)
    OBVIOUS
  <2> QED
    BY <2>1 DEF Ordered
<1>10. \A i \in 0 .. n : /\ i < j => g[i] = f[i]
                         /\ ~(i < j) => g[i] = f[i + 1]
  OBVIOUS
<1> HIDE DEF g, s
<1>11. ASSUME NEW i \in 1 .. n - 1
       PROVE  /\ g[i] # h
              /\ \A l \in 1 .. n - 1 : g[i] = g[l] => i = l
  <2>1. i \in 0 .. n /\ i \in 1 .. n /\ i + 1 \in 1 .. n
    OBVIOUS
  <2>2. g[i] # h
    BY <2>1, <1>10 DEF Ordered
  <2>3. ASSUME NEW l \in 1 .. n - 1, g[i] = g[l] PROVE i = l
    <3>1. l \in 0 .. n /\ l \in 1 .. n /\ l + 1 \in 1 .. n
      OBVIOUS
    <3> DEFINE a == IF i < j THEN i ELSE i + 1
               b == IF l < j THEN l ELSE l + 1
    <3>2. g[i] = f[a] /\ g[l] = f[b] /\ a \in 1 .. n /\ b \in 1 .. n
      BY <2>1, <3>1, <1>10
    <3> HIDE DEF a, b
    <3>3. f[a] = f[b]
      BY <2>3, <3>2
    <3>4. \A x, y \in 1 .. n : f[x] = f[y] => x = y
      BY DEF Ordered
    <3>5. a = b
      BY <3>2, <3>3, <3>4
    <3> QED
      BY <3>5 DEF a, b
  <2> QED
    BY <2>2, <2>3
<1>12. ASSUME NEW i \in 0 .. n - 1
       PROVE  s.next[g[i]] = g[i + 1] /\ s.prev[g[i + 1]] = g[i]
  <2>0. i \in 0 .. n /\ i + 1 \in 0 .. n
    OBVIOUS
  <2>1. CASE i + 1 < j
    <3>1. g[i] = f[i] /\ g[i + 1] = f[i + 1]
      BY <2>0, <2>1, <1>10
    <3>2. f[i] \in C /\ f[i + 1] \in C /\ r.next[f[i]] = f[i + 1] /\ r.prev[f[i + 1]] = f[i]
      BY <2>0, <1>5 DEF Ordered
    <3>3. f[i] # e /\ f[i] # f[j - 1] /\ f[i + 1] # e /\ f[i + 1] # f[j + 1]
      <4>1. i + 1 \in 1 .. n /\ i + 1 # j /\ (i = 0 \/ (i \in 1 .. n /\ i # j))
            /\ j - 1 \in 1 .. n /\ i # j - 1
            /\ (j + 1 = n + 1 \/ (j + 1 \in 1 .. n /\ i + 1 # j + 1))
        BY <2>1
      <4> QED
        BY <4>1, <1>1, <1>6 DEF Ordered
    <3> QED
      BY <3>1, <3>2, <3>3, <1>8
  <2>2. CASE i + 1 = j
    <3>1. g[i] = f[j - 1] /\ g[i + 1] = f[j + 1]
      BY <2>0, <2>2, <1>10
    <3>2. f[j - 1] \in C /\ f[j + 1] \in C
      BY <1>2, <1>5
    <3> QED
      BY <3>1, <3>2, <1>7, <1>8
  <2>3. CASE i + 1 > j
    <3>1. g[i] = f[i + 1] /\ g[i + 1] = f[(i + 1) + 1] /\ i + 1 \in 0 .. n
          /\ (i + 1) + 1 \in 0 .. n + 1 /\ i + 1 \in 0 .. n + 1
      BY <2>0, <2>3, <1>10
    <3>2. f[i + 1] \in C /\ f[(i + 1) + 1] \in C
          /\ r.next[f[i + 1]] = f[(i + 1) + 1] /\ r.prev[f[(i + 1) + 1]] = f[i + 1]
      BY <3>1, <1>5 DEF Ordered
    <3>3. f[i + 1] # e /\ f[i + 1] # f[j - 1] /\ f[(i + 1) + 1] # e /\ f[(i + 1) + 1] # f[j + 1]
      <4>1. i + 1 \in 1 .. n /\ i + 1 # j
            /\ (j - 1 = 0 \/ (j - 1 \in 1 .. n /\ i + 1 # j - 1))
            /\ j + 1 \in 1 .. n
            /\ ((i + 1) + 1 = n + 1 \/ ((i + 1) + 1 \in 1 .. n /\ (i + 1) + 1 # j /\ (i + 1) + 1 # j + 1))
        BY <2>3
      <4> QED
        BY <4>1, <1>1, <1>6 DEF Ordered
    <3> QED
      BY <3>1, <3>2, <3>3, <1>8
  <2> QED
    BY <2>1, <2>2, <2>3
<1>13. Ordered(s, h, g, n - 1)
  BY <1>2, <1>9, <1>11, <1>12 DEF Ordered
<1>14. Elements(g, n - 1) = Elements(f, n) \ {e}
  <2>1. ASSUME NEW x \in Elements(g, n - 1) PROVE x \in Elements(f, n) \ {e}
    <3>1. PICK i \in 1 .. n - 1 : x = g[i]
      BY DEF Elements
    <3>2. i \in 0 .. n /\ i \in 1 .. n /\ i + 1 \in 1 .. n
      OBVIOUS
    <3>3. \E l \in 1 .. n : x = f[l] /\ l # j
      BY <3>1, <3>2, <1>10
    <3> QED
      BY <3>3, <1>1 DEF Elements, Ordered
  <2>2. ASSUME NEW x \in Elements(f, n) \ {e} PROVE x \in Elements(g, n - 1)
    <3>1. PICK l \in 1 .. n : x = f[l]
      BY DEF Elements
    <3>2. l # j
      BY <3>1, <1>1
    <3>3. \E i \in 1 .. n - 1 : x = g[i]
      <4>1. CASE l < j
        <5>1. l \in 1 .. n - 1 /\ l \in 0 .. n
          BY <4>1
        <5> QED
          BY <5>1, <4>1, <3>1, <1>10
      <4>2. CASE l > j
        <5>1. l - 1 \in 1 .. n - 1 /\ l - 1 \in 0 .. n /\ ~(l - 1 < j) /\ (l - 1) + 1 = l
          BY <4>2
        <5> QED
          BY <5>1, <3>1, <1>10
      <4> QED
        BY <3>2, <4>1, <4>2
    <3> QED
      BY <3>3 DEF Elements
  <2> QED
    BY <2>1, <2>2
<1> QED
  BY <1>2, <1>3, <1>4, <1>13, <1>14 DEF s

-----------------------------------------------------------------------------
(* Several rings *)

(* A deque whose links were left alone is what it was. *)
LEMMA OrderedSame ==
  ASSUME NEW r, NEW s, NEW h, NEW n \in Nat, NEW f, Ordered(r, h, f, n),
         \A c \in Elements(f, n) \cup {h} : s.next[c] = r.next[c] /\ s.prev[c] = r.prev[c]
  PROVE  Ordered(s, h, f, n)
<1>1. ASSUME NEW i \in 0 .. n + 1 PROVE f[i] \in Elements(f, n) \cup {h}
  <2>1. i = 0 \/ i = n + 1 \/ i \in 1 .. n
    OBVIOUS
  <2> QED
    BY <2>1 DEF Ordered, Elements
<1>2. \A i \in 0 .. n : i \in 0 .. n + 1 /\ i + 1 \in 0 .. n + 1
  OBVIOUS
<1> QED
  BY <1>1, <1>2 DEF Ordered

(* The links of a deque lead from its elements and its head to others.      *)
LEMMA OrderedClosed ==
  ASSUME NEW r, NEW h, NEW n \in Nat, NEW f, Ordered(r, h, f, n)
  PROVE  Closed(r, Elements(f, n) \cup {h})
<1> DEFINE S == Elements(f, n) \cup {h}
<1>1. ASSUME NEW i \in 0 .. n + 1 PROVE f[i] \in S
  <2>1. i = 0 \/ i = n + 1 \/ i \in 1 .. n
    OBVIOUS
  <2> QED
    BY <2>1 DEF Ordered, Elements
<1>2. ASSUME NEW i \in 0 .. n
      PROVE  /\ r.next[f[i]] \in S /\ r.prev[r.next[f[i]]] = f[i]
             /\ r.prev[f[i + 1]] \in S /\ r.next[r.prev[f[i + 1]]] = f[i + 1]
  <2>1. i \in 0 .. n + 1 /\ i + 1 \in 0 .. n + 1
    OBVIOUS
  <2> QED
    BY <2>1, <1>1 DEF Ordered
<1>3. ASSUME NEW c \in S
      PROVE  \E i \in 0 .. n : c = f[i]
  <2>1. \A i \in 1 .. n : i \in 0 .. n
    OBVIOUS
  <2>2. 0 \in 0 .. n /\ f[0] = h
    BY DEF Ordered
  <2> QED
    BY <2>1, <2>2 DEF Elements
<1>4. ASSUME NEW c \in S
      PROVE  \E i \in 0 .. n : c = f[i + 1]
  <2>1. \A i \in 1 .. n : i - 1 \in 0 .. n /\ (i - 1) + 1 = i
    OBVIOUS
  <2>2. n \in 0 .. n /\ f[n + 1] = h
    BY DEF Ordered
  <2> QED
    BY <2>1, <2>2 DEF Elements
<1> HIDE DEF S
<1>5. Closed(r, S)
  BY <1>2, <1>3, <1>4 DEF Closed
<1> QED
  BY <1>5 DEF S

(* deque_addback of a new cell to one of several rings leaves them all      *)
(* closed, whichever ring and however many there are.                       *)
THEOREM AddBackClosed ==
  ASSUME NEW C, NEW r \in Rings(C), NEW S \in SUBSET C, Closed(r, S),
         NEW h \in S, NEW e \in C \ S
  PROVE  Closed(AddBack(LinkInit(r, e), h, e), S \cup {e})
<1> DEFINE s == AddBack(LinkInit(r, e), h, e)
           last == r.prev[h]
<1>1. last \in S /\ r.next[last] = h
  BY DEF Closed
<1>2. /\ \A c \in C : s.next[c] = IF c = last THEN e ELSE IF c = e THEN h ELSE r.next[c]
      /\ \A c \in C : s.prev[c] = IF c = h THEN e ELSE IF c = e THEN last ELSE r.prev[c]
  BY <1>1 DEF AddBack, LinkInit, Rings
<1> HIDE DEF s, last
<1>3. \A c \in S : /\ r.next[c] \in S /\ r.prev[r.next[c]] = c
                   /\ r.prev[c] \in S /\ r.next[r.prev[c]] = c
  BY DEF Closed
<1>4. ASSUME NEW c \in S \cup {e}
      PROVE  /\ s.next[c] \in S \cup {e} /\ s.prev[s.next[c]] = c
             /\ s.prev[c] \in S \cup {e} /\ s.next[s.prev[c]] = c
  <2>1. CASE c = e
    BY <2>1, <1>1, <1>2
  <2>2. CASE c \in S
    <3>1. c # e /\ r.next[c] # e /\ r.prev[c] # e /\ r.next[c] \in C /\ r.prev[c] \in C
      BY <2>2, <1>3
    <3>2. s.next[c] \in S \cup {e} /\ s.prev[s.next[c]] = c
      BY <2>2, <3>1, <1>1, <1>2, <1>3
    <3>3. s.prev[c] \in S \cup {e} /\ s.next[s.prev[c]] = c
      BY <2>2, <3>1, <1>1, <1>2, <1>3 DEF last
    <3> QED
      BY <3>2, <3>3
  <2> QED
    BY <2>1, <2>2
<1> QED
  BY <1>4 DEF Closed, s

(* The removal that closed.h does by hand: the other cells stay in closed   *)
(* rings, and the removed one is a ring of its own.                         *)
THEOREM UnlinkClosed ==
  ASSUME NEW C, NEW r \in Rings(C), NEW S \in SUBSET C, Closed(r, S), NEW e \in S
  PROVE  Closed(Unlink(r, e), S \ {e}) /\ Closed(Unlink(r, e), {e})
<1> DEFINE s == Unlink(r, e)
<1>1. \A c \in S : /\ r.next[c] \in S /\ r.prev[r.next[c]] = c
                   /\ r.prev[c] \in S /\ r.next[r.prev[c]] = c
  BY DEF Closed
<1>2. /\ \A c \in C : s.next[c] = IF c = e THEN e ELSE IF c = r.prev[e] THEN r.next[e] ELSE r.next[c]
      /\ \A c \in C : s.prev[c] = IF c = e THEN e ELSE IF c = r.next[e] THEN r.prev[e] ELSE r.prev[c]
  BY <1>1 DEF Unlink, Rings
<1> HIDE DEF s
<1>3. ASSUME NEW c \in S \ {e}
      PROVE  /\ s.next[c] \in S \ {e} /\ s.prev[s.next[c]] = c
             /\ s.prev[c] \in S \ {e} /\ s.next[s.prev[c]] = c
  BY <1>1, <1>2
<1>4. s.next[e] = e /\ s.prev[e] = e
  BY <1>2
<1> QED
  BY <1>3, <1>4 DEF Closed, s

-----------------------------------------------------------------------------
(* Sequences as functions *)

LEMMA AsSeq ==
  ASSUME NEW S, NEW n \in Nat, NEW s \in [1 .. n -> S]
  PROVE  s \in Seq(S) /\ Len(s) = n /\ (s = << >> <=> n = 0)
OBVIOUS

LEMMA Grown ==
  ASSUME NEW S, NEW n \in Nat, NEW s \in [1 .. n -> S], NEW u \in [1 .. n + 1 -> S],
         \A i \in 1 .. n : u[i] = s[i]
  PROVE  u = Append(s, u[n + 1])
<1> DEFINE x == u[n + 1]
           t == Append(s, x)
<1>1. s \in Seq(S) /\ Len(s) = n /\ x \in S
  BY AsSeq
<1>2. u \in Seq(S) /\ Len(u) = n + 1
  <2> DEFINE m == n + 1
  <2>1. m \in Nat /\ u \in [1 .. m -> S]
    OBVIOUS
  <2> HIDE DEF m
  <2>2. u \in Seq(S) /\ Len(u) = m
    BY <2>1, AsSeq
  <2> QED
    BY <2>2 DEF m
<1> HIDE DEF x
<1>3. /\ t \in Seq(S) /\ Len(t) = n + 1
      /\ \A i \in 1 .. n : t[i] = s[i]
      /\ t[n + 1] = x
  BY <1>1
<1> HIDE DEF t
<1>4. \A i \in 1 .. Len(u) : u[i] = t[i]
  BY <1>2, <1>3 DEF x
<1>5. u = t
  BY <1>2, <1>3, <1>4, SeqEqual
<1> QED
  BY <1>5 DEF t, x

LEMMA Prefix ==
  ASSUME NEW S, NEW n \in Nat, NEW m \in 0 .. n, NEW s \in [1 .. n -> S], NEW u \in [1 .. m -> S],
         \A i \in 1 .. m : u[i] = s[i]
  PROVE  u = SubSeq(s, 1, m) /\ Len(u) = m /\ Len(s) = n
<1> DEFINE t == SubSeq(s, 1, m)
<1>1. m \in Nat /\ \A i \in 1 .. m : s[i] \in S
  OBVIOUS
<1>2. s \in Seq(S) /\ Len(s) = n /\ u \in Seq(S) /\ Len(u) = m
  BY <1>1, AsSeq
<1>3. /\ t \in Seq(S) /\ Len(t) = m
      /\ \A i \in 1 .. m : t[i] = s[i]
  <2>1. /\ t \in Seq(S) /\ Len(t) = IF 1 <= m THEN m - 1 + 1 ELSE 0
        /\ \A i \in 1 .. m - 1 + 1 : t[i] = s[1 + i - 1]
    BY <1>1, SubSeqProperties
  <2> HIDE DEF t
  <2>2. \A i \in 1 .. m : i \in 1 .. m - 1 + 1 /\ 1 + i - 1 = i
    BY <1>1
  <2> QED
    BY <1>1, <2>1, <2>2
<1> HIDE DEF t
<1>4. u = t
  BY <1>2, <1>3, SeqEqual
<1> QED
  BY <1>2, <1>4 DEF t

LEMMA TailIs ==
  ASSUME NEW S, NEW n \in Nat \ {0}, NEW s \in [1 .. n -> S], NEW u \in [1 .. n - 1 -> S],
         \A i \in 1 .. n - 1 : u[i] = s[i + 1]
  PROVE  u = Tail(s)
<1>1. s \in Seq(S) /\ Len(s) = n /\ s # << >>
  BY AsSeq
<1>2. u \in Seq(S) /\ Len(u) = n - 1
  <2> DEFINE m == n - 1
  <2>1. m \in Nat /\ u \in [1 .. m -> S]
    OBVIOUS
  <2> HIDE DEF m
  <2>2. u \in Seq(S) /\ Len(u) = m
    BY <2>1, AsSeq
  <2> QED
    BY <2>2 DEF m
<1>3. /\ Tail(s) \in Seq(S) /\ Len(Tail(s)) = n - 1
      /\ \A i \in 1 .. n - 1 : Tail(s)[i] = s[i + 1]
  BY <1>1, HeadTailProperties
<1> QED
  BY <1>2, <1>3, SeqEqual

-----------------------------------------------------------------------------
(* Going around *)

(* Every set of natural numbers has a least element: what an induction      *)
(* over the steps of a walk rests on.                                       *)
LEMMA Least ==
  ASSUME NEW S, S \subseteq Nat, S # {}
  PROVE  \E x \in S : \A y \in S : x <= y
<1> DEFINE R == OpToRel(<, Nat)
<1>1. PICK x \in S : \A y \in S : ~ (<<y, x>> \in R)
  <2>1. IsWellFoundedOn(R, Nat)
    BY NatLessThanWellFounded
  <2> HIDE DEF R
  <2> QED
    BY <2>1, WFMin
<1>2. \A y \in S : ~(y < x)
  BY <1>1 DEF OpToRel
<1> QED
  BY <1>2

(* The walk of Around, for m more cells at most from any cell; there is one *)
(* of any length.                                                           *)
Row(x, f, h, m) ==
  [c \in DOMAIN f |->
     IF c = h THEN << >> ELSE IF m = 0 THEN <<h>> ELSE <<c>> \o x[f[c]]]

IsWalk(w, f, h, n) == w = [m \in 0 .. n |-> Row(w[m - 1], f, h, m)]

LEMMA WalkExists ==
  ASSUME NEW f, NEW h, NEW n \in Nat
  PROVE  \E w : IsWalk(w, f, h, n)
<1> DEFINE None == {m \in Nat : ~ \E w : IsWalk(w, f, h, m)}
<1>0. ASSUME NEW x, NEW y PROVE Row(x, f, h, 0) = Row(y, f, h, 0)
  BY DEF Row
<1>1. 0 \notin None
  <2> DEFINE w == [m \in 0 .. 0 |-> Row(f, f, h, 0)]
  <2>1. w = [m \in 0 .. 0 |-> Row(w[m - 1], f, h, m)]
    <3> HIDE DEF w
    <3>1. ASSUME NEW m \in 0 .. 0 PROVE Row(w[m - 1], f, h, m) = Row(f, f, h, 0)
      <4>1. m = 0
        OBVIOUS
      <4>2. Row(w[0 - 1], f, h, 0) = Row(f, f, h, 0)
        BY <1>0
      <4> QED
        BY <4>1, <4>2
    <3>2. w = [m \in 0 .. 0 |-> Row(f, f, h, 0)]
      BY DEF w
    <3> QED
      BY <3>1, <3>2
  <2> HIDE DEF w
  <2>2. IsWalk(w, f, h, 0)
    BY <2>1 DEF IsWalk
  <2> QED
    BY <2>2
<1>2. ASSUME NEW m \in Nat, m \notin None PROVE m + 1 \notin None
  <2>1. PICK w : IsWalk(w, f, h, m)
    BY <1>2
  <2> DEFINE e == [i \in 0 .. m + 1 |-> IF i = m + 1 THEN Row(w[m], f, h, m + 1) ELSE w[i]]
  <2>2. e = [i \in 0 .. m + 1 |-> e[i]]
    OBVIOUS
  <2>3. ASSUME NEW i \in 0 .. m + 1 PROVE e[i] = Row(e[i - 1], f, h, i)
    <3>1. CASE i = m + 1
      <4>1. i - 1 = m /\ e[m] = w[m]
        BY <3>1
      <4> QED
        BY <3>1, <4>1
    <3>2. CASE i # m + 1
      <4>1. i \in 0 .. m
        BY <3>2
      <4>2. w[i] = Row(w[i - 1], f, h, i)
        BY <2>1, <4>1 DEF IsWalk
      <4>3. i # 0 => i - 1 \in 0 .. m /\ i - 1 # m + 1 /\ i - 1 \in 0 .. m + 1
        BY <4>1
      <4>4. i # 0 => e[i - 1] = w[i - 1]
        BY <4>3
      <4>5. e[i] = w[i]
        BY <3>2
      <4> HIDE DEF e
      <4>6. CASE i = 0
        <5>1. Row(w[0 - 1], f, h, 0) = Row(e[0 - 1], f, h, 0)
          BY <1>0
        <5> QED
          BY <4>2, <4>5, <4>6, <5>1
      <4> QED
        BY <4>2, <4>4, <4>5, <4>6
    <3> QED
      BY <3>1, <3>2
  <2> HIDE DEF e
  <2>4. IsWalk(e, f, h, m + 1)
    BY <2>2, <2>3 DEF IsWalk
  <2> QED
    BY <2>4
<1> HIDE DEF None
<1>3. None = {}
  <2> SUFFICES ASSUME None # {} PROVE FALSE
    OBVIOUS
  <2>1. PICK x \in None : x \in Nat /\ \A y \in None : x <= y
    BY Least DEF None
  <2>2. x # 0
    BY <1>1
  <2>3. x - 1 \in Nat /\ ~(x <= x - 1)
    BY <2>1, <2>2
  <2>4. x - 1 \notin None
    BY <2>1, <2>3
  <2>5. (x - 1) + 1 = x
    BY <2>1
  <2> QED
    BY <1>2, <2>3, <2>4, <2>5
<1> QED
  BY <1>3 DEF None

LEMMA AroundIs ==
  ASSUME NEW f, NEW h, NEW n \in Nat
  PROVE  \E w : IsWalk(w, f, h, n) /\ Around(f, h, n) = w[n][f[h]]
<1> DEFINE walk == CHOOSE w : w = [m \in 0 .. n |->
             [c \in DOMAIN f |->
               IF c = h THEN << >> ELSE IF m = 0 THEN <<h>> ELSE <<c>> \o w[m - 1][f[c]]]]
<1>1. IsWalk(walk, f, h, n)
  <2>1. \E x : x = [m \in 0 .. n |->
             [c \in DOMAIN f |->
               IF c = h THEN << >> ELSE IF m = 0 THEN <<h>> ELSE <<c>> \o x[m - 1][f[c]]]]
    <3> HIDE DEF walk
    <3>1. PICK x : IsWalk(x, f, h, n)
      BY WalkExists
    <3> QED
      BY <3>1 DEF IsWalk, Row
  <2>2. walk = [m \in 0 .. n |->
             [c \in DOMAIN f |->
               IF c = h THEN << >> ELSE IF m = 0 THEN <<h>> ELSE <<c>> \o walk[m - 1][f[c]]]]
    BY <2>1
  <2> HIDE DEF walk
  <2> QED
    BY <2>2 DEF IsWalk, Row
<1>2. Around(f, h, n) = walk[n][f[h]]
  BY DEF Around
<1> HIDE DEF walk
<1> QED
  BY <1>1, <1>2

-----------------------------------------------------------------------------
(* The elements numbered from j to k, and all of them. *)
Rest(g, j, k) == [i \in 1 .. k + 1 - j |-> g[j + i - 1]]
Numbered(g, k) == [i \in 1 .. k |-> g[i]]

(* g is a way round along f, from the head h back to it. *)
Cycle(f, h, g, k, C) ==
  /\ DOMAIN f = C
  /\ g \in [0 .. k + 1 -> C]
  /\ g[0] = h /\ g[k + 1] = h
  /\ \A i \in 1 .. k : g[i] # h
  /\ \A i \in 0 .. k : f[g[i]] = g[i + 1]

LEMMA RestMore ==
  ASSUME NEW C, NEW k \in Nat, NEW g \in [0 .. k + 1 -> C], NEW j \in 1 .. k
  PROVE  <<g[j]>> \o Rest(g, j + 1, k) = Rest(g, j, k)
<1> DEFINE s == Rest(g, j + 1, k)
           t == Rest(g, j, k)
           one == <<g[j]>>
<1>1. s \in Seq(C) /\ Len(s) = k - j /\ \A i \in 1 .. k - j : s[i] = g[j + i]
  <2> DEFINE q == k - j
  <2>1. q \in Nat /\ k + 1 - (j + 1) = q /\ \A i \in 1 .. q : j + i \in 0 .. k + 1 /\ (j + 1) + i - 1 = j + i
    OBVIOUS
  <2> HIDE DEF q
  <2>2. Rest(g, j + 1, k) = [i \in 1 .. q |-> g[j + i]]
    BY <2>1 DEF Rest
  <2>3. \A i \in 1 .. q : g[j + i] \in C
    BY <2>1
  <2> QED
    BY <2>1, <2>2, <2>3 DEF q
<1>2. t \in Seq(C) /\ Len(t) = k + 1 - j /\ \A i \in 1 .. k + 1 - j : t[i] = g[j + i - 1]
  <2> DEFINE q == k + 1 - j
  <2>1. q \in Nat /\ \A i \in 1 .. q : j + i - 1 \in 0 .. k + 1
    OBVIOUS
  <2> HIDE DEF q
  <2>2. Rest(g, j, k) = [i \in 1 .. q |-> g[j + i - 1]]
    BY DEF Rest, q
  <2>3. \A i \in 1 .. q : g[j + i - 1] \in C
    BY <2>1
  <2> QED
    BY <2>1, <2>2, <2>3 DEF q
<1>3. one \in Seq(C) /\ Len(one) = 1 /\ one[1] = g[j]
  OBVIOUS
<1> HIDE DEF s, t, one
<1>4. /\ one \o s \in Seq(C) /\ Len(one \o s) = k + 1 - j
      /\ \A i \in 1 .. 1 + Len(s) : (one \o s)[i] = IF i <= 1 THEN one[i] ELSE s[i - 1]
  <2>1. /\ one \o s \in Seq(C) /\ Len(one \o s) = Len(one) + Len(s)
        /\ \A i \in 1 .. Len(one) + Len(s) :
             (one \o s)[i] = IF i <= Len(one) THEN one[i] ELSE s[i - Len(one)]
    BY <1>1, <1>3, ConcatProperties
  <2>2. 1 + (k - j) = k + 1 - j
    OBVIOUS
  <2> QED
    BY <1>1, <1>3, <2>1, <2>2
<1>5. ASSUME NEW i \in 1 .. k + 1 - j PROVE (one \o s)[i] = t[i]
  <2>1. CASE i = 1
    <3>1. (one \o s)[1] = one[1]
      BY <1>1, <1>4
    <3>2. j + 1 - 1 = j
      OBVIOUS
    <3> QED
      BY <1>2, <1>3, <2>1, <3>1, <3>2
  <2>2. CASE i # 1
    <3>1. i - 1 \in 1 .. k - j /\ i > 1 /\ i <= 1 + (k - j) /\ j + (i - 1) = j + i - 1
      BY <2>2
    <3>2. (one \o s)[i] = s[i - 1]
      BY <1>1, <1>4, <3>1
    <3> QED
      BY <1>1, <1>2, <3>1, <3>2
  <2> QED
    BY <2>1, <2>2
<1>6. one \o s = t
  <2> DEFINE u == one \o s
  <2>1. u \in Seq(C) /\ Len(u) = Len(t) /\ \A i \in 1 .. Len(t) : u[i] = t[i]
    BY <1>2, <1>4, <1>5
  <2> HIDE DEF u
  <2>2. u = t
    BY <1>2, <2>1
  <2> QED
    BY <2>2 DEF u
<1> QED
  BY <1>6 DEF s, t, one

(* Going around visits the elements in the order of their numbers, if they  *)
(* are not too many.                                                        *)
LEMMA AroundOrdered ==
  ASSUME NEW C, NEW f, NEW h, NEW n \in Nat, NEW k \in 0 .. n, NEW g, Cycle(f, h, g, k, C)
  PROVE  Around(f, h, n) = Numbered(g, k)
<1>0. k \in Nat /\ g \in [0 .. k + 1 -> C] /\ DOMAIN f = C
  BY DEF Cycle
<1>1. PICK w : IsWalk(w, f, h, n) /\ Around(f, h, n) = w[n][f[h]]
  BY AroundIs
<1>2. ASSUME NEW m \in 0 .. n, NEW c \in C
      PROVE  w[m][c] = IF c = h THEN << >> ELSE IF m = 0 THEN <<h>> ELSE <<c>> \o w[m - 1][f[c]]
  <2>1. w[m] = Row(w[m - 1], f, h, m)
    BY <1>1 DEF IsWalk
  <2> QED
    BY <1>0, <2>1 DEF Row
<1> DEFINE Wrong == {m \in 0 .. n : \E j \in 1 .. k + 1 : k + 1 - j <= m /\ w[m][g[j]] # Rest(g, j, k)}
<1>3. ASSUME NEW m \in 0 .. n PROVE w[m][g[k + 1]] = Rest(g, k + 1, k)
  <2>1. g[k + 1] = h /\ h \in C
    BY <1>0 DEF Cycle
  <2>2. Rest(g, k + 1, k) = << >>
    <3>1. 1 .. k + 1 - (k + 1) = {}
      BY <1>0
    <3> QED
      BY <3>1 DEF Rest
  <2> QED
    BY <1>2, <2>1, <2>2
<1>4. 0 \notin Wrong
  <2> SUFFICES ASSUME NEW j \in 1 .. k + 1, k + 1 - j <= 0 PROVE w[0][g[j]] = Rest(g, j, k)
    OBVIOUS
  <2>1. j = k + 1
    BY <1>0
  <2> QED
    BY <1>3, <2>1
<1>5. ASSUME NEW m \in 1 .. n, m - 1 \notin Wrong PROVE m \notin Wrong
  <2> SUFFICES ASSUME NEW j \in 1 .. k + 1, k + 1 - j <= m PROVE w[m][g[j]] = Rest(g, j, k)
    OBVIOUS
  <2>1. CASE j = k + 1
    BY <1>3, <2>1
  <2>2. CASE j # k + 1
    <3>1. j \in 1 .. k /\ j \in 0 .. k /\ j \in 0 .. k + 1 /\ j + 1 \in 1 .. k + 1
          /\ k + 1 - (j + 1) <= m - 1 /\ m - 1 \in 0 .. n /\ m # 0 /\ m \in 0 .. n
      BY <1>0, <2>2
    <3>2. w[m - 1][g[j + 1]] = Rest(g, j + 1, k)
      BY <1>5, <3>1
    <3> HIDE DEF Wrong
    <3>3. g[j] # h /\ g[j] \in C /\ f[g[j]] = g[j + 1]
      BY <1>0, <3>1 DEF Cycle
    <3>4. w[m][g[j]] = <<g[j]>> \o w[m - 1][f[g[j]]]
      BY <1>2, <3>1, <3>3
    <3>5. <<g[j]>> \o Rest(g, j + 1, k) = Rest(g, j, k)
      BY <1>0, <3>1, RestMore
    <3> QED
      BY <3>2, <3>3, <3>4, <3>5
  <2> QED
    BY <2>1, <2>2
<1>6. Wrong = {}
  <2> HIDE DEF Wrong
  <2> SUFFICES ASSUME Wrong # {} PROVE FALSE
    OBVIOUS
  <2>1. PICK x \in Wrong : x \in 0 .. n /\ \A y \in Wrong : x <= y
    <3>1. Wrong \subseteq Nat /\ Wrong \subseteq 0 .. n
      BY DEF Wrong
    <3>2. PICK x \in Wrong : \A y \in Wrong : x <= y
      BY <3>1, Least
    <3> QED
      BY <3>1, <3>2
  <2>2. x \in 1 .. n
    BY <1>4, <2>1
  <2>3. ~(x <= x - 1)
    BY <2>2
  <2> QED
    BY <1>5, <2>1, <2>2, <2>3
<1>7. w[n][g[1]] = Rest(g, 1, k)
  <2>1. n \in 0 .. n /\ 1 \in 1 .. k + 1 /\ k + 1 - 1 <= n
    BY <1>0
  <2> QED
    BY <1>6, <2>1
<1> HIDE DEF Wrong
<1>8. f[h] = g[1]
  <2>1. 0 \in 0 .. k /\ 0 + 1 = 1
    BY <1>0
  <2> QED
    BY <2>1 DEF Cycle
<1>9. Rest(g, 1, k) = Numbered(g, k)
  <2>1. k + 1 - 1 = k /\ \A i \in 1 .. k : 1 + i - 1 = i
    BY <1>0
  <2> QED
    BY <2>1 DEF Rest, Numbered
<1> QED
  BY <1>1, <1>7, <1>8, <1>9

(* deque_foreach, in either direction, gives the elements in the order of   *)
(* their numbers, each once, and comes back to the head.                    *)
THEOREM AroundInOrder ==
  ASSUME NEW C, NEW r \in Rings(C), NEW h \in C, NEW n \in Nat, NEW k \in 0 .. n,
         NEW f \in Numbering(C, k), Ordered(r, h, f, k)
  PROVE  /\ Around(r.next, h, n) = Numbered(f, k)
         /\ Around(r.prev, h, n) = [i \in 1 .. k |-> f[k + 1 - i]]
<1>1. f \in [0 .. k + 1 -> C] /\ k \in Nat
  BY DEF Numbering
<1>2. Around(r.next, h, n) = Numbered(f, k)
  <2>1. f[0] = h /\ f[k + 1] = h /\ \A i \in 1 .. k : f[i] # h
    BY DEF Ordered
  <2>2. \A i \in 0 .. k : r.next[f[i]] = f[i + 1]
    BY DEF Ordered
  <2>3. Cycle(r.next, h, f, k, C)
    BY <1>1, <2>1, <2>2 DEF Cycle, Rings
  <2> QED
    BY <2>3, AroundOrdered
<1>3. Around(r.prev, h, n) = [i \in 1 .. k |-> f[k + 1 - i]]
  <2> DEFINE g == [i \in 0 .. k + 1 |-> f[k + 1 - i]]
  <2>1. g \in [0 .. k + 1 -> C]
    BY <1>1
  <2>2. g[0] = h /\ g[k + 1] = h
    BY <1>1 DEF Ordered
  <2>3. ASSUME NEW i \in 1 .. k PROVE g[i] # h
    <3>1. k + 1 - i \in 1 .. k
      BY <1>1
    <3> QED
      BY <3>1 DEF Ordered
  <2>4. ASSUME NEW i \in 0 .. k PROVE r.prev[g[i]] = g[i + 1]
    <3>1. k - i \in 0 .. k /\ (k - i) + 1 = k + 1 - i /\ k - i = k + 1 - (i + 1)
      BY <1>1
    <3>2. r.prev[f[(k - i) + 1]] = f[k - i]
      BY <3>1 DEF Ordered
    <3>3. g[i] = f[k + 1 - i] /\ g[i + 1] = f[k + 1 - (i + 1)]
      BY <1>1
    <3> QED
      BY <3>1, <3>2, <3>3
  <2>5. Numbered(g, k) = [i \in 1 .. k |-> f[k + 1 - i]]
    BY <1>1 DEF Numbered
  <2> HIDE DEF g
  <2>6. Cycle(r.prev, h, g, k, C)
    BY <2>1, <2>2, <2>3, <2>4 DEF Cycle, Rings
  <2>7. Around(r.prev, h, n) = Numbered(g, k)
    BY <2>6, AroundOrdered
  <2> QED
    BY <2>5, <2>7
<1> QED
  BY <1>2, <1>3

(* There are as many elements as numbers. *)
LEMMA NumbersCount ==
  ASSUME NEW n \in Nat, NEW f, \A i, j \in 1 .. n : f[i] = f[j] => i = j
  PROVE  IsFiniteSet(Elements(f, n)) /\ Cardinality(Elements(f, n)) = n
<1> DEFINE g == [i \in 1 .. n |-> f[i]]
<1>1. g \in Bijection(1 .. n, Elements(f, n))
  BY DEF Bijection, Injection, IsInjective, Surjection, Elements
<1>2. ExistsBijection(1 .. n, Elements(f, n))
  BY <1>1 DEF ExistsBijection
<1>3. IsFiniteSet(1 .. n) /\ Cardinality(1 .. n) = n
  BY FS_Interval
<1> QED
  BY <1>2, <1>3, FS_Bijection
=============================================================================
