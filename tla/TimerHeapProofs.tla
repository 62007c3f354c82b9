--------------------------- MODULE TimerHeapProofs ---------------------------
(***************************************************************************)
(* Proofs about the heap of pandio's timers.  Whatever timers are started  *)
(* and stopped, the pointers form the complete binary tree that the bits   *)
(* of the size lead through, the deadlines are in heap order, and with its *)
(* root as the top the heap is the ordered set timers.c takes it for.      *)
(*                                                                         *)
(* The tree is described by the array of its nodes: a[p] is the timer at   *)
(* position p, whose children are at 2 * p and 2 * p + 1.                  *)
(***************************************************************************)
EXTENDS TimerHeap, FiniteSetTheorems, WellFoundedInduction, TLAPS

(* A set that has 0 and with each number the next one has them all. *)
LEMMA Numbers ==
  ASSUME NEW S, 0 \in S, \A n \in Nat : n \in S => n + 1 \in S
  PROVE  Nat \subseteq S
<1> DEFINE R == {p \in Nat \X Nat : p[1] < p[2]}
<1> SUFFICES ASSUME Nat \ S # {} PROVE FALSE OBVIOUS
<1>1. \E x \in Nat \ S : \A y \in Nat \ S : ~(<<y, x>> \in R)
  <2>1. IsWellFoundedOn(R, Nat) BY NatLessThanWellFounded DEF OpToRel
  <2> HIDE DEF R
  <2> QED BY <2>1, WFMin
<1>2. PICK x \in Nat \ S : \A y \in Nat \ S : ~(<<y, x>> \in R) BY <1>1
<1>3. x # 0 /\ x - 1 \in Nat OBVIOUS
<1>4. x - 1 \in S
  <2>1. <<x - 1, x>> \in R BY <1>3
  <2> QED BY <1>2, <1>3, <2>1
<1>5. x - 1 + 1 \in S BY <1>3, <1>4
<1> QED BY <1>2, <1>5

-----------------------------------------------------------------------------
(* Positions. *)
Up(p) == p \div 2

LEMMA UpIs ==
  ASSUME NEW p \in Nat \ {0}
  PROVE  /\ Up(p) \in Nat /\ Up(p) < p
         /\ p = 2 * Up(p) \/ p = 2 * Up(p) + 1
         /\ Up(p) = 0 <=> p = 1
BY DEF Up

LEMMA UpOf ==
  ASSUME NEW p \in Nat
  PROVE  Up(2 * p) = p /\ Up(2 * p + 1) = p
BY DEF Up

LEMMA UpSame ==
  ASSUME NEW p \in Nat, NEW s \in Nat
  PROVE  (s = 2 * p \/ s = 2 * p + 1) <=> Up(s) = p
BY DEF Up

(* The timer at a position, if the tree of n nodes has it. *)
Ref(a, n, p) == IF p \in 1 .. n THEN a[p] ELSE Null

Heaps == [root : Timer \cup {Null}, size : Nat, left : Links, right : Links, parent : Links]

Array(a, n) ==
  /\ n \in Nat /\ a \in [1 .. n -> Timer]
  /\ \A p, q \in 1 .. n : a[p] = a[q] => p = q

Tree(h, a, n) ==
  /\ h \in Heaps /\ h.size = n /\ Array(a, n)
  /\ h.root = Ref(a, n, 1)
  /\ \A p \in 1 .. n : /\ h.left[a[p]] = Ref(a, n, 2 * p)
                       /\ h.right[a[p]] = Ref(a, n, 2 * p + 1)
                       /\ h.parent[a[p]] = Ref(a, n, Up(p))

(* NodeAt follows the bits of the position to it. *)
LEMMA NodeAtIs ==
  ASSUME NEW h, NEW a, NEW n, Tree(h, a, n), NEW q \in 1 .. n
  PROVE  NodeAt(h, q) = a[q]
<1>0. n \in Nat /\ q \in Nat /\ a \in [1 .. n -> Timer] BY DEF Tree, Array
<1> DEFINE Walk(f) == f = [p \in 1 .. q |-> IF p = 1 THEN h.root
                              ELSE IF p % 2 = 0 THEN h.left[f[p \div 2]] ELSE h.right[f[p \div 2]]]
<1> DEFINE F == CHOOSE f : Walk(f)
<1>1. NodeAt(h, q) = F[q] BY DEF NodeAt
<1>2. \E f : Walk(f)
  <2> DEFINE b == [p \in 1 .. q |-> a[p]]
  <2>1. ASSUME NEW p \in 1 .. q
        PROVE  b[p] = IF p = 1 THEN h.root
                      ELSE IF p % 2 = 0 THEN h.left[b[p \div 2]] ELSE h.right[b[p \div 2]]
    <3>1. CASE p = 1
      <4>1. 1 \in 1 .. n /\ h.root = a[1] BY <1>0 DEF Tree, Ref
      <4> QED BY <3>1, <4>1
    <3>2. CASE p # 1
      <4>1. p \div 2 \in 1 .. q /\ p \div 2 \in 1 .. n /\ p \in 1 .. n BY <1>0, <3>2
      <4>2. CASE p % 2 = 0
        <5>1. p = 2 * (p \div 2) BY <4>2
        <5>2. h.left[a[p \div 2]] = Ref(a, n, p) BY <4>1, <5>1 DEF Tree
        <5> QED BY <3>2, <4>1, <4>2, <5>2 DEF Ref
      <4>3. CASE p % 2 # 0
        <5>1. p = 2 * (p \div 2) + 1 BY <4>3
        <5>2. h.right[a[p \div 2]] = Ref(a, n, p) BY <4>1, <5>1 DEF Tree
        <5> QED BY <3>2, <4>1, <4>3, <5>2 DEF Ref
      <4> QED BY <4>2, <4>3
    <3> QED BY <3>1, <3>2
  <2>2. Walk(b) BY <2>1
  <2> HIDE DEF Walk, b
  <2> QED BY <2>2
<1>3. Walk(F)
  <2> HIDE DEF Walk
  <2> QED BY <1>2
<1> HIDE DEF F
<1>4. ASSUME NEW p \in 1 .. q
      PROVE  F[p] = IF p = 1 THEN h.root
                    ELSE IF p % 2 = 0 THEN h.left[F[p \div 2]] ELSE h.right[F[p \div 2]]
  <2> DEFINE G == [s \in 1 .. q |-> IF s = 1 THEN h.root
                      ELSE IF s % 2 = 0 THEN h.left[F[s \div 2]] ELSE h.right[F[s \div 2]]]
  <2>1. F = G BY <1>3
  <2>2. G[p] = IF p = 1 THEN h.root
               ELSE IF p % 2 = 0 THEN h.left[F[p \div 2]] ELSE h.right[F[p \div 2]]
    OBVIOUS
  <2> QED BY <2>1, <2>2
<1> DEFINE S == {k \in Nat : \A p \in 1 .. q : p <= k => F[p] = a[p]}
<1>5. 0 \in S OBVIOUS
<1>6. ASSUME NEW k \in Nat, k \in S PROVE k + 1 \in S
  <2> SUFFICES ASSUME NEW p \in 1 .. q, p = k + 1 PROVE F[p] = a[p] BY <1>6
  <2>1. CASE p = 1 BY <1>0, <1>4, <2>1 DEF Tree, Ref
  <2>2. CASE p # 1
    <3>1. p \div 2 \in 1 .. q /\ p \div 2 \in 1 .. n /\ p \in 1 .. n /\ p \div 2 <= k BY <1>0, <2>2
    <3>2. F[p \div 2] = a[p \div 2] BY <1>6, <3>1
    <3>3. CASE p % 2 = 0
      <4>1. p = 2 * (p \div 2) BY <3>3
      <4>2. h.left[a[p \div 2]] = Ref(a, n, p) BY <3>1, <4>1 DEF Tree
      <4> QED BY <1>4, <2>2, <3>1, <3>2, <3>3, <4>2 DEF Ref
    <3>4. CASE p % 2 # 0
      <4>1. p = 2 * (p \div 2) + 1 BY <3>4
      <4>2. h.right[a[p \div 2]] = Ref(a, n, p) BY <3>1, <4>1 DEF Tree
      <4> QED BY <1>4, <2>2, <3>1, <3>2, <3>4, <4>2 DEF Ref
    <3> QED BY <3>3, <3>4
  <2> QED BY <2>1, <2>2
<1> HIDE DEF S
<1>7. Nat \subseteq S BY <1>5, <1>6, Numbers
<1> QED BY <1>0, <1>1, <1>7 DEF S

-----------------------------------------------------------------------------
(* The array with t at position p; nodes p and q of the array swapped. *)
Put(a, p, t) == [a EXCEPT ![p] = t]
Swapped(a, p, q) == [a EXCEPT ![p] = a[q], ![q] = a[p]]

Exchanged(a, b, n, p, q) ==
  /\ Array(b, n) /\ b[p] = a[q] /\ b[q] = a[p]
  /\ \A s \in 1 .. n : s # p /\ s # q => b[s] = a[s]

LEMMA SwappedArray ==
  ASSUME NEW a, NEW n, Array(a, n), NEW p \in 1 .. n, NEW q \in 1 .. n, p # q
  PROVE  Exchanged(a, Swapped(a, p, q), n, p, q)
<1> SUFFICES ASSUME NEW b, b = Swapped(a, p, q) PROVE Exchanged(a, b, n, p, q) OBVIOUS
<1>1. b \in [1 .. n -> Timer] /\ b[p] = a[q] /\ b[q] = a[p] /\ n \in Nat
      /\ \A s \in 1 .. n : s # p /\ s # q => b[s] = a[s]
  BY DEF Swapped, Array
<1>2. \A s, r \in 1 .. n : b[s] = b[r] => s = r BY <1>1 DEF Array
<1> QED BY <1>1, <1>2 DEF Array, Exchanged

Holds(a, n, X) == {a[p] : p \in 1 .. n} = X

LEMMA SwappedHolds ==
  ASSUME NEW a, NEW n, Array(a, n), NEW p \in 1 .. n, NEW q \in 1 .. n, p # q,
         NEW b, b = Swapped(a, p, q), NEW X, Holds(a, n, X)
  PROVE  Holds(b, n, X)
<1>1. /\ b[p] = a[q] /\ b[q] = a[p]
      /\ \A s \in 1 .. n : s # p /\ s # q => b[s] = a[s]
  BY SwappedArray DEF Exchanged
<1> QED BY <1>1 DEF Holds

(* heap_swap exchanges a node with its parent: the pointers of the two, of the
   node over them and of those under them are as the new places say. *)
LEMMA SwapTree ==
  ASSUME NEW h, NEW a, NEW n, Tree(h, a, n), NEW p \in 1 .. n, p # 1
  PROVE  Tree(Swap(h, a[p], a[Up(p)]), Swapped(a, p, Up(p)), n)
<1> SUFFICES ASSUME NEW u, u = Up(p), NEW c, c = a[p], NEW r, r = a[u],
                    NEW g, g = Swap(h, c, r), NEW b, b = Swapped(a, p, u)
             PROVE  Tree(g, b, n)
  OBVIOUS
<1>1. n \in Nat /\ a \in [1 .. n -> Timer] /\ \A s, v \in 1 .. n : a[s] = a[v] => s = v
  BY DEF Tree, Array
<1>2. u \in 1 .. n /\ u < p /\ (p = 2 * u \/ p = 2 * u + 1) BY <1>1, UpIs
<1>3. c \in Timer /\ r \in Timer /\ c # r /\ c # Null /\ r # Null
  BY <1>1, <1>2, TimerAssumption
<1>4. /\ Array(b, n) /\ b[p] = r /\ b[u] = c
      /\ \A s \in 1 .. n : s # p /\ s # u => b[s] = a[s]
  <2>1. Array(a, n) /\ p # u /\ b = Swapped(a, p, u) /\ u \in 1 .. n BY <1>1, <1>2 DEF Tree
  <2>2. Exchanged(a, Swapped(a, p, u), n, p, u) BY ONLY <2>1, p \in 1 .. n, SwappedArray
  <2> QED BY ONLY <2>1, <2>2, c = a[p], r = a[u] DEF Exchanged
<1>5. \A s : s # p /\ s # u => Ref(b, n, s) = Ref(a, n, s) BY <1>4 DEF Ref
<1>6. /\ Ref(a, n, p) = c /\ Ref(a, n, u) = r /\ Ref(b, n, p) = r /\ Ref(b, n, u) = c
      /\ \A s : Ref(a, n, s) = c => s = p
      /\ \A s : Ref(a, n, s) = r => s = u
  BY <1>1, <1>2, <1>3, <1>4 DEF Ref
<1> DEFINE over == h.parent[r]
<1>7. over = Ref(a, n, Up(u)) BY <1>2 DEF Tree
<1>8. /\ h.left[c] = Ref(a, n, 2 * p) /\ h.right[c] = Ref(a, n, 2 * p + 1)
      /\ h.left[r] = Ref(a, n, 2 * u) /\ h.right[r] = Ref(a, n, 2 * u + 1)
  BY <1>2 DEF Tree
<1>9. /\ h.left \in Links /\ h.right \in Links /\ h.parent \in Links
      /\ h.root \in Timer \cup {Null} /\ h.size = n
  BY DEF Tree, Heaps
<1>10. over \in Timer \cup {Null} /\ over # r /\ over # c
  <2>1. Up(u) # u /\ Up(u) # p BY <1>1, <1>2, UpIs
  <2> QED BY <1>3, <1>6, <1>7, <1>9, <2>1 DEF Links
<1> DEFINE asLeft == over # Null /\ h.left[over] = r
           l1 == IF asLeft THEN [h.left EXCEPT ![over] = c] ELSE h.left
           r1 == IF over # Null /\ ~asLeft THEN [h.right EXCEPT ![over] = c] ELSE h.right
           p1 == Set(Set(h.parent, h.left[r], c), h.right[r], c)
           p2 == Set(Set(p1, h.left[c], r), h.right[c], r)
           l2 == [l1 EXCEPT ![r] = l1[c], ![c] = IF l1[r] = c THEN r ELSE l1[r]]
           r2 == [r1 EXCEPT ![r] = r1[c], ![c] = IF r1[r] = c THEN r ELSE r1[r]]
           p3 == [p2 EXCEPT ![r] = c, ![c] = over]
<1>11. g = [h EXCEPT !.left = l2, !.right = r2, !.parent = p3, !.root = IF over = Null THEN c ELSE h.root]
  BY DEF Swap
<1>12. /\ g.left = l2 /\ g.right = r2 /\ g.parent = p3 /\ g.size = n
       /\ g.root = IF over = Null THEN c ELSE h.root
       /\ g = [root |-> g.root, size |-> g.size, left |-> l2, right |-> r2, parent |-> p3]
  <2>1. h \in Heaps BY DEF Tree
  <2> DEFINE root == IF over = Null THEN c ELSE h.root
  <2> HIDE DEF l2, r2, p3, over
  <2>2. g = [root |-> root, size |-> h.size, left |-> l2, right |-> r2, parent |-> p3]
    BY ONLY <1>11, <2>1 DEF Heaps
  <2> HIDE DEF root
  <2>3. /\ g.left = l2 /\ g.right = r2 /\ g.parent = p3 /\ g.size = h.size /\ g.root = root
        /\ g = [root |-> g.root, size |-> g.size, left |-> l2, right |-> r2, parent |-> p3]
    BY ONLY <2>2
  <2> QED BY ONLY <1>9, <2>3 DEF root
<1>13. /\ l2 \in Links /\ l2[r] = h.left[c] /\ l2[c] = IF h.left[r] = c THEN r ELSE h.left[r]
       /\ \A x \in Timer : x # r /\ x # c => l2[x] = IF x = over /\ h.left[over] = r THEN c ELSE h.left[x]
  <2> HIDE DEF over
  <2>1. /\ l1 \in Links /\ l1[c] = h.left[c] /\ l1[r] = h.left[r]
        /\ \A x \in Timer : l1[x] = IF x = over /\ h.left[over] = r THEN c ELSE h.left[x]
    BY ONLY <1>3, <1>9, <1>10, TimerAssumption DEF Links
  <2> HIDE DEF l1
  <2> QED BY ONLY <1>3, <2>1 DEF Links
<1>14. /\ r2 \in Links /\ r2[r] = h.right[c] /\ r2[c] = IF h.right[r] = c THEN r ELSE h.right[r]
       /\ \A x \in Timer : x # r /\ x # c => r2[x] = IF x = over /\ h.left[over] # r THEN c ELSE h.right[x]
  <2> HIDE DEF over
  <2>1. /\ r1 \in Links /\ r1[c] = h.right[c] /\ r1[r] = h.right[r]
        /\ \A x \in Timer : r1[x] = IF x = over /\ h.left[over] # r THEN c ELSE h.right[x]
    BY ONLY <1>3, <1>9, <1>10, TimerAssumption DEF Links
  <2> HIDE DEF r1
  <2> QED BY ONLY <1>3, <2>1 DEF Links
<1>15. /\ p3 \in Links /\ p3[r] = c /\ p3[c] = over
       /\ \A x \in Timer : x # r /\ x # c =>
            p3[x] = IF x \in {h.left[c], h.right[c]} THEN r
                    ELSE IF x \in {h.left[r], h.right[r]} THEN c ELSE h.parent[x]
  <2> HIDE DEF over
  <2>1. p1 \in Links /\ \A x \in Timer :
          p1[x] = IF x \in {h.left[r], h.right[r]} THEN c ELSE h.parent[x]
    BY <1>3, <1>9, TimerAssumption DEF Links, Set
  <2> HIDE DEF p1
  <2>2. p2 \in Links /\ \A x \in Timer :
          p2[x] = IF x \in {h.left[c], h.right[c]} THEN r ELSE p1[x]
    BY <1>3, <1>9, <2>1, TimerAssumption DEF Links, Set
  <2> HIDE DEF p2
  <2> QED BY <1>3, <1>10, <2>1, <2>2 DEF Links
<1> HIDE DEF l2, r2, p3, over
<1>16. g \in Heaps BY <1>3, <1>9, <1>12, <1>13, <1>14, <1>15, <1>1 DEF Heaps
<1>17. g.root = Ref(b, n, 1)
  <2>1. CASE u = 1
    <3>1. over = Null BY <1>7, <2>1 DEF Ref, Up
    <3> QED BY <1>6, <1>12, <2>1, <3>1
  <2>2. CASE u # 1
    <3>1. Up(u) \in 1 .. n BY <1>1, <1>2, <2>2, UpIs
    <3>2. over # Null BY <1>1, <1>7, <3>1, TimerAssumption DEF Ref
    <3>3. h.root = Ref(a, n, 1) BY DEF Tree
    <3> QED BY <1>5, <1>12, <2>2, <3>2, <3>3
  <2> QED BY <2>1, <2>2
<1>18. ASSUME NEW s \in 1 .. n
       PROVE  /\ g.left[b[s]] = Ref(b, n, 2 * s) /\ g.right[b[s]] = Ref(b, n, 2 * s + 1)
              /\ g.parent[b[s]] = Ref(b, n, Up(s))
  <2>0. s \in Nat /\ s # 0 /\ p \in Nat /\ u \in Nat /\ u # 0 /\ p # 0 /\ p # 1 BY <1>1, <1>2
  <2>1. CASE s = p
    <3>1. 2 * p # p /\ 2 * p # u /\ 2 * p + 1 # p /\ 2 * p + 1 # u BY <1>2, <2>0
    <3> QED BY <1>4, <1>5, <1>6, <1>8, <1>12, <1>13, <1>14, <1>15, <2>1, <3>1
  <2>2. CASE s = u
    <3>1. 2 * u # u /\ 2 * u + 1 # u /\ Up(u) # u /\ Up(u) # p BY <1>2, <2>0, UpIs
    <3>2. g.left[b[s]] = Ref(b, n, 2 * u) BY <1>4, <1>5, <1>6, <1>8, <1>12, <1>13, <2>2, <3>1
    <3>3. g.right[b[s]] = Ref(b, n, 2 * u + 1) BY <1>4, <1>5, <1>6, <1>8, <1>12, <1>14, <2>2, <3>1
    <3>4. g.parent[b[s]] = Ref(b, n, Up(u)) BY <1>4, <1>5, <1>7, <1>12, <1>15, <2>2, <3>1
    <3> QED BY <2>2, <3>2, <3>3, <3>4
  <2>3. CASE s # p /\ s # u
    <3> SUFFICES ASSUME NEW x, x = a[s]
                 PROVE  /\ l2[x] = Ref(b, n, 2 * s) /\ r2[x] = Ref(b, n, 2 * s + 1)
                        /\ p3[x] = Ref(b, n, Up(s))
      BY <1>4, <1>12, <2>3
    <3>1. x \in Timer /\ x # c /\ x # r /\ x # Null BY <1>1, <1>2, <2>3, TimerAssumption
    <3>2. /\ h.left[x] = Ref(a, n, 2 * s) /\ h.right[x] = Ref(a, n, 2 * s + 1)
          /\ h.parent[x] = Ref(a, n, Up(s))
      BY DEF Tree
    <3>3. 2 * s # p /\ 2 * s + 1 # p BY <1>2, <2>0, <2>3
    <3>4. x = Ref(a, n, s) BY DEF Ref
    <3>5. \A v : x = Ref(a, n, v) => v = s BY <1>1, <3>1 DEF Ref
    <3>6. x = over <=> Up(u) = s BY <1>7, <3>4, <3>5
    <3>7. Up(u) = s <=> u = 2 * s \/ u = 2 * s + 1 BY <2>0, UpSame
    <3>8. Up(s) = p <=> s = 2 * p \/ s = 2 * p + 1 BY <2>0, UpSame
    <3>9. Up(s) = u <=> s = 2 * u \/ s = 2 * u + 1 BY <2>0, UpSame
    <3>10. l2[x] = Ref(b, n, 2 * s)
      <4>1. CASE u = 2 * s
        <5>1. h.left[x] = r BY <1>6, <3>2, <4>1
        <5> QED BY <1>6, <1>13, <3>1, <3>6, <3>7, <4>1, <5>1
      <4>2. CASE u # 2 * s
        <5>1. h.left[x] # r BY <1>6, <3>2, <4>2
        <5>2. l2[x] = h.left[x] BY <1>13, <3>1, <5>1
        <5> QED BY <1>5, <3>2, <3>3, <4>2, <5>2
      <4> QED BY <4>1, <4>2
    <3>11. r2[x] = Ref(b, n, 2 * s + 1)
      <4>1. CASE u = 2 * s + 1
        <5>1. 2 * s # u BY <2>0, <4>1
        <5>2. h.left[x] # r BY <1>6, <3>2, <5>1
        <5> QED BY <1>6, <1>14, <3>1, <3>6, <3>7, <4>1, <5>2
      <4>2. CASE u # 2 * s + 1
        <5>1. x = over => h.left[x] = r BY <1>6, <3>2, <3>6, <3>7, <4>2
        <5>2. r2[x] = h.right[x] BY <1>14, <3>1, <5>1
        <5> QED BY <1>5, <3>2, <3>3, <4>2, <5>2
      <4> QED BY <4>1, <4>2
    <3>12. p3[x] = Ref(b, n, Up(s))
      <4>1. x \in {h.left[c], h.right[c]} <=> Up(s) = p BY <1>8, <3>4, <3>5, <3>8
      <4>2. x \in {h.left[r], h.right[r]} <=> Up(s) = u BY <1>8, <3>4, <3>5, <3>9
      <4> QED BY <1>5, <1>6, <1>15, <3>1, <3>2, <4>1, <4>2
    <3> QED BY <3>10, <3>11, <3>12
  <2> QED BY <2>1, <2>2, <2>3
<1> QED BY <1>4, <1>12, <1>16, <1>17, <1>18 DEF Tree

-----------------------------------------------------------------------------
(* The order of the deadlines d in the array a, but for the node at position q:
   nothing is known of it and the node over it (Rising), nor of it and those
   under it (Loose); past it the order holds. *)
Ordered(d, a, n) == \A s \in 1 .. n : s # 1 => d[a[Up(s)]] <= d[a[s]]

Past(d, a, n, q) == \A s \in 1 .. n : Up(s) = q /\ q # 1 => d[a[Up(q)]] <= d[a[s]]

Rising(d, a, n, q) ==
  /\ \A s \in 1 .. n : s # 1 /\ s # q => d[a[Up(s)]] <= d[a[s]]
  /\ Past(d, a, n, q)

Loose(d, a, n, q) ==
  /\ \A s \in 1 .. n : s # 1 /\ s # q /\ Up(s) # q => d[a[Up(s)]] <= d[a[s]]
  /\ Past(d, a, n, q)

LEMMA Dues ==
  ASSUME NEW d \in [Timer -> Nat], NEW a, NEW n, Array(a, n)
  PROVE  \A p \in 1 .. n : d[a[p]] \in Nat /\ (p # 1 => Up(p) \in 1 .. n /\ d[a[Up(p)]] \in Nat)
BY UpIs DEF Array

(* Up one place: what is put down goes under a node that is due before it. *)
LEMMA RiseStep ==
  ASSUME NEW d \in [Timer -> Nat], NEW a, NEW n, Array(a, n), NEW q \in 1 .. n, q # 1,
         Rising(d, a, n, q), d[a[q]] < d[a[Up(q)]], NEW b, b = Swapped(a, q, Up(q))
  PROVE  Rising(d, b, n, Up(q))
<1> SUFFICES ASSUME NEW u, u = Up(q) PROVE Rising(d, b, n, u) OBVIOUS
<1>1. n \in Nat /\ q \in Nat /\ u \in 1 .. n /\ u < q /\ u # q BY UpIs DEF Array
<1>2. /\ Array(b, n) /\ b[q] = a[u] /\ b[u] = a[q]
      /\ \A s \in 1 .. n : s # q /\ s # u => b[s] = a[s]
  <2>1. q # u /\ b = Swapped(a, q, u) BY <1>1
  <2>2. Exchanged(a, Swapped(a, q, u), n, q, u) BY ONLY <1>1, <2>1, Array(a, n), q \in 1 .. n, SwappedArray
  <2> QED BY <2>1, <2>2 DEF Exchanged
<1>3. /\ \A p \in 1 .. n : d[a[p]] \in Nat /\ d[b[p]] \in Nat
      /\ \A p \in 1 .. n : p # 1 => Up(p) \in 1 .. n /\ Up(p) # p
  BY <1>1, <1>2, Dues, UpIs
<1>4. ASSUME NEW s \in 1 .. n, s # 1, s # u PROVE d[b[Up(s)]] <= d[b[s]]
  <2>1. CASE s = q BY <1>1, <1>2, <2>1, <1>3
  <2>2. CASE s # q /\ Up(s) = q
    <3>1. b[s] = a[s] /\ b[Up(s)] = a[u] BY <1>2, <1>4, <2>2
    <3>2. d[a[u]] <= d[a[s]] BY <1>1, <2>2 DEF Rising, Past
    <3> QED BY <3>1, <3>2
  <2>3. CASE s # q /\ Up(s) = u
    <3>1. b[s] = a[s] /\ b[Up(s)] = a[q] BY <1>2, <1>4, <2>3
    <3>2. d[a[u]] <= d[a[s]] BY <1>4, <2>3 DEF Rising
    <3>3. d[a[q]] \in Nat /\ d[a[u]] \in Nat /\ d[a[s]] \in Nat BY <1>1, <1>3
    <3>4. d[a[q]] < d[a[u]] OBVIOUS
    <3> QED BY <3>1, <3>2, <3>3, <3>4
  <2>4. CASE s # q /\ Up(s) # q /\ Up(s) # u
    <3>1. Up(s) \in 1 .. n BY <1>3, <1>4
    <3>2. b[s] = a[s] /\ b[Up(s)] = a[Up(s)] BY <1>2, <1>4, <2>4, <3>1
    <3> QED BY <1>4, <2>4, <3>2 DEF Rising
  <2> QED BY <2>1, <2>2, <2>3, <2>4
<1>5. Past(d, b, n, u)
  <2> SUFFICES ASSUME NEW s \in 1 .. n, Up(s) = u, u # 1 PROVE d[b[Up(u)]] <= d[b[s]] BY DEF Past
  <2>1. Up(u) \in 1 .. n /\ Up(u) # u /\ Up(u) # q BY <1>1, UpIs
  <2>2. b[Up(u)] = a[Up(u)] BY <1>2, <2>1
  <2>3. d[a[Up(u)]] <= d[a[u]] BY <1>1 DEF Rising
  <2>4. d[a[Up(u)]] \in Nat /\ d[a[u]] \in Nat BY <1>1, <1>3, <2>1
  <2>5. CASE s = q BY <1>2, <2>2, <2>3, <2>5
  <2>6. CASE s # q
    <3>1. s # u /\ s # 1 BY <1>1, UpIs
    <3>2. b[s] = a[s] BY <1>2, <2>6, <3>1
    <3>3. d[a[u]] <= d[a[s]] BY <2>6, <3>1 DEF Rising
    <3>4. d[a[s]] \in Nat BY <1>3
    <3> QED BY <2>2, <2>3, <2>4, <3>2, <3>3, <3>4
  <2> QED BY <2>5, <2>6
<1> QED BY <1>4, <1>5 DEF Rising

(* Down one place, past the child that is due first. *)
LEMMA SinkStep ==
  ASSUME NEW d \in [Timer -> Nat], NEW a, NEW n, Array(a, n), NEW q \in 1 .. n,
         Loose(d, a, n, q), NEW c \in 1 .. n, Up(c) = q, c # 1, d[a[c]] <= d[a[q]],
         \A s \in 1 .. n : Up(s) = q /\ s # 1 => d[a[c]] <= d[a[s]],
         NEW b, b = Swapped(a, c, q)
  PROVE  Loose(d, b, n, c)
<1>1. n \in Nat /\ q \in Nat /\ c \in Nat /\ q < c /\ c # q BY UpIs DEF Array
<1>2. /\ Array(b, n) /\ b[c] = a[q] /\ b[q] = a[c]
      /\ \A s \in 1 .. n : s # q /\ s # c => b[s] = a[s]
  BY ONLY <1>1, Array(a, n), q \in 1 .. n, c \in 1 .. n, b = Swapped(a, c, q), SwappedArray DEF Exchanged
<1>3. /\ \A p \in 1 .. n : d[a[p]] \in Nat /\ d[b[p]] \in Nat
      /\ \A p \in 1 .. n : p # 1 => Up(p) \in 1 .. n /\ Up(p) # p
  BY <1>1, <1>2, Dues, UpIs
<1>4. ASSUME NEW s \in 1 .. n, s # 1, s # c, Up(s) # c PROVE d[b[Up(s)]] <= d[b[s]]
  <2>1. CASE s = q
    <3>1. Up(q) \in 1 .. n /\ Up(q) # q BY <1>3, <1>4, <2>1
    <3>2. b[Up(q)] = a[Up(q)] BY <1>2, <1>4, <2>1, <3>1
    <3>3. d[a[Up(q)]] <= d[a[c]] BY <1>4, <2>1 DEF Loose, Past
    <3> QED BY <1>2, <2>1, <3>2, <3>3
  <2>2. CASE s # q /\ Up(s) = q
    <3>1. b[s] = a[s] /\ b[Up(s)] = a[c] BY <1>2, <1>4, <2>2
    <3> QED BY <1>4, <2>2, <3>1
  <2>3. CASE s # q /\ Up(s) # q
    <3>1. Up(s) \in 1 .. n BY <1>3, <1>4
    <3>2. b[s] = a[s] /\ b[Up(s)] = a[Up(s)] BY <1>2, <1>4, <2>3, <3>1
    <3> QED BY <1>4, <2>3, <3>2 DEF Loose
  <2> QED BY <2>1, <2>2, <2>3
<1>5. Past(d, b, n, c)
  <2> SUFFICES ASSUME NEW s \in 1 .. n, Up(s) = c PROVE d[b[Up(c)]] <= d[b[s]] BY DEF Past
  <2>1. s # 1 /\ s # c /\ s # q BY <1>1, UpIs
  <2>2. b[s] = a[s] /\ b[Up(c)] = a[c] BY <1>2, <2>1
  <2>3. d[a[Up(s)]] <= d[a[s]] BY <1>1, <2>1 DEF Loose
  <2> QED BY <2>2, <2>3
<1> QED BY <1>4, <1>5 DEF Loose

-----------------------------------------------------------------------------
(* The two loops. A round of either changes the heap to Round. *)
Round(way, g, d, t) ==
  IF way = "up"
  THEN IF g.parent[t] # Null /\ Before(d, t, g.parent[t]) THEN Swap(g, t, g.parent[t]) ELSE g
  ELSE IF SwapNode(g, d, t) = Null \/ Before(d, t, SwapNode(g, d, t)) THEN g
       ELSE Swap(g, SwapNode(g, d, t), t)

Rounds(way, f, h, d, t, k) ==
  f = [i \in 0 .. k |-> IF i = 0 THEN h ELSE Round(way, f[i - 1], d, t)]

LEMMA RoundsAt ==
  ASSUME NEW way, NEW f, NEW h, NEW d, NEW t, NEW k \in Nat, Rounds(way, f, h, d, t, k)
  PROVE  f[0] = h /\ \A i \in 0 .. k : i # 0 => f[i] = Round(way, f[i - 1], d, t)
<1> DEFINE g == [i \in 0 .. k |-> IF i = 0 THEN h ELSE Round(way, f[i - 1], d, t)]
<1>1. f = g BY DEF Rounds
<1>2. g[0] = h /\ \A i \in 0 .. k : i # 0 => g[i] = Round(way, f[i - 1], d, t) OBVIOUS
<1> QED BY <1>1, <1>2

LEMMA RoundsExist ==
  ASSUME NEW way, NEW h, NEW d, NEW t
  PROVE  \A k \in Nat : \E f : Rounds(way, f, h, d, t, k)
<1> DEFINE S == {k \in Nat : \E f : Rounds(way, f, h, d, t, k)}
<1>1. 0 \in S
  <2> DEFINE f == [i \in 0 .. 0 |-> h]
  <2>1. f = [i \in 0 .. 0 |-> IF i = 0 THEN h ELSE Round(way, f[i - 1], d, t)] OBVIOUS
  <2>2. Rounds(way, f, h, d, t, 0) BY <2>1 DEF Rounds
  <2> QED BY <2>2
<1>2. ASSUME NEW k \in Nat, k \in S PROVE k + 1 \in S
  <2>1. PICK f : Rounds(way, f, h, d, t, k) BY <1>2
  <2> DEFINE g == [i \in 0 .. k + 1 |-> IF i <= k THEN f[i] ELSE Round(way, f[k], d, t)]
  <2>2. ASSUME NEW i \in 0 .. k + 1
        PROVE  g[i] = IF i = 0 THEN h ELSE Round(way, g[i - 1], d, t)
    <3>1. CASE i = 0 BY <2>1, <3>1, RoundsAt
    <3>2. CASE i # 0 /\ i <= k
      <4>1. i \in 0 .. k /\ i - 1 \in 0 .. k + 1 /\ i - 1 <= k BY <3>2
      <4>2. f[i] = Round(way, f[i - 1], d, t) BY <2>1, <3>2, <4>1, RoundsAt
      <4>3. g[i] = f[i] /\ g[i - 1] = f[i - 1] BY <3>2, <4>1
      <4> QED BY <3>2, <4>2, <4>3
    <3>3. CASE i = k + 1
      <4>1. i - 1 = k /\ k \in 0 .. k + 1 /\ i # 0 /\ ~(i <= k) BY <3>3
      <4>2. g[i] = Round(way, f[k], d, t) /\ g[k] = f[k] BY <4>1
      <4> QED BY <4>1, <4>2
    <3> QED BY <3>1, <3>2, <3>3
  <2>3. g = [i \in 0 .. k + 1 |-> IF i = 0 THEN h ELSE Round(way, g[i - 1], d, t)] BY <2>2
  <2>4. Rounds(way, g, h, d, t, k + 1) BY <2>3 DEF Rounds
  <2> QED BY <2>4
<1> HIDE DEF S
<1>3. Nat \subseteq S BY <1>1, <1>2, Numbers
<1> QED BY <1>3 DEF S

LEMMA SiftUpIs ==
  ASSUME NEW h, NEW d, NEW t, h.size \in Nat
  PROVE  \E f : Rounds("up", f, h, d, t, h.size) /\ SiftUp(h, d, t) = f[h.size]
<1> DEFINE UpRounds(f) ==
      f = [i \in 0 .. h.size |->
             IF i = 0 THEN h
             ELSE IF f[i - 1].parent[t] # Null /\ Before(d, t, f[i - 1].parent[t])
                  THEN Swap(f[i - 1], t, f[i - 1].parent[t]) ELSE f[i - 1]]
<1> DEFINE F == CHOOSE f : UpRounds(f)
<1>1. SiftUp(h, d, t) = F[h.size] BY DEF SiftUp
<1>2. ASSUME NEW f PROVE UpRounds(f) <=> Rounds("up", f, h, d, t, h.size)
  BY DEF Rounds, Round
<1> HIDE DEF UpRounds
<1>3. UpRounds(F) BY <1>2, RoundsExist
<1> QED BY <1>1, <1>2, <1>3

LEMMA SiftDownIs ==
  ASSUME NEW h, NEW d, NEW t, h.size \in Nat
  PROVE  \E f : Rounds("down", f, h, d, t, h.size) /\ SiftDown(h, d, t) = f[h.size]
<1> DEFINE DownRounds(f) ==
      f = [i \in 0 .. h.size |->
             IF i = 0 THEN h
             ELSE IF SwapNode(f[i - 1], d, t) = Null \/ Before(d, t, SwapNode(f[i - 1], d, t))
                  THEN f[i - 1] ELSE Swap(f[i - 1], SwapNode(f[i - 1], d, t), t)]
<1> DEFINE F == CHOOSE f : DownRounds(f)
<1>1. SiftDown(h, d, t) = F[h.size] BY DEF SiftDown
<1>2. ASSUME NEW f PROVE DownRounds(f) <=> Rounds("down", f, h, d, t, h.size)
  BY DEF Rounds, Round
<1> HIDE DEF DownRounds
<1>3. DownRounds(F) BY <1>2, RoundsExist
<1> QED BY <1>1, <1>2, <1>3

-----------------------------------------------------------------------------
(* After i rounds on the way up timer t is where the order is right, or i
   places nearer to the root. *)
RoseTo(g, d, n, t, X, i) ==
  \E b, r : /\ Tree(g, b, n) /\ Holds(b, n, X) /\ r \in 1 .. n /\ b[r] = t /\ Rising(d, b, n, r)
            /\ (r # 1 => d[b[Up(r)]] <= d[b[r]]) \/ r + i <= n

LEMMA RoseOn ==
  ASSUME NEW d \in [Timer -> Nat], NEW g, NEW n, NEW t, NEW X, NEW i \in Nat, RoseTo(g, d, n, t, X, i)
  PROVE  RoseTo(Round("up", g, d, t), d, n, t, X, i + 1)
<1>1. PICK b, r : /\ Tree(g, b, n) /\ Holds(b, n, X) /\ r \in 1 .. n /\ b[r] = t /\ Rising(d, b, n, r)
                  /\ (r # 1 => d[b[Up(r)]] <= d[b[r]]) \/ r + i <= n
  BY DEF RoseTo
<1>2. Array(b, n) /\ n \in Nat /\ b \in [1 .. n -> Timer] /\ r \in Nat /\ d[b[r]] \in Nat
  BY <1>1, Dues DEF Tree, Array
<1>3. g.parent[t] = Ref(b, n, Up(r)) BY <1>1 DEF Tree
<1>4. CASE r = 1
  <2>1. g.parent[t] = Null BY <1>3, <1>4 DEF Ref, Up
  <2>2. Round("up", g, d, t) = g BY <2>1 DEF Round
  <2> QED BY <1>1, <1>4, <2>2 DEF RoseTo
<1>5. CASE r # 1
  <2>1. /\ Up(r) \in 1 .. n /\ Up(r) < r /\ Up(r) \in Nat /\ g.parent[t] = b[Up(r)] /\ g.parent[t] # Null
        /\ d[b[Up(r)]] \in Nat
    <3>1. Up(r) \in 1 .. n /\ Up(r) < r /\ Up(r) \in Nat BY <1>2, <1>5, UpIs, <1>1
    <3> QED BY <1>2, <1>3, <3>1, TimerAssumption DEF Ref
  <2>2. CASE d[b[r]] < d[b[Up(r)]]
    <3>1. Round("up", g, d, t) = Swap(g, b[r], b[Up(r)]) BY <1>1, <2>1, <2>2 DEF Round, Before
    <3> SUFFICES ASSUME NEW c, c = Swapped(b, r, Up(r)) PROVE RoseTo(Round("up", g, d, t), d, n, t, X, i + 1)
      OBVIOUS
    <3>2. Tree(Round("up", g, d, t), c, n) BY <1>1, <1>5, <3>1, SwapTree
    <3>3. r # Up(r) BY <1>2, <2>1
    <3>4. Holds(c, n, X) BY ONLY <1>1, <1>2, <2>1, <3>3, c = Swapped(b, r, Up(r)), SwappedHolds
    <3>5. c[Up(r)] = t
      <4>1. Exchanged(b, c, n, r, Up(r))
        BY ONLY <1>1, <1>2, <2>1, <3>3, c = Swapped(b, r, Up(r)), SwappedArray
      <4> QED BY <1>1, <4>1 DEF Exchanged
    <3>6. Rising(d, c, n, Up(r)) BY <1>1, <1>2, <1>5, <2>2, RiseStep
    <3>7. r + i <= n BY <1>1, <1>2, <1>5, <2>1, <2>2
    <3>8. Up(r) + (i + 1) <= n BY <1>2, <2>1, <3>7
    <3> QED BY <2>1, <3>2, <3>4, <3>5, <3>6, <3>8 DEF RoseTo
  <2>3. CASE ~(d[b[r]] < d[b[Up(r)]])
    <3>1. Round("up", g, d, t) = g BY <1>1, <2>1, <2>3 DEF Round, Before
    <3>2. d[b[Up(r)]] <= d[b[r]] BY <1>2, <2>1, <2>3
    <3> QED BY <1>1, <3>1, <3>2 DEF RoseTo
  <2> QED BY <2>2, <2>3
<1> QED BY <1>4, <1>5

LEMMA SiftUpOK ==
  ASSUME NEW d \in [Timer -> Nat], NEW h, NEW a, NEW n, Tree(h, a, n), NEW X, Holds(a, n, X),
         NEW q \in 1 .. n, Rising(d, a, n, q), NEW t, a[q] = t
  PROVE  \E b : Tree(SiftUp(h, d, t), b, n) /\ Holds(b, n, X) /\ Ordered(d, b, n)
<1>1. n \in Nat /\ h.size = n BY DEF Tree, Array
<1>2. PICK f : Rounds("up", f, h, d, t, n) /\ SiftUp(h, d, t) = f[n] BY <1>1, SiftUpIs
<1> DEFINE S == {i \in Nat : i <= n => RoseTo(f[i], d, n, t, X, i)}
<1>3. 0 \in S
  <2>1. f[0] = h BY <1>1, <1>2, RoundsAt
  <2>2. q + 0 <= n BY <1>1
  <2> QED BY <2>1, <2>2 DEF RoseTo
<1>4. ASSUME NEW i \in Nat, i \in S PROVE i + 1 \in S
  <2> SUFFICES ASSUME i + 1 <= n PROVE RoseTo(f[i + 1], d, n, t, X, i + 1) OBVIOUS
  <2>1. i + 1 \in 0 .. n /\ i + 1 # 0 /\ i + 1 - 1 = i /\ i <= n BY <1>1
  <2>2. f[i + 1] = Round("up", f[i], d, t)
    <3>1. \A j \in 0 .. n : j # 0 => f[j] = Round("up", f[j - 1], d, t)
      BY ONLY <1>1, <1>2, RoundsAt
    <3>2. f[i + 1] = Round("up", f[i + 1 - 1], d, t) BY ONLY <2>1, <3>1
    <3> QED BY <2>1, <3>2
  <2>3. RoseTo(f[i], d, n, t, X, i) BY <1>4, <2>1
  <2> QED BY <2>2, <2>3, RoseOn
<1> HIDE DEF S
<1>5. Nat \subseteq S BY <1>3, <1>4, Numbers
<1>6. RoseTo(f[n], d, n, t, X, n) BY <1>1, <1>5 DEF S
<1>7. PICK b, r : /\ Tree(f[n], b, n) /\ Holds(b, n, X) /\ r \in 1 .. n /\ Rising(d, b, n, r)
                  /\ (r # 1 => d[b[Up(r)]] <= d[b[r]]) \/ r + n <= n
  BY <1>6 DEF RoseTo
<1>8. r # 1 => d[b[Up(r)]] <= d[b[r]] BY <1>1, <1>7
<1>9. Ordered(d, b, n) BY <1>7, <1>8 DEF Ordered, Rising
<1> QED BY <1>2, <1>7, <1>9

(* After i rounds on the way down timer t is due before what is under it, or at
   a position over i; what the loop compares it with is its earlier child. *)
SankTo(g, d, n, t, X, i) ==
  \E b, r : /\ Tree(g, b, n) /\ Holds(b, n, X) /\ r \in 1 .. n /\ b[r] = t /\ Loose(d, b, n, r)
            /\ (\A s \in 1 .. n : Up(s) = r => d[b[r]] < d[b[s]]) \/ r > i

LEMMA SwapNodeIs ==
  ASSUME NEW d \in [Timer -> Nat], NEW g, NEW b, NEW n, Tree(g, b, n), NEW r \in 1 .. n
  PROVE  \/ SwapNode(g, d, b[r]) = Null /\ \A s \in 1 .. n : Up(s) # r
         \/ \E c \in 1 .. n : /\ SwapNode(g, d, b[r]) = b[c] /\ Up(c) = r
                              /\ \A s \in 1 .. n : Up(s) = r => d[b[c]] <= d[b[s]]
<1>1. /\ Array(b, n) /\ n \in Nat /\ b \in [1 .. n -> Timer] /\ r \in Nat /\ r # 0
      /\ \A s \in 1 .. n : d[b[s]] \in Nat /\ b[s] # Null
  <2>1. Array(b, n) /\ n \in Nat /\ b \in [1 .. n -> Timer] BY DEF Tree, Array
  <2> QED BY <2>1, TimerAssumption
<1>2. g.left[b[r]] = Ref(b, n, 2 * r) /\ g.right[b[r]] = Ref(b, n, 2 * r + 1) BY DEF Tree
<1>3. \A s \in 1 .. n : Up(s) = r <=> (s = 2 * r \/ s = 2 * r + 1)
  <2>1. \A s \in Nat : Up(s) = r <=> (s = 2 * r \/ s = 2 * r + 1) BY <1>1, UpSame
  <2> QED BY <1>1, <2>1
<1>4. CASE ~(2 * r <= n)
  <2>1. g.left[b[r]] = Null /\ g.right[b[r]] = Null BY <1>1, <1>2, <1>4 DEF Ref
  <2>2. \A s \in 1 .. n : Up(s) # r BY <1>1, <1>3, <1>4
  <2> QED BY <2>1, <2>2 DEF SwapNode
<1>5. CASE 2 * r <= n /\ ~(2 * r + 1 <= n)
  <2>1. 2 * r \in 1 .. n /\ 2 * r + 1 \notin 1 .. n BY <1>1, <1>5
  <2>2. g.left[b[r]] = b[2 * r] /\ g.right[b[r]] = Null BY <1>2, <2>1 DEF Ref
  <2>3. SwapNode(g, d, b[r]) = b[2 * r] BY <1>1, <2>1, <2>2 DEF SwapNode
  <2>4. \A s \in 1 .. n : Up(s) = r => d[b[2 * r]] <= d[b[s]] BY <1>1, <1>3, <2>1
  <2> QED BY <1>3, <2>1, <2>3, <2>4
<1>6. CASE 2 * r + 1 <= n
  <2>1. 2 * r \in 1 .. n /\ 2 * r + 1 \in 1 .. n BY <1>1, <1>6
  <2>2. g.left[b[r]] = b[2 * r] /\ g.right[b[r]] = b[2 * r + 1] BY <1>2, <2>1 DEF Ref
  <2>3. CASE d[b[2 * r]] < d[b[2 * r + 1]]
    <3>1. SwapNode(g, d, b[r]) = b[2 * r] BY <1>1, <2>1, <2>2, <2>3 DEF SwapNode, Before
    <3>2. \A s \in 1 .. n : Up(s) = r => d[b[2 * r]] <= d[b[s]]
      <4> SUFFICES ASSUME NEW s \in 1 .. n, Up(s) = r PROVE d[b[2 * r]] <= d[b[s]] OBVIOUS
      <4>1. s = 2 * r \/ s = 2 * r + 1 BY ONLY <1>3, s \in 1 .. n, Up(s) = r
      <4>2. d[b[2 * r]] \in Nat /\ d[b[2 * r + 1]] \in Nat BY ONLY <1>1, <2>1
      <4> QED BY ONLY <2>3, <4>1, <4>2
    <3>3. Up(2 * r) = r BY <1>3, <2>1
    <3> QED BY ONLY <2>1, <3>1, <3>2, <3>3
  <2>4. CASE ~(d[b[2 * r]] < d[b[2 * r + 1]])
    <3>1. SwapNode(g, d, b[r]) = b[2 * r + 1] BY <1>1, <2>1, <2>2, <2>4 DEF SwapNode, Before
    <3>2. \A s \in 1 .. n : Up(s) = r => d[b[2 * r + 1]] <= d[b[s]]
      <4> SUFFICES ASSUME NEW s \in 1 .. n, Up(s) = r PROVE d[b[2 * r + 1]] <= d[b[s]] OBVIOUS
      <4>1. s = 2 * r \/ s = 2 * r + 1 BY ONLY <1>3, s \in 1 .. n, Up(s) = r
      <4>2. d[b[2 * r]] \in Nat /\ d[b[2 * r + 1]] \in Nat BY ONLY <1>1, <2>1
      <4> QED BY ONLY <2>4, <4>1, <4>2
    <3>3. Up(2 * r + 1) = r BY <1>3, <2>1
    <3> QED BY ONLY <2>1, <3>1, <3>2, <3>3
  <2> QED BY <2>3, <2>4
<1> QED BY <1>1, <1>4, <1>5, <1>6

LEMMA SankOn ==
  ASSUME NEW d \in [Timer -> Nat], NEW g, NEW n, NEW t, NEW X, NEW i \in Nat, SankTo(g, d, n, t, X, i)
  PROVE  SankTo(Round("down", g, d, t), d, n, t, X, i + 1)
<1>1. PICK b, r : /\ Tree(g, b, n) /\ Holds(b, n, X) /\ r \in 1 .. n /\ b[r] = t /\ Loose(d, b, n, r)
                  /\ (\A s \in 1 .. n : Up(s) = r => d[b[r]] < d[b[s]]) \/ r > i
  BY DEF SankTo
<1>2. /\ Array(b, n) /\ n \in Nat /\ b \in [1 .. n -> Timer] /\ r \in Nat /\ r # 0
      /\ \A s \in 1 .. n : d[b[s]] \in Nat /\ b[s] # Null
  <2>1. Array(b, n) /\ n \in Nat /\ b \in [1 .. n -> Timer] BY <1>1 DEF Tree, Array
  <2> QED BY <1>1, <2>1, TimerAssumption
<1>3. CASE SwapNode(g, d, t) = Null /\ \A s \in 1 .. n : Up(s) # r
  <2>1. Round("down", g, d, t) = g BY <1>3 DEF Round
  <2> QED BY <1>1, <1>3, <2>1 DEF SankTo
<1>4. ASSUME NEW c \in 1 .. n, SwapNode(g, d, t) = b[c], Up(c) = r,
             \A s \in 1 .. n : Up(s) = r => d[b[c]] <= d[b[s]]
      PROVE  SankTo(Round("down", g, d, t), d, n, t, X, i + 1)
  <2>1. c \in Nat /\ c # 1 /\ r < c /\ c # r /\ b[c] # Null BY <1>2, <1>4, UpIs
  <2>2. CASE d[t] < d[b[c]]
    <3>1. Round("down", g, d, t) = g BY <1>4, <2>2 DEF Round, Before
    <3>2. \A s \in 1 .. n : Up(s) = r => d[b[r]] < d[b[s]] BY <1>1, <1>2, <1>4, <2>2
    <3> QED BY <1>1, <3>1, <3>2 DEF SankTo
  <2>3. CASE ~(d[t] < d[b[c]])
    <3>1. Round("down", g, d, t) = Swap(g, b[c], b[Up(c)]) BY <1>1, <1>4, <2>1, <2>3 DEF Round, Before
    <3>2. d[b[c]] <= d[b[r]] BY <1>1, <1>2, <2>3
    <3> SUFFICES ASSUME NEW e, e = Swapped(b, c, Up(c)), e = Swapped(b, c, r)
                 PROVE  SankTo(Round("down", g, d, t), d, n, t, X, i + 1)
      BY <1>4
    <3>3. Tree(Round("down", g, d, t), e, n) BY <1>1, <2>1, <3>1, SwapTree
    <3>4. Holds(e, n, X) BY ONLY <1>1, <1>2, <1>4, <2>1, e = Swapped(b, c, r), SwappedHolds
    <3>5. e[c] = t
      <4>1. Exchanged(b, e, n, c, r)
        BY ONLY <1>1, <1>2, <1>4, <2>1, e = Swapped(b, c, r), SwappedArray
      <4> QED BY <1>1, <4>1 DEF Exchanged
    <3>6. Loose(d, e, n, c) BY <1>1, <1>2, <1>4, <2>1, <3>2, SinkStep
    <3>7. r > i BY <1>1, <1>2, <1>4, <3>2
    <3>8. c > i + 1 BY <1>2, <2>1, <3>7
    <3> QED BY <3>3, <3>4, <3>5, <3>6, <3>8 DEF SankTo
  <2> QED BY <2>2, <2>3
<1> QED
  <2>1. \/ SwapNode(g, d, b[r]) = Null /\ \A s \in 1 .. n : Up(s) # r
        \/ \E c \in 1 .. n : /\ SwapNode(g, d, b[r]) = b[c] /\ Up(c) = r
                             /\ \A s \in 1 .. n : Up(s) = r => d[b[c]] <= d[b[s]]
    BY ONLY <1>1, d \in [Timer -> Nat], SwapNodeIs
  <2>2. b[r] = t BY <1>1
  <2> QED BY ONLY <1>3, <1>4, <2>1, <2>2

LEMMA SiftDownOK ==
  ASSUME NEW d \in [Timer -> Nat], NEW h, NEW a, NEW n, Tree(h, a, n), NEW X, Holds(a, n, X),
         NEW q \in 1 .. n, Loose(d, a, n, q), NEW t, a[q] = t
  PROVE  \E b, r : /\ Tree(SiftDown(h, d, t), b, n) /\ Holds(b, n, X)
                   /\ r \in 1 .. n /\ b[r] = t /\ Rising(d, b, n, r)
<1>1. n \in Nat /\ h.size = n BY DEF Tree, Array
<1>2. PICK f : Rounds("down", f, h, d, t, n) /\ SiftDown(h, d, t) = f[n] BY <1>1, SiftDownIs
<1> DEFINE S == {i \in Nat : i <= n => SankTo(f[i], d, n, t, X, i)}
<1>3. 0 \in S
  <2>1. f[0] = h BY <1>1, <1>2, RoundsAt
  <2>2. q > 0 BY <1>1
  <2> QED BY <2>1, <2>2 DEF SankTo
<1>4. ASSUME NEW i \in Nat, i \in S PROVE i + 1 \in S
  <2> SUFFICES ASSUME i + 1 <= n PROVE SankTo(f[i + 1], d, n, t, X, i + 1) OBVIOUS
  <2>1. i + 1 \in 0 .. n /\ i + 1 # 0 /\ i + 1 - 1 = i /\ i <= n BY <1>1
  <2>2. f[i + 1] = Round("down", f[i], d, t)
    <3>1. \A j \in 0 .. n : j # 0 => f[j] = Round("down", f[j - 1], d, t)
      BY ONLY <1>1, <1>2, RoundsAt
    <3>2. f[i + 1] = Round("down", f[i + 1 - 1], d, t) BY ONLY <2>1, <3>1
    <3> QED BY <2>1, <3>2
  <2>3. SankTo(f[i], d, n, t, X, i) BY <1>4, <2>1
  <2> QED BY <2>2, <2>3, SankOn
<1> HIDE DEF S
<1>5. Nat \subseteq S BY <1>3, <1>4, Numbers
<1>6. SankTo(f[n], d, n, t, X, n) BY <1>1, <1>5 DEF S
<1>7. PICK b, r : /\ Tree(f[n], b, n) /\ Holds(b, n, X) /\ r \in 1 .. n /\ b[r] = t /\ Loose(d, b, n, r)
                  /\ (\A s \in 1 .. n : Up(s) = r => d[b[r]] < d[b[s]]) \/ r > n
  BY <1>6 DEF SankTo
<1>8. \A s \in 1 .. n : Up(s) = r => d[b[r]] < d[b[s]] BY <1>1, <1>7
<1>9. Array(b, n) /\ \A s \in 1 .. n : d[b[s]] \in Nat
  <2>1. Array(b, n) BY <1>7 DEF Tree
  <2> QED BY <2>1, Dues
<1>10. Rising(d, b, n, r)
  <2>1. ASSUME NEW s \in 1 .. n, s # 1, s # r PROVE d[b[Up(s)]] <= d[b[s]]
    <3>1. CASE Up(s) = r BY <1>7, <1>8, <1>9, <3>1
    <3>2. CASE Up(s) # r BY <1>7, <2>1, <3>2 DEF Loose
    <3> QED BY <3>1, <3>2
  <2> QED BY <1>7, <2>1 DEF Rising, Loose
<1> QED BY <1>2, <1>7, <1>10

-----------------------------------------------------------------------------
(* heap_insert puts the new node at the first free position and lets it rise. *)
Sorted(h, d, n, X) == \E a : Tree(h, a, n) /\ Holds(a, n, X) /\ Ordered(d, a, n)

LEMMA NextPlace ==
  ASSUME NEW n \in Nat, n # 0
  PROVE  /\ Up(n + 1) \in 1 .. n /\ Up(n + 1) < n + 1
         /\ n + 1 = 2 * Up(n + 1) \/ n + 1 = 2 * Up(n + 1) + 1
<1>1. n + 1 \in Nat \ {0} /\ n + 1 # 1 OBVIOUS
<1>2. /\ Up(n + 1) \in Nat /\ Up(n + 1) < n + 1 /\ Up(n + 1) # 0
      /\ n + 1 = 2 * Up(n + 1) \/ n + 1 = 2 * Up(n + 1) + 1
  BY ONLY <1>1, UpIs
<1> QED BY <1>2

IsEmptied(e, h, t) ==
  /\ e \in Heaps /\ e.root = h.root /\ e.size = h.size /\ e.parent = h.parent
  /\ e.left[t] = Null /\ e.right[t] = Null
  /\ \A x \in Timer : x # t => e.left[x] = h.left[x] /\ e.right[x] = h.right[x]

LEMMA EmptiedIs ==
  ASSUME NEW h \in Heaps, NEW t \in Timer, NEW e, e = Emptied(h, t)
  PROVE  IsEmptied(e, h, t)
<1>1. h.left \in Links /\ h.right \in Links /\ h.parent \in Links BY DEF Heaps
<1>2. e = [root |-> h.root, size |-> h.size, left |-> [h.left EXCEPT ![t] = Null],
           right |-> [h.right EXCEPT ![t] = Null], parent |-> h.parent]
  BY DEF Emptied, Heaps
<1>3. /\ [h.left EXCEPT ![t] = Null] \in Links /\ [h.right EXCEPT ![t] = Null] \in Links
      /\ [h.left EXCEPT ![t] = Null][t] = Null /\ [h.right EXCEPT ![t] = Null][t] = Null
      /\ \A x \in Timer : x # t => /\ [h.left EXCEPT ![t] = Null][x] = h.left[x]
                                    /\ [h.right EXCEPT ![t] = Null][x] = h.right[x]
  BY <1>1 DEF Links
<1>4. e \in Heaps BY <1>1, <1>2, <1>3 DEF Heaps
<1> QED BY <1>2, <1>3, <1>4 DEF IsEmptied

LEMMA InsertOK ==
  ASSUME NEW d \in [Timer -> Nat], NEW h, NEW a, NEW n, Tree(h, a, n), NEW X, Holds(a, n, X),
         Ordered(d, a, n), NEW t \in Timer, t \notin X
  PROVE  Sorted(Insert(h, d, t), d, n + 1, X \cup {t})
<1>1. /\ n \in Nat /\ a \in [1 .. n -> Timer] /\ h.size = n /\ h \in Heaps /\ t # Null
      /\ \A p \in 1 .. n : a[p] # t /\ a[p] # Null /\ a[p] \in Timer
      /\ \A p, q \in 1 .. n : a[p] = a[q] => p = q
  <2>1. /\ n \in Nat /\ a \in [1 .. n -> Timer] /\ h.size = n /\ h \in Heaps
        /\ \A p, q \in 1 .. n : a[p] = a[q] => p = q
    BY ONLY Tree(h, a, n) DEF Tree, Array
  <2>2. \A p \in 1 .. n : a[p] # t /\ a[p] \in Timer BY ONLY <2>1, Holds(a, n, X), t \notin X DEF Holds
  <2> QED BY ONLY <2>1, <2>2, t \in Timer, TimerAssumption
<1>2. h.left \in Links /\ h.right \in Links /\ h.parent \in Links /\ h.root \in Timer \cup {Null}
  BY <1>1 DEF Heaps
<1> SUFFICES ASSUME NEW m, m = n + 1, NEW b, b = [p \in 1 .. m |-> IF p = m THEN t ELSE a[p]]
             PROVE  Sorted(Insert(h, d, t), d, m, X \cup {t})
  OBVIOUS
<1>3. /\ m \in Nat /\ m \in 1 .. m /\ b \in [1 .. m -> Timer] /\ b[m] = t
      /\ \A p \in 1 .. n : p \in 1 .. m /\ p # m /\ b[p] = a[p]
      /\ \A p \in 1 .. m : p = m \/ p \in 1 .. n
  BY <1>1
<1>4. Array(b, m) BY <1>1, <1>3 DEF Array
<1>5. Holds(b, m, X \cup {t}) BY <1>3 DEF Holds
<1>6. CASE n = 0
  <2>1. h.root = Null BY <1>6 DEF Tree, Ref
  <2> SUFFICES ASSUME NEW g, g = [Emptied(h, t) EXCEPT !.root = t, !.size = h.size + 1, !.parent[t] = Null]
               PROVE  Sorted(g, d, m, X \cup {t})
    BY <2>1 DEF Insert
  <2>2. PICK e : e = Emptied(h, t) OBVIOUS
  <2>3. /\ e \in Heaps /\ e.left[t] = Null /\ e.right[t] = Null /\ e.parent \in Links
    BY <1>1, <2>2, EmptiedIs DEF IsEmptied, Heaps
  <2>4. /\ g \in Heaps /\ g.root = t /\ g.size = 1
        /\ g.left[t] = Null /\ g.right[t] = Null /\ g.parent[t] = Null
    <3>1. g = [root |-> t, size |-> 1, left |-> e.left, right |-> e.right,
               parent |-> [e.parent EXCEPT ![t] = Null]]
      <4>1. h.size + 1 = 1 BY <1>1, <1>6
      <4>2. g = [e EXCEPT !.root = t, !.size = 1, !.parent[t] = Null] BY <2>2, <4>1
      <4> QED BY ONLY <2>3, <4>2 DEF Heaps
    <3>2. [e.parent EXCEPT ![t] = Null] \in Links /\ [e.parent EXCEPT ![t] = Null][t] = Null
      BY <2>3 DEF Links
    <3>3. g.root = t /\ g.size = 1 /\ g.left[t] = Null /\ g.right[t] = Null /\ g.parent[t] = Null
      BY ONLY <2>3, <3>1, <3>2
    <3>4. e.left \in Links /\ e.right \in Links BY <2>3 DEF Heaps
    <3>5. g \in Heaps BY ONLY <3>1, <3>2, <3>4, t \in Timer DEF Heaps
    <3> QED BY <3>3, <3>5
  <2>5. Tree(g, b, m)
    <3>1. /\ Ref(b, m, 1) = t /\ Ref(b, m, 2 * 1) = Null /\ Ref(b, m, 2 * 1 + 1) = Null
          /\ Ref(b, m, Up(1)) = Null
      BY <1>1, <1>3, <1>6 DEF Ref, Up
    <3>2. \A p \in 1 .. m : p = 1 /\ b[p] = t BY <1>3, <1>6
    <3> QED BY <1>4, <1>6, <2>4, <3>1, <3>2 DEF Tree
  <2>6. Ordered(d, b, m) BY <1>1, <1>6 DEF Ordered
  <2> QED BY <1>5, <2>5, <2>6 DEF Sorted
<1>7. CASE n # 0
  <2>1. h.root # Null BY <1>1, <1>7 DEF Tree, Ref
  <2> SUFFICES ASSUME NEW u, u = Up(m), NEW last, last = a[u],
                      NEW linked, linked = IF h.left[last] = Null THEN [h EXCEPT !.left[last] = t]
                                           ELSE [h EXCEPT !.right[last] = t],
                      NEW g, g = [Emptied(linked, t) EXCEPT !.size = h.size + 1, !.parent[t] = last]
               PROVE  Sorted(SiftUp(g, d, t), d, m, X \cup {t})
    <3>1. Up(m) \in 1 .. n BY <1>1, <1>7, NextPlace
    <3>2. NodeAt(h, Up(m)) = a[Up(m)] BY <3>1, NodeAtIs
    <3>3. (h.size + 1) \div 2 = Up(m) BY <1>1 DEF Up
    <3> QED BY <2>1, <3>2, <3>3 DEF Insert
  <2>2. u \in 1 .. n /\ u \in Nat /\ (m = 2 * u \/ m = 2 * u + 1) /\ u < m /\ u # 0
    BY <1>1, <1>7, NextPlace
  <2>3. last \in Timer /\ last # t /\ last # Null BY <1>1, <2>2
  <2>4. /\ h.left[last] = Ref(a, n, 2 * u) /\ h.right[last] = Ref(a, n, 2 * u + 1) BY <2>2 DEF Tree
  <2>5. h.left[last] = Null <=> m = 2 * u BY <1>1, <2>2, <2>4 DEF Ref
  <2>6. /\ linked \in Heaps /\ linked.root = h.root /\ linked.size = n /\ linked.parent = h.parent
        /\ linked.left = IF m = 2 * u THEN [h.left EXCEPT ![last] = t] ELSE h.left
        /\ linked.right = IF m = 2 * u THEN h.right ELSE [h.right EXCEPT ![last] = t]
    BY <1>1, <1>2, <2>3, <2>5 DEF Heaps, Links
  <2>7. PICK e : e = Emptied(linked, t) OBVIOUS
  <2>8. /\ e \in Heaps /\ e.left[t] = Null /\ e.right[t] = Null /\ e.root = h.root /\ e.parent = h.parent
        /\ \A x \in Timer : x # t => e.left[x] = linked.left[x] /\ e.right[x] = linked.right[x]
    <3>1. IsEmptied(e, linked, t) BY ONLY <2>6, <2>7, t \in Timer, EmptiedIs
    <3> QED BY <2>6, <3>1 DEF IsEmptied
  <2>9. g = [root |-> h.root, size |-> m, left |-> e.left, right |-> e.right,
             parent |-> [h.parent EXCEPT ![t] = last]]
    <3>1. g = [e EXCEPT !.size = m, !.parent[t] = last] BY <1>1, <2>7
    <3> QED BY ONLY <2>8, <3>1 DEF Heaps
  <2>10. /\ g.left[t] = Null
         /\ \A x \in Timer : x # t => g.left[x] = IF x = last /\ m = 2 * u THEN t ELSE h.left[x]
    <3>1. g.left = e.left BY ONLY <2>9
    <3>2. \A x \in Timer : linked.left[x] = IF x = last /\ m = 2 * u THEN t ELSE h.left[x]
      BY ONLY <1>2, <2>3, <2>6 DEF Links
    <3> QED BY ONLY <2>8, <3>1, <3>2
  <2>11. /\ g.right[t] = Null
         /\ \A x \in Timer : x # t => g.right[x] = IF x = last /\ m # 2 * u THEN t ELSE h.right[x]
    <3>1. g.right = e.right BY ONLY <2>9
    <3>2. \A x \in Timer : linked.right[x] = IF x = last /\ m # 2 * u THEN t ELSE h.right[x]
      BY ONLY <1>2, <2>3, <2>6 DEF Links
    <3> QED BY ONLY <2>8, <3>1, <3>2
  <2>12. /\ g.parent[t] = last /\ g.parent \in Links
         /\ \A x \in Timer : x # t => g.parent[x] = h.parent[x]
    <3>1. g.parent = [h.parent EXCEPT ![t] = last] BY ONLY <2>9
    <3> QED BY ONLY <1>2, <2>3, <3>1, t \in Timer DEF Links
  <2>13. g \in Heaps /\ g.root = h.root /\ g.size = m
    <3>1. /\ g = [root |-> g.root, size |-> g.size, left |-> g.left, right |-> g.right, parent |-> g.parent]
          /\ g.root = h.root /\ g.size = m /\ g.left = e.left /\ g.right = e.right
      BY ONLY <2>9
    <3>2. e.left \in Links /\ e.right \in Links BY ONLY <2>8 DEF Heaps
    <3> QED BY ONLY <1>2, <1>3, <2>12, <3>1, <3>2 DEF Heaps
  <2>14. \A p \in Nat : p # m => Ref(b, m, p) = Ref(a, n, p) BY <1>1, <1>3 DEF Ref
  <2>15. Ref(b, m, m) = t BY <1>3 DEF Ref
  <2>16. ASSUME NEW p \in 1 .. m
         PROVE  /\ g.left[b[p]] = Ref(b, m, 2 * p) /\ g.right[b[p]] = Ref(b, m, 2 * p + 1)
                /\ g.parent[b[p]] = Ref(b, m, Up(p))
    <3>1. CASE p = m
      <4>1. Ref(b, m, 2 * m) = Null /\ Ref(b, m, 2 * m + 1) = Null BY <1>3 DEF Ref
      <4>2. Ref(b, m, u) = last BY <1>3, <2>2 DEF Ref
      <4> QED BY <1>3, <2>10, <2>11, <2>12, <3>1, <4>1, <4>2
    <3>2. CASE p # m
      <4>1. p \in 1 .. n /\ b[p] = a[p] /\ a[p] # t /\ a[p] \in Timer /\ p \in Nat /\ p # 0
        BY <1>1, <1>3, <3>2
      <4>2. /\ h.left[a[p]] = Ref(a, n, 2 * p) /\ h.right[a[p]] = Ref(a, n, 2 * p + 1)
            /\ h.parent[a[p]] = Ref(a, n, Up(p))
        BY <4>1 DEF Tree
      <4>3. a[p] = last <=> p = u BY <1>1, <2>2, <4>1
      <4>4. g.parent[b[p]] = Ref(b, m, Up(p))
        <5>1. Up(p) \in Nat /\ Up(p) # m BY <1>1, <4>1, UpIs
        <5> QED BY <2>12, <2>14, <4>1, <4>2, <5>1
      <4>5. g.left[b[p]] = Ref(b, m, 2 * p)
        <5>1. CASE 2 * p = m
          <6>1. p = u BY <2>2, <4>1, <5>1
          <6> QED BY <2>10, <2>15, <4>1, <4>3, <5>1, <6>1
        <5>2. CASE 2 * p # m
          <6>1. ~(a[p] = last /\ m = 2 * u) BY <4>3, <5>2
          <6>2. g.left[a[p]] = h.left[a[p]] BY <2>10, <4>1, <6>1
          <6>3. Ref(b, m, 2 * p) = Ref(a, n, 2 * p) BY <2>14, <4>1, <5>2
          <6> QED BY <4>1, <4>2, <6>2, <6>3
        <5> QED BY <5>1, <5>2
      <4>6. g.right[b[p]] = Ref(b, m, 2 * p + 1)
        <5>1. CASE 2 * p + 1 = m
          <6>1. p = u /\ m # 2 * u BY <2>2, <4>1, <5>1
          <6> QED BY <2>11, <2>15, <4>1, <4>3, <5>1, <6>1
        <5>2. CASE 2 * p + 1 # m
          <6>1. ~(a[p] = last /\ m # 2 * u) BY <2>2, <4>3, <5>2
          <6>2. g.right[a[p]] = h.right[a[p]] BY <2>11, <4>1, <6>1
          <6>3. Ref(b, m, 2 * p + 1) = Ref(a, n, 2 * p + 1) BY <2>14, <4>1, <5>2
          <6> QED BY <4>1, <4>2, <6>2, <6>3
        <5> QED BY <5>1, <5>2
      <4> QED BY <4>4, <4>5, <4>6
    <3> QED BY <3>1, <3>2
  <2>17. Tree(g, b, m)
    <3>1. h.root = Ref(a, n, 1) /\ 1 # m BY <1>1, <1>7 DEF Tree
    <3>2. g.root = Ref(b, m, 1) BY <2>13, <2>14, <3>1
    <3> QED BY <1>4, <2>13, <2>16, <3>2 DEF Tree
  <2>18. Rising(d, b, m, m)
    <3>1. ASSUME NEW s \in 1 .. m, s # 1, s # m PROVE d[b[Up(s)]] <= d[b[s]]
      <4>1. s \in 1 .. n /\ s \in Nat /\ s # 0 BY <1>3, <3>1
      <4>2. Up(s) \in 1 .. n BY <1>1, <3>1, <4>1, UpIs
      <4>3. b[s] = a[s] /\ b[Up(s)] = a[Up(s)] BY <1>3, <4>1, <4>2
      <4> QED BY <3>1, <4>1, <4>3 DEF Ordered
    <3>2. \A s \in 1 .. m : Up(s) # m BY <1>3, UpIs
    <3> QED BY <3>1, <3>2 DEF Rising, Past
  <2> QED BY <1>3, <1>5, <2>17, <2>18, SiftUpOK DEF Sorted
<1> QED BY <1>6, <1>7

-----------------------------------------------------------------------------
(* heap_remove first takes the last node from its place. *)
LEMMA CutOK ==
  ASSUME NEW h, NEW a, NEW n, Tree(h, a, n), n # 0, n # 1,
         NEW b, b = [p \in 1 .. n - 1 |-> a[p]],
         NEW g, g = [Unlink(h, a[n]) EXCEPT !.size = n - 1]
  PROVE  Tree(g, b, n - 1)
<1> SUFFICES ASSUME NEW m, m = n - 1 PROVE Tree(g, b, m) OBVIOUS
<1>1. /\ n \in Nat /\ m \in Nat /\ m # 0 /\ n \in 1 .. n /\ h \in Heaps /\ h.size = n
      /\ \A p \in 1 .. n : a[p] # Null /\ a[p] \in Timer
      /\ \A p, q \in 1 .. n : a[p] = a[q] => p = q
      /\ \A p \in 1 .. m : p \in 1 .. n /\ p # n
      /\ a \in [1 .. n -> Timer]
  BY TimerAssumption DEF Tree, Array
<1>2. \A p \in 1 .. m : b[p] = a[p] BY <1>1
<1>3. Array(b, m)
  <2>1. b \in [1 .. m -> Timer] BY <1>1
  <2> QED BY <1>1, <1>2, <2>1 DEF Array
<1>4. h.left \in Links /\ h.right \in Links /\ h.parent \in Links BY <1>1 DEF Heaps
<1> SUFFICES ASSUME NEW u, u = Up(n), NEW last, last = a[n], NEW up, up = a[u] PROVE Tree(g, b, m)
  OBVIOUS
<1>5. u \in 1 .. n /\ u \in 1 .. m /\ u \in Nat /\ (n = 2 * u \/ n = 2 * u + 1) /\ u # 0
  <2>1. n \in Nat \ {0} /\ n # 1 BY <1>1
  <2>2. Up(n) \in Nat /\ Up(n) < n /\ Up(n) # 0 /\ (n = 2 * Up(n) \/ n = 2 * Up(n) + 1)
    BY ONLY <2>1, UpIs
  <2> QED BY <1>1, <2>2
<1>6. h.parent[last] = up /\ up # Null /\ up \in Timer /\ last # Null /\ last \in Timer
  <2>1. h.parent[last] = Ref(a, n, u) BY <1>1 DEF Tree
  <2> QED BY <1>1, <1>5, <2>1 DEF Ref
<1>7. h.left[up] = last <=> n = 2 * u
  <2>1. h.left[up] = Ref(a, n, 2 * u) BY <1>5 DEF Tree
  <2> QED BY <1>1, <1>5, <1>6, <2>1 DEF Ref
<1>8. g = IF n = 2 * u THEN [[h EXCEPT !.left[up] = Null] EXCEPT !.size = m]
                       ELSE [[h EXCEPT !.right[up] = Null] EXCEPT !.size = m]
  BY <1>6, <1>7 DEF Unlink
<1>9. g = [root |-> h.root, size |-> m,
           left |-> IF n = 2 * u THEN [h.left EXCEPT ![up] = Null] ELSE h.left,
           right |-> IF n = 2 * u THEN h.right ELSE [h.right EXCEPT ![up] = Null],
           parent |-> h.parent]
  <2>1. CASE n = 2 * u
    <3>1. g = [[h EXCEPT !.left[up] = Null] EXCEPT !.size = m] BY <1>8, <2>1
    <3> QED BY ONLY <1>1, <2>1, <3>1 DEF Heaps
  <2>2. CASE n # 2 * u
    <3>1. g = [[h EXCEPT !.right[up] = Null] EXCEPT !.size = m] BY <1>8, <2>2
    <3> QED BY ONLY <1>1, <2>2, <3>1 DEF Heaps
  <2> QED BY <2>1, <2>2
<1>10. /\ g.left \in Links
       /\ \A x \in Timer : g.left[x] = IF x = up /\ n = 2 * u THEN Null ELSE h.left[x]
  <2>1. g.left = IF n = 2 * u THEN [h.left EXCEPT ![up] = Null] ELSE h.left BY ONLY <1>9
  <2> QED BY ONLY <1>4, <1>6, <2>1 DEF Links
<1>11. /\ g.right \in Links
       /\ \A x \in Timer : g.right[x] = IF x = up /\ n # 2 * u THEN Null ELSE h.right[x]
  <2>1. g.right = IF n = 2 * u THEN h.right ELSE [h.right EXCEPT ![up] = Null] BY ONLY <1>9
  <2> QED BY ONLY <1>4, <1>6, <2>1 DEF Links
<1>12. g \in Heaps /\ g.parent = h.parent /\ g.root = h.root /\ g.size = m
  <2>1. /\ g = [root |-> g.root, size |-> g.size, left |-> g.left, right |-> g.right, parent |-> g.parent]
        /\ g.parent = h.parent /\ g.root = h.root /\ g.size = m
    BY ONLY <1>9
  <2>2. h.root \in Timer \cup {Null} BY <1>1 DEF Heaps
  <2> QED BY ONLY <1>1, <1>4, <1>10, <1>11, <2>1, <2>2 DEF Heaps
<1>13. \A p \in Nat : p # n => Ref(b, m, p) = Ref(a, n, p) BY <1>1, <1>2 DEF Ref
<1>14. Ref(b, m, n) = Null BY <1>1 DEF Ref
<1>15. ASSUME NEW p \in 1 .. m
       PROVE  /\ g.left[b[p]] = Ref(b, m, 2 * p) /\ g.right[b[p]] = Ref(b, m, 2 * p + 1)
              /\ g.parent[b[p]] = Ref(b, m, Up(p))
  <2>1. p \in 1 .. n /\ p \in Nat /\ p # 0 /\ p # n /\ b[p] = a[p] /\ a[p] \in Timer BY <1>1, <1>2
  <2>2. /\ h.left[a[p]] = Ref(a, n, 2 * p) /\ h.right[a[p]] = Ref(a, n, 2 * p + 1)
        /\ h.parent[a[p]] = Ref(a, n, Up(p))
    BY <2>1 DEF Tree
  <2>3. a[p] = up <=> p = u BY <1>1, <1>5, <2>1
  <2>4. g.parent[b[p]] = Ref(b, m, Up(p))
    <3>1. Up(p) \in Nat /\ Up(p) # n BY <1>1, <2>1, UpIs
    <3> QED BY <1>12, <1>13, <2>1, <2>2, <3>1
  <2>5. g.left[b[p]] = Ref(b, m, 2 * p)
    <3>1. CASE 2 * p = n
      <4>1. p = u BY <1>5, <2>1, <3>1
      <4> QED BY <1>10, <1>14, <2>1, <2>3, <3>1, <4>1
    <3>2. CASE 2 * p # n
      <4>1. g.left[a[p]] = h.left[a[p]] BY <1>10, <2>1, <2>3, <3>2
      <4>2. Ref(b, m, 2 * p) = Ref(a, n, 2 * p) BY <1>13, <2>1, <3>2
      <4> QED BY <2>1, <2>2, <4>1, <4>2
    <3> QED BY <3>1, <3>2
  <2>6. g.right[b[p]] = Ref(b, m, 2 * p + 1)
    <3>1. CASE 2 * p + 1 = n
      <4>1. p = u /\ n # 2 * u BY <1>5, <2>1, <3>1
      <4> QED BY <1>11, <1>14, <2>1, <2>3, <3>1, <4>1
    <3>2. CASE 2 * p + 1 # n
      <4>1. g.right[a[p]] = h.right[a[p]] BY <1>5, <1>11, <2>1, <2>3, <3>2
      <4>2. Ref(b, m, 2 * p + 1) = Ref(a, n, 2 * p + 1) BY <1>13, <2>1, <3>2
      <4> QED BY <2>1, <2>2, <4>1, <4>2
    <3> QED BY <3>1, <3>2
  <2> QED BY <2>4, <2>5, <2>6
<1>16. g.root = Ref(b, m, 1)
  <2>1. h.root = Ref(a, n, 1) BY DEF Tree
  <2> QED BY <1>12, <1>13, <2>1
<1> QED BY <1>3, <1>12, <1>15, <1>16 DEF Tree

(* Then it takes the place of the node that goes. *)
LEMMA ReplaceOK ==
  ASSUME NEW h, NEW a, NEW n, Tree(h, a, n), NEW q \in 1 .. n,
         NEW last \in Timer, \A p \in 1 .. n : a[p] # last
  PROVE  Tree(Replace(h, a[q], last), Put(a, q, last), n)
<1> SUFFICES ASSUME NEW t, t = a[q], NEW g, g = Replace(h, t, last), NEW b, b = Put(a, q, last)
             PROVE  Tree(g, b, n)
  OBVIOUS
<1>1. /\ n \in Nat /\ q \in Nat /\ q # 0 /\ h \in Heaps /\ h.size = n /\ t # Null /\ t \in Timer /\ last # Null
      /\ \A p \in 1 .. n : a[p] # Null /\ a[p] \in Timer
      /\ \A p, s \in 1 .. n : a[p] = a[s] => p = s
      /\ a \in [1 .. n -> Timer]
  BY TimerAssumption DEF Tree, Array
<1>2. b \in [1 .. n -> Timer] /\ b[q] = last /\ \A p \in 1 .. n : p # q => b[p] = a[p]
  BY <1>1 DEF Put
<1>3. Array(b, n) BY <1>1, <1>2 DEF Array
<1>4. h.left \in Links /\ h.right \in Links /\ h.parent \in Links /\ h.root \in Timer \cup {Null}
  BY <1>1 DEF Heaps
<1>5. /\ \A p : p # q => Ref(b, n, p) = Ref(a, n, p)
      /\ Ref(b, n, q) = last /\ Ref(a, n, q) = t
      /\ \A p : Ref(a, n, p) = t => p = q
  BY <1>1, <1>2 DEF Ref
<1> DEFINE up == h.parent[t]
           asLeft == up # Null /\ h.left[up] = t
<1>6. /\ up = Ref(a, n, Up(q)) /\ h.left[t] = Ref(a, n, 2 * q) /\ h.right[t] = Ref(a, n, 2 * q + 1)
      /\ h.root = Ref(a, n, 1)
  BY DEF Tree
<1>7. up \in Timer \cup {Null} /\ up # last
  BY <1>1, <1>6 DEF Ref
<1> DEFINE l1 == [Set(h.left, IF asLeft THEN up ELSE Null, last) EXCEPT ![last] = h.left[t]]
           r1 == [Set(h.right, IF asLeft THEN Null ELSE up, last) EXCEPT ![last] = h.right[t]]
           p1 == [Set(Set(h.parent, h.left[t], last), h.right[t], last) EXCEPT ![last] = up]
<1>8. g = [root |-> IF up = Null THEN last ELSE h.root, size |-> n, left |-> l1, right |-> r1, parent |-> p1]
  <2>1. g = [h EXCEPT !.root = IF up = Null THEN last ELSE h.root, !.left = l1, !.right = r1, !.parent = p1]
    BY DEF Replace
  <2> HIDE DEF up, l1, r1, p1
  <2> QED BY ONLY <1>1, <2>1 DEF Heaps
<1>9. /\ l1 \in Links /\ l1[last] = h.left[t]
      /\ \A x \in Timer : x # last => l1[x] = IF x = up /\ h.left[x] = t THEN last ELSE h.left[x]
  <2> HIDE DEF up
  <2> QED BY ONLY <1>1, <1>4, <1>7, last \in Timer, TimerAssumption DEF Links, Set
<1>10. /\ r1 \in Links /\ r1[last] = h.right[t]
       /\ \A x \in Timer : x # last => r1[x] = IF x = up /\ h.left[x] # t THEN last ELSE h.right[x]
  <2> HIDE DEF up
  <2> QED BY ONLY <1>1, <1>4, <1>7, last \in Timer, TimerAssumption DEF Links, Set
<1>11. /\ p1 \in Links /\ p1[last] = up
       /\ \A x \in Timer : x # last =>
            p1[x] = IF x \in {h.left[t], h.right[t]} THEN last ELSE h.parent[x]
  <2> HIDE DEF up
  <2> QED BY ONLY <1>1, <1>4, <1>7, last \in Timer, TimerAssumption DEF Links, Set
<1> HIDE DEF l1, r1, p1, up
<1>12. /\ g.left = l1 /\ g.right = r1 /\ g.parent = p1 /\ g.size = n
       /\ g.root = IF up = Null THEN last ELSE h.root
  BY ONLY <1>8
<1>13. g \in Heaps
  <2>1. g.root \in Timer \cup {Null} BY <1>4, <1>12
  <2>2. g = [root |-> g.root, size |-> n, left |-> l1, right |-> r1, parent |-> p1] BY ONLY <1>8, <1>12
  <2> QED BY ONLY <1>1, <1>9, <1>10, <1>11, <2>1, <2>2 DEF Heaps
<1>14. g.root = Ref(b, n, 1)
  <2>1. CASE q = 1
    <3>1. up = Null BY <1>6, <2>1 DEF Ref, Up
    <3> QED BY <1>5, <1>12, <2>1, <3>1
  <2>2. CASE q # 1
    <3>1. Up(q) \in 1 .. n BY <1>1, <2>2, UpIs
    <3>2. up # Null BY <1>1, <1>6, <3>1 DEF Ref
    <3> QED BY <1>5, <1>6, <1>12, <2>2, <3>2
  <2> QED BY <2>1, <2>2
<1>15. ASSUME NEW s \in 1 .. n
       PROVE  /\ g.left[b[s]] = Ref(b, n, 2 * s) /\ g.right[b[s]] = Ref(b, n, 2 * s + 1)
              /\ g.parent[b[s]] = Ref(b, n, Up(s))
  <2>1. s \in Nat /\ s # 0 BY <1>1
  <2>2. CASE s = q
    <3>1. 2 * q # q /\ 2 * q + 1 # q /\ Up(q) # q BY <1>1, UpIs
    <3> QED BY <1>2, <1>5, <1>6, <1>9, <1>10, <1>11, <1>12, <2>2, <3>1
  <2>3. CASE s # q
    <3> SUFFICES ASSUME NEW x, x = a[s]
                 PROVE  l1[x] = Ref(b, n, 2 * s) /\ r1[x] = Ref(b, n, 2 * s + 1) /\ p1[x] = Ref(b, n, Up(s))
      BY <1>2, <1>12, <2>3
    <3>1. x \in Timer /\ x # Null /\ x # last /\ x # t BY <1>1, <2>3
    <3>2. /\ h.left[x] = Ref(a, n, 2 * s) /\ h.right[x] = Ref(a, n, 2 * s + 1)
          /\ h.parent[x] = Ref(a, n, Up(s))
      BY DEF Tree
    <3>3. x = Ref(a, n, s) BY DEF Ref
    <3>4. \A v : x = Ref(a, n, v) => v = s BY <1>1, <3>1 DEF Ref
    <3>5. x = up <=> Up(q) = s BY <1>6, <3>3, <3>4
    <3>6. Up(q) = s <=> q = 2 * s \/ q = 2 * s + 1 BY <1>1, <2>1, UpSame
    <3>7. Up(s) = q <=> s = 2 * q \/ s = 2 * q + 1 BY <1>1, <2>1, UpSame
    <3>8. h.left[x] = t <=> 2 * s = q BY <1>5, <3>2
    <3>9. l1[x] = Ref(b, n, 2 * s)
      <4>1. CASE 2 * s = q BY <1>5, <1>9, <3>1, <3>5, <3>6, <3>8, <4>1
      <4>2. CASE 2 * s # q BY <1>5, <1>9, <3>1, <3>2, <3>8, <4>2
      <4> QED BY <4>1, <4>2
    <3>10. r1[x] = Ref(b, n, 2 * s + 1)
      <4>1. CASE 2 * s + 1 = q
        <5>1. 2 * s # q BY <2>1, <4>1
        <5> QED BY <1>5, <1>10, <3>1, <3>5, <3>6, <3>8, <4>1, <5>1
      <4>2. CASE 2 * s + 1 # q
        <5>1. ~(x = up /\ h.left[x] # t) BY <3>5, <3>6, <3>8, <4>2
        <5>2. r1[x] = h.right[x] BY <1>10, <3>1, <5>1
        <5> QED BY <1>5, <3>2, <4>2, <5>2
      <4> QED BY <4>1, <4>2
    <3>11. p1[x] = Ref(b, n, Up(s))
      <4>1. x \in {h.left[t], h.right[t]} <=> Up(s) = q BY <1>6, <3>3, <3>4, <3>7
      <4> QED BY <1>5, <1>11, <3>1, <3>2, <4>1
    <3> QED BY <3>9, <3>10, <3>11
  <2> QED BY <2>2, <2>3
<1> QED BY <1>3, <1>12, <1>13, <1>14, <1>15 DEF Tree

(* The node moved into the gap has its neighbours in order with each other. *)
LEMMA FilledLoose ==
  ASSUME NEW d \in [Timer -> Nat], NEW a, NEW n, Array(a, n), Ordered(d, a, n), NEW m \in Nat, m <= n,
         NEW q \in 1 .. m, NEW c, \A s \in 1 .. m : s # q => c[s] = a[s]
  PROVE  Loose(d, c, m, q)
<1>1. n \in Nat /\ \A s \in 1 .. m : s \in 1 .. n /\ s \in Nat /\ s # 0 /\ d[a[s]] \in Nat
  <2>1. n \in Nat BY DEF Array
  <2>2. \A s \in 1 .. n : d[a[s]] \in Nat BY Dues
  <2> QED BY <2>1, <2>2
<1>2. \A s \in 1 .. m : s # 1 => Up(s) \in 1 .. m /\ Up(s) # s
  <2> SUFFICES ASSUME NEW s \in 1 .. m, s # 1 PROVE Up(s) \in 1 .. m /\ Up(s) # s OBVIOUS
  <2>1. Up(s) \in Nat /\ Up(s) < s /\ Up(s) # 0 BY <1>1, UpIs
  <2> QED BY <1>1, <2>1
<1>3. ASSUME NEW s \in 1 .. m, s # 1, s # q, Up(s) # q PROVE d[c[Up(s)]] <= d[c[s]]
  <2>1. c[s] = a[s] /\ c[Up(s)] = a[Up(s)] BY <1>2, <1>3
  <2>2. d[a[Up(s)]] <= d[a[s]] BY <1>1, <1>3 DEF Ordered
  <2> QED BY <2>1, <2>2
<1>4. ASSUME NEW s \in 1 .. m, Up(s) = q, q # 1 PROVE d[c[Up(q)]] <= d[c[s]]
  <2>1. s # 1 /\ s # q BY <1>1, <1>2, <1>4, UpIs
  <2>2. c[s] = a[s] /\ c[Up(q)] = a[Up(q)] BY <1>2, <1>4, <2>1
  <2>3. d[a[q]] <= d[a[s]] BY <1>1, <1>4, <2>1 DEF Ordered
  <2>4. d[a[Up(q)]] <= d[a[q]] BY <1>1, <1>4 DEF Ordered
  <2>5. d[a[Up(q)]] \in Nat /\ d[a[q]] \in Nat /\ d[a[s]] \in Nat BY <1>1, <1>2, <1>4
  <2> QED BY <2>2, <2>3, <2>4, <2>5
<1> QED BY <1>3, <1>4 DEF Loose, Past

(* heap_remove: the tree of the other nodes, in order. *)
LEMMA RemoveOK ==
  ASSUME NEW d \in [Timer -> Nat], NEW h, NEW a, NEW n, Tree(h, a, n), NEW X, Holds(a, n, X),
         Ordered(d, a, n), NEW t, t \in X
  PROVE  Sorted(Remove(h, d, t), d, n - 1, X \ {t})
<1>1. /\ n \in Nat /\ a \in [1 .. n -> Timer] /\ h.size = n /\ h \in Heaps /\ Array(a, n)
      /\ \A p \in 1 .. n : a[p] # Null /\ a[p] \in Timer
      /\ \A p, q \in 1 .. n : a[p] = a[q] => p = q
  BY TimerAssumption DEF Tree, Array
<1>2. PICK q \in 1 .. n : a[q] = t BY DEF Holds
<1>3. n # 0 /\ 1 \in 1 .. n /\ n \in 1 .. n /\ q \in Nat BY <1>1, <1>2
<1>4. h.root # Null BY <1>1, <1>3 DEF Tree, Ref
<1>5. CASE n = 1
  <2> SUFFICES ASSUME NEW g, g = [h EXCEPT !.root = Null, !.size = 0] PROVE Sorted(g, d, n - 1, X \ {t})
    BY <1>1, <1>4, <1>5 DEF Remove
  <2>1. g = [root |-> Null, size |-> 0, left |-> h.left, right |-> h.right, parent |-> h.parent]
    BY ONLY <1>1, g = [h EXCEPT !.root = Null, !.size = 0] DEF Heaps
  <2>2. g \in Heaps /\ g.size = 0 /\ g.root = Null
    <3>1. h.left \in Links /\ h.right \in Links /\ h.parent \in Links BY <1>1 DEF Heaps
    <3> QED BY ONLY <2>1, <3>1 DEF Heaps
  <2>3. n - 1 = 0 /\ 1 .. 0 = {} BY <1>5
  <2> DEFINE b == [p \in 1 .. 0 |-> a[p]]
  <2>4. Tree(g, b, 0)
    <3>1. Array(b, 0) BY <2>3 DEF Array
    <3> QED BY <2>2, <2>3, <3>1 DEF Tree, Ref
  <2>5. X \ {t} = {}
    <3>1. \A p \in 1 .. n : p = q BY <1>2, <1>5
    <3> QED BY <1>2, <3>1 DEF Holds
  <2>6. Holds(b, 0, X \ {t}) BY <2>3, <2>5 DEF Holds
  <2>7. Ordered(d, b, 0) BY <2>3 DEF Ordered
  <2> QED BY <2>3, <2>4, <2>6, <2>7 DEF Sorted
<1>6. CASE n # 1
  <2> SUFFICES ASSUME NEW m, m = n - 1 PROVE Sorted(Remove(h, d, t), d, m, X \ {t}) OBVIOUS
  <2>1. PICK last : last = a[n] OBVIOUS
  <2>2. PICK cut : cut = [Unlink(h, last) EXCEPT !.size = n - 1] OBVIOUS
  <2>3. PICK b : b = [p \in 1 .. n - 1 |-> a[p]] OBVIOUS
  <2>4. NodeAt(h, n) = last BY <1>3, <2>1, NodeAtIs
  <2>5. m \in Nat /\ m <= n /\ m # n /\ last \in Timer /\ \A s \in 1 .. m : s \in 1 .. n /\ s # n
    BY <1>1, <1>3, <2>1
  <2>6. Tree(cut, b, m)
    <3>1. cut = [Unlink(h, a[n]) EXCEPT !.size = n - 1] BY <2>1, <2>2
    <3>2. Tree(cut, b, n - 1) BY <1>3, <1>6, <2>3, <3>1, CutOK
    <3> QED BY <3>2
  <2>7. \A s \in 1 .. m : b[s] = a[s] BY <2>3
  <2>8. CASE last = t
    <3>1. Remove(h, d, t) = cut BY <1>1, <1>4, <1>6, <2>2, <2>4, <2>8 DEF Remove
    <3>2. Holds(b, m, X \ {t})
      <4>1. \A x \in X \ {t} : \E p \in 1 .. m : b[p] = x
        <5> SUFFICES ASSUME NEW x \in X, x # t PROVE \E p \in 1 .. m : b[p] = x OBVIOUS
        <5>1. PICK p \in 1 .. n : a[p] = x BY DEF Holds
        <5>2. p # n BY <2>1, <2>8, <5>1
        <5>3. p \in 1 .. m BY <5>2, <1>1
        <5> QED BY <2>7, <5>1, <5>3
      <4>2. \A p \in 1 .. m : b[p] \in X \ {t}
        <5> SUFFICES ASSUME NEW p \in 1 .. m PROVE b[p] \in X \ {t} OBVIOUS
        <5>1. p \in 1 .. n /\ p # n /\ b[p] = a[p] BY <2>5, <2>7
        <5>2. a[p] # t BY <1>1, <1>3, <2>1, <2>8, <5>1
        <5> QED BY <5>1, <5>2 DEF Holds
      <4> QED BY <4>1, <4>2 DEF Holds
    <3>3. Ordered(d, b, m)
      <4> SUFFICES ASSUME NEW s \in 1 .. m, s # 1 PROVE d[b[Up(s)]] <= d[b[s]] BY DEF Ordered
      <4>1. s \in Nat \ {0} BY <2>5
      <4>2. Up(s) \in 1 .. m
        <5>1. Up(s) \in Nat /\ Up(s) < s /\ Up(s) # 0 BY <4>1, UpIs
        <5> QED BY <2>5, <5>1
      <4>3. d[a[Up(s)]] <= d[a[s]] BY <2>5 DEF Ordered
      <4> QED BY <2>7, <4>2, <4>3
    <3> QED BY <2>6, <3>1, <3>2, <3>3 DEF Sorted
  <2>9. CASE last # t
    <3>1. Remove(h, d, t) = SiftUp(SiftDown(Replace(cut, t, last), d, last), d, last)
      BY <1>1, <1>4, <1>6, <2>2, <2>4, <2>9 DEF Remove
    <3>2. q \in 1 .. m /\ b[q] = t BY <1>1, <1>2, <2>1, <2>5, <2>7, <2>9
    <3>3. \A p \in 1 .. m : b[p] # last BY <1>1, <1>3, <2>1, <2>5, <2>7
    <3>4. PICK c : c = Put(b, q, last) OBVIOUS
    <3>5. Tree(Replace(cut, t, last), c, m) BY <2>5, <2>6, <3>2, <3>3, <3>4, ReplaceOK
    <3>6. c[q] = last /\ \A s \in 1 .. m : s # q => c[s] = a[s]
      <4>1. b \in [1 .. m -> Timer] BY <2>6 DEF Tree, Array
      <4> QED BY <2>5, <2>7, <3>2, <3>4, <4>1 DEF Put
    <3>7. Loose(d, c, m, q) BY <1>1, <2>5, <3>2, <3>6, FilledLoose
    <3>8. Holds(c, m, X \ {t})
      <4>1. \A x \in X \ {t} : \E p \in 1 .. m : c[p] = x
        <5> SUFFICES ASSUME NEW x \in X, x # t PROVE \E p \in 1 .. m : c[p] = x OBVIOUS
        <5>1. PICK p \in 1 .. n : a[p] = x BY DEF Holds
        <5>2. CASE p = n BY <2>1, <3>2, <3>6, <5>1, <5>2
        <5>3. CASE p # n
          <6>1. p \in 1 .. m /\ p # q BY <1>1, <1>2, <2>5, <5>1, <5>3
          <6> QED BY <3>6, <5>1, <6>1
        <5> QED BY <5>2, <5>3
      <4>2. \A p \in 1 .. m : c[p] \in X \ {t}
        <5> SUFFICES ASSUME NEW p \in 1 .. m PROVE c[p] \in X \ {t} OBVIOUS
        <5>1. CASE p = q BY <1>3, <2>1, <2>9, <3>6, <5>1 DEF Holds
        <5>2. CASE p # q BY <1>1, <1>2, <2>5, <3>6, <5>2 DEF Holds
        <5> QED BY <5>1, <5>2
      <4> QED BY <4>1, <4>2 DEF Holds
    <3>9. PICK g : g = Replace(cut, t, last) OBVIOUS
    <3>10. PICK e, r : /\ Tree(SiftDown(g, d, last), e, m) /\ Holds(e, m, X \ {t})
                       /\ r \in 1 .. m /\ e[r] = last /\ Rising(d, e, m, r)
      BY <3>2, <3>5, <3>6, <3>7, <3>8, <3>9, SiftDownOK
    <3>11. PICK k : k = SiftDown(g, d, last) OBVIOUS
    <3>12. PICK f : Tree(SiftUp(k, d, last), f, m) /\ Holds(f, m, X \ {t}) /\ Ordered(d, f, m)
      BY <3>10, <3>11, SiftUpOK
    <3> QED BY <3>1, <3>9, <3>11, <3>12 DEF Sorted
  <2> QED BY <2>8, <2>9
<1> QED BY <1>5, <1>6

-----------------------------------------------------------------------------
(* The inductive invariant: the active timers are in the tree, in order. *)
HInv ==
  /\ active \in [Timer -> BOOLEAN] /\ timeout \in [Timer -> Nat]
  /\ Sorted(heap, timeout, heap.size, Armed)

LEMMA InitInv == Init => HInv
<1> SUFFICES ASSUME Init PROVE HInv OBVIOUS
<1>1. active \in [Timer -> BOOLEAN] /\ timeout \in [Timer -> Nat] BY DEF Init
<1>2. Armed = {} BY DEF Init, Armed
<1>3. heap \in Heaps /\ heap.size = 0 /\ heap.root = Null BY DEF Init, Heaps, Links
<1> DEFINE a == [p \in 1 .. 0 |-> Null]
<1>4. 1 .. 0 = {} OBVIOUS
<1>5. Array(a, 0) BY <1>4 DEF Array
<1>6. Tree(heap, a, 0) BY <1>3, <1>4, <1>5 DEF Tree, Ref
<1>7. Holds(a, 0, {}) /\ Ordered(timeout, a, 0) BY <1>4 DEF Holds, Ordered
<1> HIDE DEF a
<1> QED BY <1>1, <1>2, <1>3, <1>6, <1>7 DEF HInv, Sorted

LEMMA NextInv == HInv /\ [Next]_heapVars => HInv'
<1> SUFFICES ASSUME HInv, [Next]_heapVars PROVE HInv' OBVIOUS
<1>1. active \in [Timer -> BOOLEAN] /\ timeout \in [Timer -> Nat] BY DEF HInv
<1>2. PICK a, n : n = heap.size /\ Tree(heap, a, n) /\ Holds(a, n, Armed) /\ Ordered(timeout, a, n)
  BY DEF HInv, Sorted
<1>3. n \in Nat /\ a \in [1 .. n -> Timer] BY <1>2 DEF Tree, Array
<1>4. ASSUME NEW t \in Timer, NEW d \in Deadline, Start(t, d) PROVE HInv'
  <2>1. t \notin Armed /\ active' = [active EXCEPT ![t] = TRUE] /\ heap' = Insert(heap, timeout', t)
        /\ timeout' = [timeout EXCEPT ![t] = d]
    BY <1>4 DEF Start, Armed
  <2>2. active' \in [Timer -> BOOLEAN] /\ timeout' \in [Timer -> Nat] BY <1>1, <2>1, DeadlineAssumption
  <2>3. Armed' = Armed \cup {t} BY <1>1, <2>1 DEF Armed
  <2>4. PICK due : due = timeout' OBVIOUS
  <2>5. \A p \in 1 .. n : a[p] # t /\ due[a[p]] = timeout[a[p]] BY <1>1, <1>2, <1>3, <2>1, <2>4 DEF Holds
  <2>6. Ordered(due, a, n)
    <3> SUFFICES ASSUME NEW s \in 1 .. n, s # 1 PROVE due[a[Up(s)]] <= due[a[s]] BY DEF Ordered
    <3>1. timeout[a[Up(s)]] <= timeout[a[s]] BY <1>2 DEF Ordered
    <3>2. Up(s) \in 1 .. n BY <1>1, <1>2, Dues DEF Tree
    <3> QED BY <2>5, <3>1, <3>2
  <2>7. Sorted(Insert(heap, due, t), due, n + 1, Armed \cup {t})
    <3>1. due \in [Timer -> Nat] BY <2>2, <2>4
    <3> QED BY <1>2, <2>1, <2>6, <3>1, InsertOK
  <2>8. Sorted(heap', timeout', n + 1, Armed') BY <2>1, <2>3, <2>4, <2>7
  <2>9. heap'.size = n + 1 BY <2>8 DEF Sorted, Tree
  <2> QED BY <2>2, <2>8, <2>9 DEF HInv
<1>5. ASSUME NEW t \in Timer, Stop(t) PROVE HInv'
  <2>1. t \in Armed /\ active' = [active EXCEPT ![t] = FALSE] /\ heap' = Remove(heap, timeout, t)
        /\ timeout' = timeout
    BY <1>5 DEF Stop, Armed
  <2>2. active' \in [Timer -> BOOLEAN] /\ timeout' \in [Timer -> Nat] BY <1>1, <2>1
  <2>3. Armed' = Armed \ {t} BY <1>1, <2>1 DEF Armed
  <2>4. Sorted(Remove(heap, timeout, t), timeout, n - 1, Armed \ {t}) BY <1>1, <1>2, <2>1, RemoveOK
  <2>5. Sorted(heap', timeout', n - 1, Armed') BY <2>1, <2>3, <2>4
  <2>6. heap'.size = n - 1 BY <2>5 DEF Sorted, Tree
  <2> QED BY <2>2, <2>5, <2>6 DEF HInv
<1>6. CASE UNCHANGED heapVars
  <2>1. heap' = heap /\ active' = active /\ timeout' = timeout BY <1>6 DEF heapVars
  <2>2. Armed' = Armed BY <2>1 DEF Armed
  <2> QED BY <2>1, <2>2 DEF HInv
<1> QED BY <1>4, <1>5, <1>6 DEF Next

LEMMA Invariance == Spec => []HInv
BY InitInv, NextInv, PTL DEF Spec

-----------------------------------------------------------------------------
LEMMA ArraySize ==
  ASSUME NEW a, NEW n, Array(a, n), NEW X, Holds(a, n, X)
  PROVE  Cardinality(X) = n
<1>1. n \in Nat /\ a \in [1 .. n -> Timer] /\ \A p, q \in 1 .. n : a[p] = a[q] => p = q BY DEF Array
<1>2. a \in Bijection(1 .. n, X)
  BY <1>1 DEF Holds, Bijection, Injection, Surjection, IsInjective
<1>3. ExistsBijection(1 .. n, X) BY <1>2 DEF ExistsBijection
<1> QED BY <1>1, <1>3, FS_CountingElements

LEMMA InvWellFormed == HInv => WellFormed
<1> SUFFICES ASSUME HInv PROVE WellFormed OBVIOUS
<1>1. active \in [Timer -> BOOLEAN] /\ timeout \in [Timer -> Nat] BY DEF HInv
<1>2. PICK a, n : n = heap.size /\ Tree(heap, a, n) /\ Holds(a, n, Armed) /\ Ordered(timeout, a, n)
  BY DEF HInv, Sorted
<1>3. Array(a, n) /\ n \in Nat /\ a \in [1 .. n -> Timer] /\ heap \in Heaps BY <1>2 DEF Tree, Array
<1>4. TypeOK BY <1>1, <1>3 DEF TypeOK, Heaps
<1>5. CompleteTree
  <2>1. [p \in 1 .. n |-> NodeAt(heap, p)] = a
    <3>1. \A p \in 1 .. n : NodeAt(heap, p) = a[p] BY <1>2, NodeAtIs
    <3> QED BY <1>3, <3>1
  <2>2. {a[p] : p \in 1 .. n} = Armed /\ n = Cardinality(Armed) BY <1>2, <1>3, ArraySize DEF Holds
  <2>3. /\ heap.root = Ref(a, n, 1)
        /\ \A p \in 1 .. n : /\ heap.left[a[p]] = Ref(a, n, 2 * p)
                             /\ heap.right[a[p]] = Ref(a, n, 2 * p + 1)
                             /\ heap.parent[a[p]] = Ref(a, n, p \div 2)
    BY <1>2 DEF Tree, Up
  <2> QED BY <1>2, <2>1, <2>2, <2>3 DEF CompleteTree, Ref
<1>6. HeapOrder
  <2> SUFFICES ASSUME NEW t \in Armed, heap.parent[t] # Null PROVE ~Before(timeout, t, heap.parent[t])
    BY DEF HeapOrder
  <2>1. PICK p \in 1 .. n : a[p] = t BY <1>2 DEF Holds
  <2>2. heap.parent[t] = Ref(a, n, Up(p)) BY <1>2, <2>1 DEF Tree
  <2>3. Up(p) \in 1 .. n /\ heap.parent[t] = a[Up(p)] BY <2>2 DEF Ref
  <2>4. p # 1 BY <2>3 DEF Up
  <2>5. timeout[a[Up(p)]] <= timeout[a[p]] BY <1>2, <2>4 DEF Ordered
  <2>6. timeout[a[Up(p)]] \in Nat /\ timeout[a[p]] \in Nat BY <1>1, <1>3, <2>3
  <2> QED BY <2>1, <2>3, <2>5, <2>6 DEF Before
<1> QED BY <1>4, <1>5, <1>6 DEF WellFormed

(* Whatever timers pd_timer_start and pd_timer_stop put into the heap and take
   out of it, heap_insert and heap_remove leave a complete tree of exactly the
   active timers, every pointer of which is right, in the order of the
   deadlines. *)
THEOREM HeapWellFormed == Spec => []WellFormed
<1>1. HInv => WellFormed BY InvWellFormed
<1> QED BY <1>1, Invariance, PTL

(* No node is due before the root: go up from it. *)
LEMMA RootEarliest ==
  ASSUME NEW d \in [Timer -> Nat], NEW a, NEW n, Array(a, n), Ordered(d, a, n)
  PROVE  \A p \in 1 .. n : d[a[1]] <= d[a[p]]
<1>1. n \in Nat /\ \A p \in 1 .. n : d[a[p]] \in Nat BY Dues DEF Array
<1> DEFINE S == {k \in Nat : \A p \in 1 .. n : p <= k => d[a[1]] <= d[a[p]]}
<1>2. 0 \in S BY <1>1
<1>3. ASSUME NEW k \in Nat, k \in S PROVE k + 1 \in S
  <2> SUFFICES ASSUME NEW p \in 1 .. n, p = k + 1 PROVE d[a[1]] <= d[a[p]] BY <1>3
  <2>1. CASE p = 1 BY <1>1, <2>1
  <2>2. CASE p # 1
    <3>1. p \in Nat \ {0} BY <1>1
    <3>2. Up(p) \in Nat /\ Up(p) < p /\ Up(p) # 0 BY <2>2, <3>1, UpIs
    <3>3. Up(p) \in 1 .. n /\ Up(p) <= k /\ 1 \in 1 .. n BY <1>1, <3>1, <3>2
    <3>4. d[a[1]] <= d[a[Up(p)]] BY <1>3, <3>3
    <3>5. d[a[Up(p)]] <= d[a[p]] BY <2>2 DEF Ordered
    <3>6. d[a[1]] \in Nat /\ d[a[Up(p)]] \in Nat /\ d[a[p]] \in Nat BY <1>1, <3>3
    <3> QED BY <3>4, <3>5, <3>6
  <2> QED BY <2>1, <2>2
<1> HIDE DEF S
<1>4. Nat \subseteq S BY <1>2, <1>3, Numbers
<1> QED BY <1>1, <1>4 DEF S

LEMMA InvTop == HInv => TimerQueue!TopOK
<1> SUFFICES ASSUME HInv PROVE TimerQueue!TopOK OBVIOUS
<1>1. timeout \in [Timer -> Nat] BY DEF HInv
<1>2. PICK a, n : Tree(heap, a, n) /\ Holds(a, n, Armed) /\ Ordered(timeout, a, n)
  BY DEF HInv, Sorted
<1>3. Array(a, n) /\ n \in Nat /\ heap.root = Ref(a, n, 1) BY <1>2 DEF Tree, Array
<1>4. CASE n = 0
  <2>1. heap.root = Null BY <1>3, <1>4 DEF Ref
  <2>2. Armed = {} BY <1>2, <1>4 DEF Holds
  <2> QED BY <2>1, <2>2 DEF TimerQueue!TopOK
<1>5. CASE n # 0
  <2>1. 1 \in 1 .. n /\ heap.root = a[1] BY <1>3, <1>5 DEF Ref
  <2>2. a[1] \in Armed BY <1>2, <2>1 DEF Holds
  <2>3. \A u \in Armed : timeout[a[1]] <= timeout[u] BY <1>1, <1>2, <1>3, RootEarliest DEF Holds
  <2> QED BY <2>1, <2>2, <2>3 DEF TimerQueue!TopOK, TimerQueue!Earliest
<1> QED BY <1>4, <1>5

(* pd_timers_run and pd_timers_next look at the root alone: it is always an
   active timer with the earliest deadline, or null when there is none, and a
   start adds just its timer, a stop removes just its timer. *)
THEOREM HeapIsTimerSet == Spec => ImplementsTimerSet
<1>1. Init => TimerQueue!Init
  <2> SUFFICES ASSUME Init PROVE TimerQueue!Init OBVIOUS
  <2>1. Armed = {} /\ heap.root = Null BY DEF Init, Armed
  <2>2. timeout \in [Timer -> Deadline \cup {0}] BY DEF Init
  <2> QED BY <2>1, <2>2 DEF TimerQueue!Init
<1>2. HInv /\ HInv' /\ [Next]_heapVars => [TimerQueue!Next]_(TimerQueue!setVars)
  <2> SUFFICES ASSUME HInv, HInv', [Next]_heapVars PROVE [TimerQueue!Next]_(TimerQueue!setVars)
    OBVIOUS
  <2>1. TimerQueue!TopOK' BY InvTop, PTL
  <2>2. active \in [Timer -> BOOLEAN] BY DEF HInv
  <2>3. ASSUME NEW t \in Timer, NEW d \in Deadline, Start(t, d) PROVE TimerQueue!Next
    <3>1. t \notin Armed /\ Armed' = Armed \cup {t} BY <2>2, <2>3 DEF Start, Armed
    <3>2. timeout' = [timeout EXCEPT ![t] = d] BY <2>3 DEF Start
    <3>3. TimerQueue!Arm(t, d) BY <2>1, <3>1, <3>2 DEF TimerQueue!Arm
    <3> QED BY <3>3 DEF TimerQueue!Next
  <2>4. ASSUME NEW t \in Timer, Stop(t) PROVE TimerQueue!Next
    <3>1. t \in Armed /\ Armed' = Armed \ {t} BY <2>2, <2>4 DEF Stop, Armed
    <3>2. timeout' = timeout BY <2>4 DEF Stop
    <3>3. TimerQueue!Disarm(t) BY <2>1, <3>1, <3>2 DEF TimerQueue!Disarm
    <3> QED BY <3>3 DEF TimerQueue!Next
  <2>5. CASE UNCHANGED heapVars
    <3>1. heap' = heap /\ timeout' = timeout /\ Armed' = Armed BY <2>5 DEF heapVars, Armed
    <3> QED BY <3>1 DEF TimerQueue!setVars
  <2> QED BY <2>3, <2>4, <2>5 DEF Next
<1> QED BY <1>1, <1>2, Invariance, PTL DEF Spec, ImplementsTimerSet, TimerQueue!Spec

=============================================================================
