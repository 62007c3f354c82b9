---------------------------- MODULE LoaderProofs ----------------------------
(***************************************************************************)
(* The invariants of Loader, for any files, any imports and callbacks, and *)
(* any bound on rejections.                                                *)
(*                                                                         *)
(* First what pathURL does to a path, and that no two of the paths that    *)
(* FileSystemsAssumption allows have one url.                              *)
(* Then LInv, one invariant in thirteen parts: the tables and V8's list of *)
(* modules (Shape, Tables, Graph), the calls on the stack and the modules  *)
(* each is at (Nesting, Bodies, Links), the promises (Settlements,         *)
(* Answers, PendingExact), and the end of the program (Beginning,          *)
(* EntryRuns, ExitStatus, Cleaned).                                        *)
(***************************************************************************)
EXTENDS Loader, SequenceTheorems, WellFoundedInduction, FiniteSetTheorems, TLAPS

(* A set that has 0 and with each number the next one has them all. *)
LEMMA Numbers ==
  ASSUME NEW S, 0 \in S, \A n \in Nat : n \in S => n + 1 \in S
  PROVE  Nat \subseteq S
<1> DEFINE R == {p \in Nat \X Nat : p[1] < p[2]}
<1> SUFFICES ASSUME Nat \ S # {} PROVE FALSE OBVIOUS
<1>1. \E x \in Nat \ S : \A y \in Nat \ S : ~(<<y, x>> \in R)
  <2>1. IsWellFoundedOn(R, Nat) BY NatLessThanWellFounded DEF OpToRel
  <2> HIDE DEF R
  <2> QED BY <2>1, WFMin
<1>2. PICK x \in Nat \ S : \A y \in Nat \ S : ~(<<y, x>> \in R) BY <1>1
<1>3. x # 0 /\ x - 1 \in Nat OBVIOUS
<1>4. x - 1 \in S
  <2>1. <<x - 1, x>> \in R BY <1>3
  <2> QED BY <1>2, <1>3, <2>1
<1>5. x - 1 + 1 \in S BY <1>3, <1>4
<1> QED BY <1>2, <1>5

(* The recursive function that FlattenSeq is made of, for the first k
   sequences of s: there is one, and it depends on these only. *)
Concats(f, s, k) == f = [i \in 1 .. k |-> IF i = 1 THEN s[i] ELSE f[i - 1] \o s[i]]

LEMMA ConcatsAt ==
  ASSUME NEW f, NEW s, NEW k \in Nat, Concats(f, s, k), NEW i \in 1 .. k
  PROVE  f[i] = IF i = 1 THEN s[i] ELSE f[i - 1] \o s[i]
<1> DEFINE h == [j \in 1 .. k |-> IF j = 1 THEN s[j] ELSE f[j - 1] \o s[j]]
<1>1. f = h BY DEF Concats
<1>2. h[i] = IF i = 1 THEN s[i] ELSE f[i - 1] \o s[i] OBVIOUS
<1> QED BY <1>1, <1>2

LEMMA ConcatsExist == ASSUME NEW s PROVE \A k \in Nat : \E f : Concats(f, s, k)
<1> DEFINE S == {k \in Nat : \E f : Concats(f, s, k)}
<1>1. 0 \in S
  <2>1. Concats([i \in 1 .. 0 |-> s[i]], s, 0) BY DEF Concats
  <2> QED BY <2>1
<1>2. ASSUME NEW k \in Nat, k \in S PROVE k + 1 \in S
  <2>1. PICK f : Concats(f, s, k) BY <1>2
  <2> DEFINE g == [i \in 1 .. k + 1 |-> IF i <= k THEN f[i]
                                        ELSE IF k = 0 THEN s[1] ELSE f[k] \o s[k + 1]]
  <2>2. ASSUME NEW i \in 1 .. k + 1
        PROVE  g[i] = IF i = 1 THEN s[i] ELSE g[i - 1] \o s[i]
    <3>1. CASE i <= k
      <4>1. i \in 1 .. k /\ (i # 1 => i - 1 \in 1 .. k /\ i - 1 \in 1 .. k + 1) BY <3>1
      <4>2. f[i] = IF i = 1 THEN s[i] ELSE f[i - 1] \o s[i] BY <2>1, <4>1, ConcatsAt
      <4>3. g[i] = f[i] /\ (i # 1 => g[i - 1] = f[i - 1]) BY <3>1, <4>1
      <4> QED BY <4>2, <4>3
    <3>2. CASE i = k + 1
      <4>1. k # 0 => k \in 1 .. k + 1 /\ g[k] = f[k] /\ i - 1 = k /\ i # 1 BY <3>2
      <4> QED BY <3>2, <4>1
    <3> QED BY <3>1, <3>2
  <2>3. g = [i \in 1 .. k + 1 |-> IF i = 1 THEN s[i] ELSE g[i - 1] \o s[i]]
    BY <2>2
  <2>4. Concats(g, s, k + 1) BY <2>3 DEF Concats
  <2> QED BY <2>4
<1> HIDE DEF S
<1>3. Nat \subseteq S BY <1>1, <1>2, Numbers
<1> QED BY <1>3 DEF S

SameTo(s, t, n) == \A i \in 1 .. n : s[i] = t[i]

LEMMA ConcatsAgree ==
  ASSUME NEW f, NEW g, NEW s, NEW t, NEW n \in Nat,
         Concats(f, s, n), Concats(g, t, n + 1), SameTo(s, t, n)
  PROVE  SameTo(f, g, n)
<1> DEFINE k == n  m == n + 1
<1> DEFINE S == {i \in Nat : i \in 1 .. n => f[i] = g[i]}
<1>0. \A i \in 1 .. n : s[i] = t[i] BY DEF SameTo
<1>1. 0 \in S OBVIOUS
<1>2. ASSUME NEW i \in Nat, i \in S PROVE i + 1 \in S
  <2> SUFFICES ASSUME i + 1 \in 1 .. n PROVE f[i + 1] = g[i + 1] OBVIOUS
  <2>1. f[i + 1] = IF i + 1 = 1 THEN s[i + 1] ELSE f[i + 1 - 1] \o s[i + 1]
    <3>1. i + 1 \in 1 .. k OBVIOUS
    <3> QED BY <3>1, ConcatsAt
  <2>2. g[i + 1] = IF i + 1 = 1 THEN t[i + 1] ELSE g[i + 1 - 1] \o t[i + 1]
    <3>1. i + 1 \in 1 .. m OBVIOUS
    <3> QED BY <3>1, ConcatsAt
  <2>3. i # 0 => f[i + 1 - 1] = g[i + 1 - 1] BY <1>2
  <2> QED BY <1>0, <2>1, <2>2, <2>3
<1> HIDE DEF S
<1>3. Nat \subseteq S BY <1>1, <1>2, Numbers
<1> QED BY <1>3 DEF S, SameTo

LEMMA ConcatsType ==
  ASSUME NEW f, NEW T, NEW s \in Seq(Seq(T)), Concats(f, s, Len(s))
  PROVE  \A i \in 1 .. Len(s) : f[i] \in Seq(T)
<1> DEFINE S == {i \in Nat : i \in 1 .. Len(s) => f[i] \in Seq(T)}
<1>1. 0 \in S OBVIOUS
<1>2. ASSUME NEW i \in Nat, i \in S PROVE i + 1 \in S
  <2> SUFFICES ASSUME i + 1 \in 1 .. Len(s) PROVE f[i + 1] \in Seq(T) OBVIOUS
  <2>1. f[i + 1] = IF i + 1 = 1 THEN s[i + 1] ELSE f[i + 1 - 1] \o s[i + 1]
    <3>1. i + 1 \in 1 .. Len(s) /\ Len(s) \in Nat OBVIOUS
    <3> QED BY <3>1, ConcatsAt
  <2>2. i # 0 => f[i + 1 - 1] \in Seq(T) BY <1>2
  <2>3. s[i + 1] \in Seq(T) OBVIOUS
  <2> QED BY <2>1, <2>2, <2>3
<1> HIDE DEF S
<1>3. Nat \subseteq S BY <1>1, <1>2, Numbers
<1> QED BY <1>3 DEF S

LEMMA FlattenIs ==
  ASSUME NEW s, Len(s) \in Nat, Len(s) # 0
  PROVE  \E f : Concats(f, s, Len(s)) /\ FlattenSeq(s) = f[Len(s)]
<1> DEFINE F == CHOOSE f : Concats(f, s, Len(s))
<1>1. Concats(F, s, Len(s)) BY ConcatsExist
<1>2. FlattenSeq(s) = F[Len(s)] BY DEF FlattenSeq, Concats
<1> HIDE DEF F
<1> QED BY <1>1, <1>2

(* What FlattenSeq returns, by the last sequence it is given. *)
LEMMA FlattenAppend ==
  ASSUME NEW T, NEW s \in Seq(Seq(T)), NEW x \in Seq(T)
  PROVE  /\ FlattenSeq(s) \in Seq(T)
         /\ FlattenSeq(Append(s, x)) = FlattenSeq(s) \o x
<1> DEFINE t == Append(s, x)
<1>1. /\ t \in Seq(Seq(T)) /\ Len(t) = Len(s) + 1 /\ Len(s) \in Nat /\ t[Len(t)] = x
      /\ \A i \in 1 .. Len(s) : t[i] = s[i]
  BY AppendProperties
<1> HIDE DEF t
<1>2. PICK g : Concats(g, t, Len(t)) /\ FlattenSeq(t) = g[Len(t)]
  BY <1>1, FlattenIs
<1>3. g[Len(t)] = IF Len(t) = 1 THEN x ELSE g[Len(t) - 1] \o x
  <2>1. Len(t) \in 1 .. Len(t) BY <1>1
  <2> QED BY <1>1, <1>2, <2>1, ConcatsAt
<1>4. CASE s = <<>>
  <2>1. FlattenSeq(s) = <<>> BY <1>4 DEF FlattenSeq
  <2>2. FlattenSeq(t) = x BY <1>1, <1>2, <1>3, <1>4
  <2> QED BY <2>1, <2>2, ConcatEmptySeq DEF t
<1>5. CASE s # <<>>
  <2>1. Len(s) # 0 BY <1>5, EmptySeq
  <2>2. PICK f : Concats(f, s, Len(s)) /\ FlattenSeq(s) = f[Len(s)]
    BY <1>1, <2>1, FlattenIs
  <2>3. f[Len(s)] \in Seq(T) BY <2>1, <2>2, <1>1, ConcatsType
  <2>4. \A i \in 1 .. Len(s) : f[i] = g[i]
    <3>1. SameTo(s, t, Len(s)) BY <1>1 DEF SameTo
    <3>2. Concats(f, s, Len(s)) /\ Concats(g, t, Len(s) + 1) BY <1>1, <1>2, <2>2
    <3>3. SameTo(f, g, Len(s)) BY <1>1, <3>1, <3>2, ConcatsAgree
    <3> QED BY <3>3 DEF SameTo
  <2>5. f[Len(s)] = g[Len(t) - 1] /\ Len(t) # 1 BY <1>1, <2>1, <2>4
  <2> QED BY <1>2, <1>3, <2>2, <2>3, <2>5 DEF t
<1> QED BY <1>4, <1>5

-----------------------------------------------------------------------------
(* Urls. pathURL writes a path character by character, and no two paths alike
   that have none of the characters of Merging: each of its codes can be told by
   how it ends. *)
Chars(T) == "%" \in T /\ "2" \in T /\ "0" \in T /\ "5" \in T /\ T \cap Merging = {}
Code(c) == IF c = " " THEN <<"%", "2", "0">> ELSE IF c = "%" THEN <<"%", "2", "5">> ELSE <<c>>
Escaped(c) == IF c = "%" THEN <<"%", "2", "5">> ELSE <<c>>
Escape(path) == FlattenSeq([i \in DOMAIN path |-> Escaped(path[i])])

LEMMA SameAppend ==
  ASSUME NEW T, NEW s \in Seq(T), NEW t \in Seq(T), NEW e \in T, NEW f \in T,
         Append(s, e) = Append(t, f)
  PROVE  s = t /\ e = f
<1>1. /\ Len(Append(s, e)) = Len(s) + 1 /\ Append(s, e)[Len(s) + 1] = e
      /\ \A i \in 1 .. Len(s) : Append(s, e)[i] = s[i]
  BY AppendProperties
<1>2. /\ Len(Append(t, f)) = Len(t) + 1 /\ Append(t, f)[Len(t) + 1] = f
      /\ \A i \in 1 .. Len(t) : Append(t, f)[i] = t[i]
  BY AppendProperties
<1> DEFINE x == Append(s, e)  y == Append(t, f)
<1>3. x = y OBVIOUS
<1> HIDE DEF x, y
<1>4. Len(s) = Len(t) BY <1>1, <1>2, <1>3 DEF x, y
<1>5. \A i \in 1 .. Len(s) : s[i] = t[i] BY <1>1, <1>2, <1>3, <1>4 DEF x, y
<1> QED BY <1>1, <1>2, <1>3, <1>4, <1>5, SeqEqual DEF x, y

LEMMA Triple ==
  ASSUME NEW T, NEW h \in Seq(T), NEW a \in T, NEW b \in T, NEW c \in T
  PROVE  <<a, b, c>> \in Seq(T) /\ h \o <<a, b, c>> = Append(Append(Append(h, a), b), c)
<1> DEFINE u == Append(h, a)  v == Append(u, b)
<1>1. <<a, b, c>> \in Seq(T) /\ <<a, b>> \in Seq(T) /\ <<a>> \in Seq(T) OBVIOUS
<1>2. u \in Seq(T) /\ u = h \o <<a>> BY AppendProperties, AppendIsConcat
<1>3. v \in Seq(T) /\ v = u \o <<b>>
  <2> HIDE DEF u
  <2> QED BY <1>2, AppendProperties, AppendIsConcat
<1>4. Append(v, c) = v \o <<c>>
  <2> HIDE DEF v
  <2> QED BY <1>3, AppendIsConcat
<1>5. <<b>> \in Seq(T) /\ <<c>> \in Seq(T) OBVIOUS
<1>6. <<a>> \o <<b>> = <<a, b>>
  <2> DEFINE x == <<a>>  y == <<b>>  z == <<a, b>>
  <2>1. x \in Seq(T) /\ y \in Seq(T) /\ z \in Seq(T) BY <1>1, <1>5
  <2>2. Len(x) = 1 /\ Len(y) = 1 /\ Len(z) = 2 /\ x[1] = a /\ y[1] = b /\ z[1] = a /\ z[2] = b
    OBVIOUS
  <2> HIDE DEF x, y, z
  <2>3. /\ x \o y \in Seq(T) /\ Len(x \o y) = 2
        /\ (x \o y)[1] = a /\ (x \o y)[2] = b
    BY <2>1, <2>2, ConcatProperties
  <2>4. \A i \in 1 .. 2 : (x \o y)[i] = z[i] BY <2>2, <2>3
  <2>5. x \o y = z BY <2>1, <2>2, <2>3, <2>4, SeqEqual
  <2> QED BY <2>5 DEF x, y, z
<1>7. <<a, b>> \o <<c>> = <<a, b, c>>
  <2> DEFINE x == <<a, b>>  y == <<c>>  z == <<a, b, c>>
  <2>1. x \in Seq(T) /\ y \in Seq(T) /\ z \in Seq(T) BY <1>1, <1>5
  <2>2. /\ Len(x) = 2 /\ Len(y) = 1 /\ Len(z) = 3 /\ x[1] = a /\ x[2] = b /\ y[1] = c
        /\ z[1] = a /\ z[2] = b /\ z[3] = c
    OBVIOUS
  <2> HIDE DEF x, y, z
  <2>3. /\ x \o y \in Seq(T) /\ Len(x \o y) = 3
        /\ \A i \in 1 .. 3 : (x \o y)[i] = IF i <= 2 THEN x[i] ELSE y[i - 2]
    <3>1. /\ x \o y \in Seq(T) /\ Len(x \o y) = Len(x) + Len(y)
          /\ \A i \in 1 .. Len(x) + Len(y) :
               (x \o y)[i] = IF i <= Len(x) THEN x[i] ELSE y[i - Len(x)]
      BY <2>1, ConcatProperties
    <3>2. Len(x) + Len(y) = 3 BY <2>2
    <3> QED BY <3>1, <3>2, <2>2
  <2>4. \A i \in 1 .. 3 : (x \o y)[i] = z[i] BY <2>2, <2>3
  <2>5. x \o y = z BY <2>1, <2>2, <2>3, <2>4, SeqEqual
  <2> QED BY <2>5 DEF x, y, z
<1>8. (h \o <<a>>) \o <<b>> = h \o <<a, b>>
  <2>1. (h \o <<a>>) \o <<b>> = h \o (<<a>> \o <<b>>) BY <1>1, <1>5, ConcatAssociative
  <2> QED BY <2>1, <1>6
<1>9. (h \o <<a, b>>) \o <<c>> = h \o <<a, b, c>>
  <2>1. (h \o <<a, b>>) \o <<c>> = h \o (<<a, b>> \o <<c>>) BY <1>1, <1>5, ConcatAssociative
  <2> QED BY <2>1, <1>7
<1> QED BY <1>1, <1>2, <1>3, <1>4, <1>8, <1>9

LEMMA PlainChar ==
  ASSUME NEW T, Chars(T), NEW c \in T
  PROVE  UrlChar(c) = IF c = " " THEN <<"%", "2", "0">> ELSE <<c>>
<1>1. c \notin Dropped /\ c # "\\" BY DEF Chars, Merging
<1> QED BY <1>1 DEF UrlChar

LEMMA MapAppend ==
  ASSUME NEW T, Chars(T), NEW p \in Seq(T), NEW c \in T
  PROVE  /\ [i \in DOMAIN Append(p, c) |-> UrlChar(Append(p, c)[i])]
              = Append([i \in DOMAIN p |-> UrlChar(p[i])], UrlChar(c))
         /\ [i \in DOMAIN Append(p, c) |-> Escaped(Append(p, c)[i])]
              = Append([i \in DOMAIN p |-> Escaped(p[i])], Escaped(c))
         /\ [i \in DOMAIN p |-> UrlChar(p[i])] \in Seq(Seq(T))
         /\ [i \in DOMAIN p |-> Escaped(p[i])] \in Seq(Seq(T))
         /\ UrlChar(c) \in Seq(T) /\ Escaped(c) \in Seq(T)
<1>1. \A d \in T : UrlChar(d) \in Seq(T) /\ Escaped(d) \in Seq(T)
  <2> SUFFICES ASSUME NEW d \in T PROVE UrlChar(d) \in Seq(T) /\ Escaped(d) \in Seq(T) OBVIOUS
  <2>1. <<d>> \in Seq(T) /\ <<"%", "2", "0">> \in Seq(T) /\ <<"%", "2", "5">> \in Seq(T)
    BY DEF Chars
  <2>2. UrlChar(d) = IF d = " " THEN <<"%", "2", "0">> ELSE <<d>> BY PlainChar
  <2> QED BY <2>1, <2>2 DEF Escaped
<1> DEFINE q == Append(p, c)
<1>2. /\ q \in Seq(T) /\ Len(q) = Len(p) + 1 /\ q[Len(p) + 1] = c
      /\ \A i \in 1 .. Len(p) : q[i] = p[i]
      /\ DOMAIN q = 1 .. Len(p) + 1 /\ DOMAIN p = 1 .. Len(p) /\ Len(p) \in Nat
      /\ \A i \in 1 .. Len(p) : p[i] \in T
  BY AppendProperties
<1> HIDE DEF q
<1>3. ASSUME NEW F \in [T -> Seq(T)]
      PROVE  /\ [i \in DOMAIN p |-> F[p[i]]] \in Seq(Seq(T))
             /\ [i \in DOMAIN q |-> F[q[i]]] = Append([i \in DOMAIN p |-> F[p[i]]], F[c])
  <2> DEFINE a == [i \in DOMAIN p |-> F[p[i]]]
             b == [i \in DOMAIN q |-> F[q[i]]]
  <2>1. a \in Seq(Seq(T)) /\ Len(a) = Len(p) /\ \A i \in 1 .. Len(p) : a[i] = F[p[i]]
    BY <1>2, <1>3
  <2>2. b \in Seq(Seq(T)) /\ Len(b) = Len(p) + 1 /\ \A i \in 1 .. Len(p) + 1 : b[i] = F[q[i]]
    BY <1>2, <1>3
  <2> HIDE DEF a, b
  <2> DEFINE z == Append(a, F[c])
  <2>3. /\ z \in Seq(Seq(T)) /\ Len(z) = Len(p) + 1 /\ z[Len(p) + 1] = F[c]
        /\ \A i \in 1 .. Len(p) : z[i] = a[i]
    BY <2>1, <1>3, AppendProperties
  <2> HIDE DEF z
  <2>4. \A i \in 1 .. Len(p) + 1 : b[i] = z[i]
    <3> SUFFICES ASSUME NEW i \in 1 .. Len(p) + 1 PROVE b[i] = z[i] OBVIOUS
    <3>1. CASE i = Len(p) + 1 BY <3>1, <2>2, <2>3, <1>2
    <3>2. CASE i \in 1 .. Len(p) BY <3>2, <2>1, <2>2, <2>3, <1>2
    <3> QED BY <3>1, <3>2, <1>2
  <2>5. b = z BY <2>2, <2>3, <2>4, SeqEqual
  <2> QED BY <2>1, <2>5 DEF a, b, z
<1> DEFINE S == [d \in T |-> UrlChar(d)]
           E == [d \in T |-> Escaped(d)]
<1>4. S \in [T -> Seq(T)] /\ E \in [T -> Seq(T)] BY <1>1
<1>5. /\ [i \in DOMAIN p |-> UrlChar(p[i])] = [i \in DOMAIN p |-> S[p[i]]]
      /\ [i \in DOMAIN q |-> UrlChar(q[i])] = [i \in DOMAIN q |-> S[q[i]]]
      /\ UrlChar(c) = S[c]
  BY <1>2
<1>6. /\ [i \in DOMAIN p |-> Escaped(p[i])] = [i \in DOMAIN p |-> E[p[i]]]
      /\ [i \in DOMAIN q |-> Escaped(q[i])] = [i \in DOMAIN q |-> E[q[i]]]
      /\ Escaped(c) = E[c]
  BY <1>2
<1> HIDE DEF S, E
<1>7. /\ [i \in DOMAIN p |-> UrlChar(p[i])] \in Seq(Seq(T))
      /\ [i \in DOMAIN q |-> UrlChar(q[i])] = Append([i \in DOMAIN p |-> UrlChar(p[i])], UrlChar(c))
  BY <1>3, <1>4, <1>5
<1>8. /\ [i \in DOMAIN p |-> Escaped(p[i])] \in Seq(Seq(T))
      /\ [i \in DOMAIN q |-> Escaped(q[i])] = Append([i \in DOMAIN p |-> Escaped(p[i])], Escaped(c))
  BY <1>3, <1>4, <1>6
<1> QED BY <1>1, <1>7, <1>8 DEF q

LEMMA HrefAppend ==
  ASSUME NEW T, Chars(T), NEW p \in Seq(T), NEW c \in T
  PROVE  Href(p) \in Seq(T) /\ Href(Append(p, c)) = Href(p) \o UrlChar(c)
<1> DEFINE m == [i \in DOMAIN p |-> UrlChar(p[i])]
<1>1. m \in Seq(Seq(T)) /\ UrlChar(c) \in Seq(T) BY MapAppend
<1>2. Href(p) = FlattenSeq(m) BY DEF Href
<1>3. Href(Append(p, c)) = FlattenSeq(Append(m, UrlChar(c)))
  <2>1. [i \in DOMAIN Append(p, c) |-> UrlChar(Append(p, c)[i])] = Append(m, UrlChar(c)) BY MapAppend
  <2> QED BY <2>1 DEF Href
<1> HIDE DEF m
<1> QED BY <1>1, <1>2, <1>3, FlattenAppend

LEMMA EscapeAppend ==
  ASSUME NEW T, Chars(T), NEW p \in Seq(T), NEW c \in T
  PROVE  Escape(p) \in Seq(T) /\ Escape(Append(p, c)) = Escape(p) \o Escaped(c)
<1> DEFINE m == [i \in DOMAIN p |-> Escaped(p[i])]
<1>1. m \in Seq(Seq(T)) /\ Escaped(c) \in Seq(T) BY MapAppend
<1>2. Escape(p) = FlattenSeq(m) BY DEF Escape, Escaped
<1>3. Escape(Append(p, c)) = FlattenSeq(Append(m, Escaped(c)))
  <2>1. [i \in DOMAIN Append(p, c) |-> Escaped(Append(p, c)[i])] = Append(m, Escaped(c)) BY MapAppend
  <2> QED BY <2>1 DEF Escape, Escaped
<1> HIDE DEF m
<1> QED BY <1>1, <1>2, <1>3, FlattenAppend

LEMMA UrlAppend ==
  ASSUME NEW T, Chars(T), NEW p \in Seq(T), NEW c \in T
  PROVE  pathURL(p) \in Seq(T) /\ pathURL(Append(p, c)) = pathURL(p) \o Code(c)
<1>1. \A q : pathURL(q) = Href(Escape(q)) BY DEF pathURL, Escape, Escaped
<1> DEFINE e == Escape(p)
<1>2. e \in Seq(T) /\ Escape(Append(p, c)) = e \o Escaped(c) BY EscapeAppend
<1>3. Href(e) \in Seq(T) BY <1>2, HrefAppend
<1> HIDE DEF e
<1>4. CASE c # "%"
  <2>1. Escape(Append(p, c)) = Append(e, c) BY <1>2, <1>4 DEF Escaped
  <2>2. Href(Append(e, c)) = Href(e) \o UrlChar(c) BY <1>2, HrefAppend
  <2>3. UrlChar(c) = Code(c) BY <1>4, PlainChar DEF Code
  <2> QED BY <1>1, <1>3, <2>1, <2>2, <2>3 DEF e
<1>5. CASE c = "%"
  <2> DEFINE e1 == Append(e, "%")  e2 == Append(e1, "2")  e3 == Append(e2, "5")
  <2>1. e1 \in Seq(T) /\ e2 \in Seq(T) /\ e3 \in Seq(T) BY <1>2, AppendProperties DEF Chars
  <2>2. Escape(Append(p, c)) = e3
    <3>1. e \o <<"%", "2", "5">> = e3 BY <1>2, Triple DEF Chars
    <3> QED BY <1>2, <1>5, <3>1 DEF Escaped
  <2>0. UrlChar("%") = <<"%">> /\ UrlChar("2") = <<"2">> /\ UrlChar("5") = <<"5">>
    BY PlainChar DEF Chars
  <2>3. Href(e1) = Href(e) \o <<"%">> BY <1>2, <2>0, HrefAppend DEF Chars
  <2> HIDE DEF e1
  <2>4. Href(e2) = Href(e1) \o <<"2">> BY <2>0, <2>1, HrefAppend DEF Chars
  <2> HIDE DEF e2
  <2>5. Href(e3) = Href(e2) \o <<"5">> BY <2>0, <2>1, HrefAppend DEF Chars
  <2> HIDE DEF e3
  <2> DEFINE h == Href(e)
  <2>6. h \in Seq(T) BY <1>3
  <2>7. Href(e3) = ((h \o <<"%">>) \o <<"2">>) \o <<"5">> BY <2>3, <2>4, <2>5
  <2> HIDE DEF h
  <2>8. ((h \o <<"%">>) \o <<"2">>) \o <<"5">> = h \o <<"%", "2", "5">>
    <3> DEFINE h1 == Append(h, "%")  h2 == Append(h1, "2")
    <3>1. h1 \in Seq(T) /\ h1 = h \o <<"%">> BY <2>6, AppendProperties, AppendIsConcat DEF Chars
    <3>2. h2 \in Seq(T) /\ h2 = h1 \o <<"2">>
      <4> HIDE DEF h1
      <4> QED BY <3>1, AppendProperties, AppendIsConcat DEF Chars
    <3>3. Append(h2, "5") = h2 \o <<"5">>
      <4> HIDE DEF h2
      <4> QED BY <3>2, AppendIsConcat DEF Chars
    <3>4. h \o <<"%", "2", "5">> = Append(h2, "5") BY <2>6, Triple DEF Chars
    <3> QED BY <3>1, <3>2, <3>3, <3>4
  <2> QED BY <1>1, <1>3, <1>5, <2>2, <2>7, <2>8 DEF Code, e, h
<1> QED BY <1>4, <1>5

LEMMA UrlEmpty == pathURL(<<>>) = <<>>
<1>1. FlattenSeq([i \in DOMAIN <<>> |-> Escaped(<<>>[i])]) = <<>>
  <2>1. [i \in DOMAIN <<>> |-> Escaped(<<>>[i])] = <<>> OBVIOUS
  <2> QED BY <2>1 DEF FlattenSeq
<1>2. Href(<<>>) = <<>>
  <2>1. [i \in DOMAIN <<>> |-> UrlChar(<<>>[i])] = <<>> OBVIOUS
  <2>2. FlattenSeq(<<>>) = <<>> BY DEF FlattenSeq
  <2> QED BY <2>1, <2>2 DEF Href
<1> QED BY <1>1, <1>2 DEF pathURL, Escaped

(* What the last character of a path, and the one before it, leave behind. *)
LEMMA UrlLast ==
  ASSUME NEW T, Chars(T), NEW p \in Seq(T), p # <<>>
  PROVE  \E f \in Seq(T), c \in T :
           p = Append(f, c) /\ pathURL(f) \in Seq(T) /\ pathURL(p) = pathURL(f) \o Code(c)
<1>1. PICK f \in Seq(T), c \in T : p = Append(f, c) BY SequenceEmptyOrAppend
<1>2. pathURL(f) \in Seq(T) /\ pathURL(Append(f, c)) = pathURL(f) \o Code(c) BY UrlAppend
<1> QED BY <1>1, <1>2

(* No url ends like the %2 of a code. *)
LEMMA CodeEnd ==
  ASSUME NEW T, Chars(T), NEW v \in Seq(T), NEW c \in T
  PROVE  v \o Code(c) = IF c = " " THEN Append(Append(Append(v, "%"), "2"), "0")
                         ELSE IF c = "%" THEN Append(Append(Append(v, "%"), "2"), "5")
                         ELSE Append(v, c)
<1>1. v \o <<"%", "2", "0">> = Append(Append(Append(v, "%"), "2"), "0") BY Triple DEF Chars
<1>2. v \o <<"%", "2", "5">> = Append(Append(Append(v, "%"), "2"), "5") BY Triple DEF Chars
<1>3. v \o <<c>> = Append(v, c) BY AppendIsConcat
<1>4. CASE c = " " BY <1>1, <1>4 DEF Code
<1>5. CASE c = "%" BY <1>2, <1>5 DEF Code
<1>6. CASE c # " " /\ c # "%" BY <1>3, <1>6 DEF Code
<1> QED BY <1>4, <1>5, <1>6

LEMMA NoOpenCode ==
  ASSUME NEW T, Chars(T), NEW p \in Seq(T), NEW u \in Seq(T)
  PROVE  /\ pathURL(p) # Append(u, "%")
         /\ pathURL(p) # Append(Append(u, "%"), "2")
<1>0. ASSUME NEW q \in Seq(T), NEW w \in Seq(T), pathURL(q) = Append(w, "%") PROVE FALSE
  <2>1. q # <<>> BY <1>0, UrlEmpty
  <2>2. PICK f \in Seq(T), c \in T :
          q = Append(f, c) /\ pathURL(f) \in Seq(T) /\ pathURL(q) = pathURL(f) \o Code(c)
    BY ONLY <2>1, Chars(T), q \in Seq(T), UrlLast
  <2> DEFINE v == pathURL(f)
  <2>3. v \in Seq(T) /\ v \o Code(c) = Append(w, "%") BY <1>0, <2>2
  <2> HIDE DEF v
  <2> DEFINE y == Append(Append(v, "%"), "2")
  <2>4. y \in Seq(T) BY <2>3, AppendProperties DEF Chars
  <2>5. Append(w, "%") = IF c = " " THEN Append(y, "0") ELSE IF c = "%" THEN Append(y, "5")
                         ELSE Append(v, c)
    BY <2>3, CodeEnd
  <2> HIDE DEF y
  <2>6. CASE c = " "
    <3>1. Append(w, "%") = Append(y, "0") BY <2>5, <2>6
    <3>2. "%" = "0" BY <2>4, <3>1, SameAppend DEF Chars
    <3> QED BY <3>2
  <2>7. CASE c = "%"
    <3>1. Append(w, "%") = Append(y, "5") BY <2>5, <2>7
    <3>2. "%" = "5" BY <2>4, <3>1, SameAppend DEF Chars
    <3> QED BY <3>2
  <2>8. CASE c # " " /\ c # "%"
    <3>1. Append(w, "%") = Append(v, c) BY <2>5, <2>8
    <3>2. "%" = c BY <2>3, <3>1, SameAppend DEF Chars
    <3> QED BY <2>8, <3>2
  <2> QED BY <2>6, <2>7, <2>8
<1>1. ASSUME pathURL(p) = Append(Append(u, "%"), "2") PROVE FALSE
  <2>1. p # <<>> BY <1>1, UrlEmpty
  <2>2. PICK f \in Seq(T), c \in T :
          p = Append(f, c) /\ pathURL(f) \in Seq(T) /\ pathURL(p) = pathURL(f) \o Code(c)
    BY ONLY <2>1, Chars(T), p \in Seq(T), UrlLast
  <2> DEFINE v == pathURL(f)
             y == Append(u, "%")
             x == Append(y, "2")
  <2>3. v \in Seq(T) /\ v \o Code(c) = x BY <1>1, <2>2
  <2>4. y \in Seq(T) BY AppendProperties DEF Chars
  <2>5. v # y BY <1>0
  <2> HIDE DEF v, y
  <2> DEFINE z == Append(Append(v, "%"), "2")
  <2>6. z \in Seq(T) BY <2>3, AppendProperties DEF Chars
  <2>7. x = IF c = " " THEN Append(z, "0") ELSE IF c = "%" THEN Append(z, "5") ELSE Append(v, c)
    BY <2>3, CodeEnd
  <2> HIDE DEF z
  <2> HIDE DEF x
  <2>8. CASE c = " "
    <3>1. Append(y, "2") = Append(z, "0") BY <2>7, <2>8 DEF x
    <3>2. "2" = "0" BY <2>4, <2>6, <3>1, SameAppend DEF Chars
    <3> QED BY <3>2
  <2>9. CASE c = "%"
    <3>1. Append(y, "2") = Append(z, "5") BY <2>7, <2>9 DEF x
    <3>2. "2" = "5" BY <2>4, <2>6, <3>1, SameAppend DEF Chars
    <3> QED BY <3>2
  <2>10. CASE c # " " /\ c # "%"
    <3>1. Append(y, "2") = Append(v, c) BY <2>7, <2>10 DEF x
    <3>2. y = v BY <2>3, <2>4, <3>1, SameAppend DEF Chars
    <3> QED BY <2>5, <3>2
  <2> QED BY <2>8, <2>9, <2>10
<1> QED BY <1>0, <1>1

(* The url of a path names no other path, for paths without the characters of
   Merging. *)
LEMMA UrlsDiffer ==
  ASSUME NEW T, Chars(T), NEW p \in Seq(T), NEW q \in Seq(T), pathURL(p) = pathURL(q)
  PROVE  p = q
<1> DEFINE Known(n) == \A a, b \in Seq(T) : Len(a) = n /\ pathURL(a) = pathURL(b) => a = b
           S == {n \in Nat : Known(n)}
<1>1. ASSUME NEW a \in Seq(T), pathURL(a) = <<>> PROVE a = <<>>
  <2> SUFFICES ASSUME a # <<>> PROVE FALSE OBVIOUS
  <2>1. PICK f \in Seq(T), c \in T :
          pathURL(f) \in Seq(T) /\ pathURL(a) = pathURL(f) \o Code(c)
    BY UrlLast
  <2> DEFINE v == pathURL(f)
  <2>2. v \in Seq(T) /\ v \o Code(c) = <<>> BY <1>1, <2>1
  <2> HIDE DEF v
  <2> DEFINE z == Append(Append(v, "%"), "2")
  <2>3. z \in Seq(T) BY <2>2, AppendProperties DEF Chars
  <2>4. v \o Code(c) = IF c = " " THEN Append(z, "0") ELSE IF c = "%" THEN Append(z, "5")
                        ELSE Append(v, c)
    BY <2>2, CodeEnd
  <2> HIDE DEF z
  <2>5. Append(z, "0") # <<>> /\ Append(z, "5") # <<>> /\ Append(v, c) # <<>>
    <3>1. "0" \in T /\ "5" \in T BY DEF Chars
    <3>2. \A u \in Seq(T), e \in T : Append(u, e) # <<>> BY AppendProperties
    <3> QED BY <2>2, <2>3, <3>1, <3>2
  <2> QED BY <2>2, <2>4, <2>5
<1>0. \A x, y \in Seq(T), k, l \in T : Append(x, k) = Append(y, l) => x = y /\ k = l
  BY SameAppend
<1>2. 0 \in S
  <2> SUFFICES ASSUME NEW a \in Seq(T), NEW b \in Seq(T), Len(a) = 0, pathURL(a) = pathURL(b)
               PROVE  a = b
    OBVIOUS
  <2>1. a = <<>> BY EmptySeq
  <2> QED BY <1>1, <2>1, UrlEmpty
<1>3. ASSUME NEW n \in Nat, n \in S PROVE n + 1 \in S
  <2> SUFFICES ASSUME NEW a \in Seq(T), NEW b \in Seq(T), Len(a) = n + 1, pathURL(a) = pathURL(b)
               PROVE  a = b
    OBVIOUS
  <2>1. a # <<>> BY EmptySeq
  <2>2. b # <<>> BY <1>1, <2>1, UrlEmpty
  <2>3. PICK f \in Seq(T), c \in T :
          a = Append(f, c) /\ pathURL(f) \in Seq(T) /\ pathURL(a) = pathURL(f) \o Code(c)
    BY <2>1, UrlLast
  <2>4. PICK g \in Seq(T), d \in T :
          b = Append(g, d) /\ pathURL(g) \in Seq(T) /\ pathURL(b) = pathURL(g) \o Code(d)
    BY <2>2, UrlLast
  <2>5. Len(f) = n BY <2>3, AppendProperties
  <2> DEFINE v == pathURL(f)  w == pathURL(g)
             v2 == Append(Append(v, "%"), "2")  w2 == Append(Append(w, "%"), "2")
  <2>6. v \in Seq(T) /\ w \in Seq(T) /\ v \o Code(c) = w \o Code(d) BY <2>3, <2>4
  <2>7. v # w2 /\ w # v2 BY <2>6, NoOpenCode
  <2>8. v = w => f = g BY <1>3, <2>5
  <2>9. v2 \in Seq(T) /\ w2 \in Seq(T) /\ (v2 = w2 => v = w)
    <3>1. Append(v, "%") \in Seq(T) /\ Append(w, "%") \in Seq(T)
      BY <2>6, AppendProperties DEF Chars
    <3>2. v2 = w2 => Append(v, "%") = Append(w, "%")
      <4> DEFINE v1 == Append(v, "%")  w1 == Append(w, "%")
      <4> HIDE DEF v1, w1
      <4>1. v1 \in Seq(T) /\ w1 \in Seq(T) /\ "2" \in T BY <3>1 DEF v1, w1, Chars
      <4>2. Append(v1, "2") = Append(w1, "2") => v1 = w1 BY <4>1, SameAppend
      <4> QED BY <4>2 DEF v1, w1
    <3>3. Append(v, "%") = Append(w, "%") => v = w BY <2>6, SameAppend DEF Chars
    <3> QED BY <3>1, <3>2, <3>3, AppendProperties DEF Chars
  <2> DEFINE base(e, u, u2) == IF e = " " \/ e = "%" THEN u2 ELSE u
             last(e) == IF e = " " THEN "0" ELSE IF e = "%" THEN "5" ELSE e
  <2>10. /\ v \o Code(c) = Append(base(c, v, v2), last(c))
         /\ w \o Code(d) = Append(base(d, w, w2), last(d))
    BY <2>6, CodeEnd
  <2>11. /\ base(c, v, v2) \in Seq(T) /\ base(d, w, w2) \in Seq(T)
         /\ last(c) \in T /\ last(d) \in T
    BY <2>6, <2>9 DEF Chars
  <2> HIDE DEF v, w, v2, w2
  <2>12. base(c, v, v2) = base(d, w, w2) /\ last(c) = last(d)
    <3>1. Append(base(c, v, v2), last(c)) = Append(base(d, w, w2), last(d)) BY <2>6, <2>10
    <3> HIDE DEF base, last
    <3> QED BY ONLY SMTT(30), <1>0, <2>11, <3>1
  <2>13. (c = " " \/ c = "%") => (d = " " \/ d = "%") BY <2>7, <2>12
  <2>14. (d = " " \/ d = "%") => (c = " " \/ c = "%") BY <2>7, <2>12
  <2>15. c = d
    <3>1. CASE c # " " /\ c # "%" BY <3>1, <2>12, <2>14
    <3>2. CASE c = " " BY <3>2, <2>12, <2>13
    <3>3. CASE c = "%" BY <3>3, <2>12, <2>13
    <3> QED BY <3>1, <3>2, <3>3
  <2>16. v = w BY <2>9, <2>12, <2>15
  <2> QED BY <2>3, <2>4, <2>8, <2>15, <2>16
<1>4. Nat \subseteq S
  <2> HIDE DEF S
  <2> QED BY <1>2, <1>3, Numbers
<1>5. Len(p) \in S BY <1>4
<1> QED BY <1>5

-----------------------------------------------------------------------------
(* The invariant. Its parts: the types (Shape), the two tables of loader.cc
   (Tables), V8's modules and what they request (Graph), the order of the calls
   (Nesting) and what holds of a body that runs (Bodies) and of a module that is
   linked (Links), V8's promises (Settlements) and what those of import() say
   (Answers), and how far the program is (Beginning, EntryRuns). *)
Statuses == {"unlinked", "linked", "evaluating", "evaluated", "errored", "awaiting"}
Modules == [path : Paths, status : Statuses, requests : SUBSET (Paths \X Nat)]
ImportKeys == {"import"} \X Nat

LoadFrames == [f : Loads, id : Nat, at : {"link", "eval"}, todo : SUBSET (Nat \X Paths),
               seen : SUBSET Nat, p : ImportKeys \cup {<<>>}]
BodyFrames == [f : {"body"}, id : Nat]
CallbackFrames == [f : {"callback"}]
Frames == LoadFrames \cup BodyFrames \cup CallbackFrames

Root(i) == <<"module", i>>

Shape ==
  /\ files \in FileSystems
  /\ v8 \in Seq(Modules) /\ stack \in Seq(Frames) /\ imports \in Nat
  /\ phase \in {"bootstrap", "script", "loop", "exit", "gone"}
  /\ Alive => status = "none"

Tables == phase # "gone" =>
  /\ DOMAIN modules = DOMAIN v8
  /\ \A i \in DOMAIN v8 :
       /\ modules[i] = v8[i].path /\ CanInit(v8[i].path)
       /\ pathURL(v8[i].path) \in DOMAIN resolve_cache /\ resolve_cache[pathURL(v8[i].path)] = i
  /\ \A u \in DOMAIN resolve_cache :
       resolve_cache[u] \in DOMAIN v8 /\ pathURL(v8[resolve_cache[u]].path) = u

Graph ==
  /\ \A i \in DOMAIN v8 : \A r \in v8[i].requests :
       r[1] \in files[v8[i].path].deps /\ r[2] \in DOMAIN v8 /\ v8[r[2]].path = r[1]
  /\ \A i \in DOMAIN v8 : v8[i].status = "awaiting" =>
       files[v8[i].path].kind = "awaits" /\ Root(i) \in DOMAIN promise

(* The calls s, where the modules `known` and the promises `made` exist and
   import() was called n times. *)
Nested(s, known, made, n) ==
  /\ s # <<>> => s[1].f \in {"exec", "callback"}
  /\ \A k \in DOMAIN s :
       /\ k > 1 => s[k].f \in {"body", "import"}
       /\ s[k].f # "callback" => s[k].id \in known
       /\ s[k].f \in Loads /\ k < Len(s) => s[k].at = "eval"
       /\ s[k].f \in Loads /\ s[k].at = "eval" => Root(s[k].id) \in made
       /\ s[k].f = "import" => s[k].p \in ({"import"} \X (1 .. n)) \ made
  /\ \A k, j \in DOMAIN s :
       /\ s[k].f \in Loads /\ j = k + 1 /\ s[j].f = "body" => s[j].id = s[k].id
       /\ k # j /\ s[k].f = "import" /\ s[j].f = "import" => s[k].p # s[j].p

(* The bodies among the calls s, where the modules are m. *)
Running(s, m, made) ==
  /\ \A k \in DOMAIN s : s[k].f = "body" =>
       /\ m[s[k].id].status = "evaluating"
       /\ files[m[s[k].id].path].kind = "awaits" \/ Root(s[k].id) \in made => s[k - 1].f \in Loads
  /\ \A k, j \in DOMAIN s : k # j /\ s[k].f = "body" /\ s[j].f = "body" => s[k].id # s[j].id

Nesting == Nested(stack, DOMAIN v8, DOMAIN promise, imports)
Bodies == Running(stack, v8, DOMAIN promise)

Links ==
  stack # <<>> /\ Top.f \in Loads /\ Top.at = "link" =>
    /\ Top.id \in Top.seen /\ Top.seen \subseteq DOMAIN v8
    /\ \A i \in Top.seen : v8[i].status = "unlinked"
    /\ \A r \in Top.todo : r[1] \in Top.seen /\ r[2] \in files[v8[r[1]].path].deps
    /\ Root(Top.id) \notin DOMAIN promise
    /\ \A q \in DOMAIN promise : promise[q].of # Top.id

Recorded(p) == promise[p] \in [state : States, handled : BOOLEAN, of : 0 .. Len(v8)]

Settlements ==
  /\ DOMAIN promise \subseteq Own \cup ({"module"} \X DOMAIN v8) \cup ({"import"} \X (1 .. imports))
  /\ \E n \in 0 .. MaxRejects : OwnUsed = {"own"} \X (1 .. n)
  /\ \A p \in DOMAIN promise : Recorded(p)
  /\ \A i \in DOMAIN v8 : Root(i) \in DOMAIN promise =>
       /\ promise[Root(i)].of = i /\ ~promise[Root(i)].handled
       /\ v8[i].status \notin {"unlinked", "linked"}
       /\ v8[i].status = "errored" <=> promise[Root(i)].state = "rejected"

Answers ==
  /\ \A q \in DOMAIN promise :
       q[1] = "import" /\ promise[q].state = "rejected" /\ Root(promise[q].of) \in DOMAIN promise =>
         v8[promise[q].of].status = "errored"
  /\ \A q \in DOMAIN promise : q[1] = "import" /\ promise[q].state = "fulfilled" =>
       /\ promise[q].of \in DOMAIN v8
       /\ \/ v8[promise[q].of].status \in {"evaluated", "awaiting"}
          \/ files[v8[promise[q].of].path].kind = "awaits"

Beginning ==
  /\ phase = "bootstrap" \/ (phase = "script" /\ stack = <<>>) =>
       \E std \in SUBSET Paths : Standard(files, std) /\ \A i \in DOMAIN v8 : v8[i].path \in std
  /\ phase = "bootstrap" /\ stack = <<>> => v8 = <<>>
  /\ phase = "bootstrap" /\ stack # <<>> => stack[1].f = "exec"
  /\ phase = "script" /\ stack # <<>> => stack[1].f = "exec" /\ v8[stack[1].id].path = Entry
  /\ phase = "loop" /\ stack # <<>> => stack[1].f = "callback"
  /\ phase = "exit" /\ Careful => \A k \in DOMAIN stack : stack[k].f # "exec"

EntryRuns ==
  /\ phase \in {"script", "loop"} =>
       \A k \in DOMAIN stack : stack[k].f = "import" => v8[stack[k].id].path # Entry
  /\ phase = "loop" => \E i \in DOMAIN v8 :
       /\ v8[i].path = Entry /\ Root(i) \in DOMAIN promise
       /\ v8[i].status \in {"evaluated", "awaiting", "errored"}
       /\ v8[i].status = "errored" => Root(i) \in rejected_promises

Cleaned == phase = "gone" =>
  /\ modules = <<>> /\ rejected_promises = {}
  /\ Careful => CleanExit

LInv ==
  /\ Shape /\ Tables /\ Graph /\ Nesting /\ Bodies /\ Links
  /\ Settlements /\ Answers /\ Beginning /\ EntryRuns
  /\ PendingExact /\ ExitStatus /\ Cleaned

-----------------------------------------------------------------------------
(* The disk. *)
LEMMA Disk ==
  ASSUME files \in FileSystems
  PROVE  /\ Bootstrap \in Paths /\ Entry \in Paths
         /\ \A p \in Paths : files[p].kind \in Kinds /\ files[p].deps \subseteq Paths
         /\ \A p \in Paths : \A q \in files[p].deps : files[q].kind # "awaits"
         /\ \E std \in SUBSET Paths : Standard(files, std)
         /\ \A p, q \in Paths : pathURL(p) = pathURL(q) => p = q
<1>1. /\ Bootstrap \in Paths /\ Entry \in Paths
      /\ \A p \in Paths : p \in Seq(Range(p)) /\ Range(p) \cap Merging = {}
      /\ \A p \in Paths : files[p].kind \in Kinds
      /\ \A p \in Paths : files[p].deps \subseteq {q \in Paths : files[q].kind # "awaits"}
      /\ \E std \in SUBSET Paths : Standard(files, std)
  BY FileSystemsAssumption DEF Paths
<1>2. ASSUME NEW p \in Paths, NEW q \in Paths, pathURL(p) = pathURL(q) PROVE p = q
  <2> DEFINE T == {"%", "2", "0", "5"} \cup Range(p) \cup Range(q)
  <2>1. Chars(T)
    <3>1. {"%", "2", "0", "5"} \cap Merging = {} BY DEF Merging, Dropped
    <3> QED BY <1>1, <3>1 DEF Chars
  <2>2. p \in Seq(T) /\ q \in Seq(T) BY <1>1, SeqMonotonic
  <2> HIDE DEF T
  <2> QED BY <1>2, <2>1, <2>2, UrlsDiffer
<1> QED BY <1>1, <1>2

LEMMA V8Type ==
  ASSUME Shape
  PROVE  /\ Len(v8) \in Nat /\ DOMAIN v8 = 1 .. Len(v8)
         /\ \A i \in DOMAIN v8 :
              v8[i] \in Modules /\ v8[i].path \in Paths /\ v8[i].status \in Statuses
              /\ v8[i].requests \subseteq Paths \X Nat
<1>1. Len(v8) \in Nat /\ DOMAIN v8 = 1 .. Len(v8) /\ \A i \in 1 .. Len(v8) : v8[i] \in Modules
  BY ElementOfSeq, LenProperties DEF Shape
<1> QED BY <1>1 DEF Modules

LEMMA Entered ==
  ASSUME NEW f, NEW k, NEW e
  PROVE  /\ DOMAIN Put(f, k, e) = {k} \cup DOMAIN f /\ Put(f, k, e)[k] = e
         /\ \A x \in DOMAIN f : x # k => Put(f, k, e)[x] = f[x]
BY DEF Put

(* The two tables, read as what they say of V8's modules. *)
LEMMA CacheIs ==
  ASSUME Shape, Tables, phase # "gone", NEW path \in Paths
  PROVE  fromCache(path) = {i \in DOMAIN v8 : v8[i].path = path}
<1>1. \A i \in DOMAIN v8 : v8[i].path \in Paths BY V8Type
<1> QED BY <1>1, Disk DEF Shape, Tables, fromCache

SamePaths ==
  /\ DOMAIN v8' = DOMAIN v8 /\ Len(v8') = Len(v8)
  /\ \A i \in DOMAIN v8 : v8'[i].path = v8[i].path

LEMMA TablesKept ==
  ASSUME Tables, SamePaths, UNCHANGED <<files, modules, resolve_cache>>, phase' # "gone" => phase # "gone"
  PROVE  Tables'
BY DEF Tables, SamePaths, CanInit

(* A module that does not compile is in neither table. *)
LEMMA TablesDestroyed ==
  ASSUME Shape, Tables, SamePaths, files' = files, phase # "gone",
         NEW path \in Paths, ~CanInit(path), Destroyed(path)
  PROVE  Tables'
<1>1. \A i \in DOMAIN v8 : v8[i].path \in Paths /\ v8[i].path # path
  BY V8Type DEF Tables
<1>2. \A i \in DOMAIN v8 : pathURL(v8[i].path) # pathURL(path)
  BY <1>1, Disk DEF Shape
<1>3. pathURL(path) \notin DOMAIN resolve_cache BY <1>2 DEF Tables
<1>4. /\ DOMAIN resolve_cache' = DOMAIN resolve_cache
      /\ \A u \in DOMAIN resolve_cache : resolve_cache'[u] = resolve_cache[u]
  BY <1>3 DEF Destroyed, Erased
<1>5. modules' = modules BY DEF Destroyed
<1> HIDE DEF Destroyed
<1> QED BY <1>4, <1>5 DEF Tables, SamePaths, CanInit

NewModule(path) ==
  /\ DOMAIN v8 = 1 .. Len(v8) /\ DOMAIN v8' = 1 .. Len(v8) + 1 /\ Len(v8') = Len(v8) + 1
  /\ \A i \in DOMAIN v8 : v8'[i].path = v8[i].path /\ v8'[i].status = v8[i].status
  /\ v8'[Len(v8) + 1].path = path /\ v8'[Len(v8) + 1].status = "unlinked"

LEMMA TablesCompiled ==
  ASSUME Shape, Tables, files' = files, phase # "gone",
         NEW path \in Paths, CanInit(path), fromCache(path) = {}, Compiled(path), NewModule(path)
  PROVE  Tables'
<1> DEFINE n == Len(v8) + 1
<1>0. Len(v8) \in Nat /\ DOMAIN v8 = 1 .. Len(v8) /\ DOMAIN v8' = (1 .. Len(v8)) \cup {n}
  BY DEF Shape, NewModule
<1>1. \A i \in DOMAIN v8 : v8[i].path \in Paths /\ v8[i].path # path
  BY CacheIs, V8Type
<1>2. \A i \in DOMAIN v8 : pathURL(v8[i].path) # pathURL(path)
  BY <1>1, Disk DEF Shape
<1>3. /\ DOMAIN modules' = {n} \cup DOMAIN modules
      /\ modules'[n] = path /\ \A i \in DOMAIN modules : i # n => modules'[i] = modules[i]
  BY DEF Compiled, NextId, Put
<1>4. /\ DOMAIN resolve_cache' = {pathURL(path)} \cup DOMAIN resolve_cache
      /\ resolve_cache'[pathURL(path)] = n
      /\ \A u \in DOMAIN resolve_cache : u # pathURL(path) => resolve_cache'[u] = resolve_cache[u]
  BY DEF Compiled, NextId, Put
<1>5. DOMAIN modules' = DOMAIN v8' BY <1>0, <1>3 DEF Tables
<1>6. ASSUME NEW i \in DOMAIN v8'
      PROVE  /\ modules'[i] = v8'[i].path /\ CanInit(v8'[i].path)
             /\ pathURL(v8'[i].path) \in DOMAIN resolve_cache'
             /\ resolve_cache'[pathURL(v8'[i].path)] = i
  <2>1. CASE i = n BY <2>1, <1>3, <1>4 DEF NewModule
  <2>2. CASE i \in DOMAIN v8
    <3>1. i # n BY <2>2, <1>0
    <3> QED BY <2>2, <3>1, <1>2, <1>3, <1>4 DEF NewModule, Tables
  <2> QED BY <1>0, <2>1, <2>2
<1>7. ASSUME NEW u \in DOMAIN resolve_cache'
      PROVE  resolve_cache'[u] \in DOMAIN v8' /\ pathURL(v8'[resolve_cache'[u]].path) = u
  <2>1. CASE u = pathURL(path) BY <2>1, <1>0, <1>4 DEF NewModule
  <2>2. CASE u # pathURL(path) BY <2>2, <1>0, <1>4 DEF NewModule, Tables
  <2> QED BY <2>1, <2>2
<1> QED BY <1>5, <1>6, <1>7 DEF Tables, CanInit

-----------------------------------------------------------------------------
(* The stack. *)
LEMMA PushFacts ==
  ASSUME NEW S, NEW s \in Seq(S), NEW x \in S, NEW t, t = Append(s, x)
  PROVE  /\ t \in Seq(S) /\ t # <<>> /\ Len(t) = Len(s) + 1 /\ Len(s) \in Nat
         /\ DOMAIN t = 1 .. Len(s) + 1 /\ DOMAIN s = 1 .. Len(s)
         /\ t[Len(s) + 1] = x /\ Last(t) = x
         /\ \A k \in 1 .. Len(s) : t[k] = s[k]
BY AppendProperties DEF Last

LEMMA PopFacts ==
  ASSUME NEW S, NEW s \in Seq(S), s # <<>>
  PROVE  /\ Front(s) \in Seq(S) /\ Len(Front(s)) = Len(s) - 1
         /\ Len(s) \in Nat \ {0} /\ DOMAIN s = 1 .. Len(s) /\ DOMAIN Front(s) = 1 .. Len(s) - 1
         /\ \A k \in 1 .. Len(s) - 1 : Front(s)[k] = s[k]
         /\ Last(s) = s[Len(s)] /\ Last(s) \in S
         /\ Last(Front(s)) = Front(s)[Len(s) - 1]
<1>1. Len(s) \in Nat \ {0} /\ DOMAIN s = 1 .. Len(s) BY EmptySeq
<1>2. /\ Front(s) \in Seq(S) /\ Len(Front(s)) = Len(s) - 1
      /\ \A k \in 1 .. Len(s) - 1 : Front(s)[k] = s[k]
  BY <1>1, SubSeqProperties DEF Front
<1> QED BY <1>1, <1>2 DEF Last

LEMMA FrameFacts ==
  ASSUME NEW x \in Frames
  PROVE  /\ x.f \in Loads => x \in LoadFrames
         /\ x.f = "body" => x.id \in Nat
         /\ x.f \in {"exec", "import", "body", "callback"}
BY DEF Frames, LoadFrames, BodyFrames, CallbackFrames, Loads

-----------------------------------------------------------------------------
(* What a step leaves alone. *)
Later ==
  /\ DOMAIN v8 = 1 .. Len(v8) /\ DOMAIN v8' = 1 .. Len(v8') /\ Len(v8) \in Nat /\ Len(v8') \in Nat
  /\ Len(v8) <= Len(v8') /\ DOMAIN v8 \subseteq DOMAIN v8'
  /\ \A i \in DOMAIN v8 : v8'[i].path = v8[i].path
SameStatus == \A i \in DOMAIN v8 : v8'[i].status = v8[i].status
RootsKept == \A i \in DOMAIN v8 : Root(i) \in DOMAIN promise => v8'[i].status = v8[i].status
StaysSettled ==
  \A i \in DOMAIN v8 :
    /\ v8[i].status = "errored" => v8'[i].status = "errored"
    /\ v8[i].status \in {"evaluated", "awaiting"} =>
         v8'[i].status \in {"evaluated", "awaiting"} \/ files[v8[i].path].kind = "awaits"

LEMMA SameV8 ==
  ASSUME Shape, v8' = v8
  PROVE  Later /\ SameStatus /\ SamePaths /\ RootsKept /\ StaysSettled
BY V8Type DEF Later, SameStatus, SamePaths, RootsKept, StaysSettled

LEMMA RootOf ==
  ASSUME Settlements, NEW i, Root(i) \in DOMAIN promise
  PROVE  i \in DOMAIN v8
BY DEF Settlements, Root, Own

LEMMA SettlementsKept ==
  ASSUME Settlements, Later, RootsKept, promise' = promise,
         imports \in Nat, imports' \in Nat, imports <= imports'
  PROVE  Settlements'
<1>1. 1 .. imports \subseteq 1 .. imports' OBVIOUS
<1>2. DOMAIN promise' \subseteq
        Own \cup ({"module"} \X DOMAIN v8') \cup ({"import"} \X (1 .. imports'))
  BY <1>1 DEF Settlements, Later
<1>3. OwnUsed' = OwnUsed BY DEF OwnUsed
<1>4. \A p \in DOMAIN promise : Recorded(p)'
  BY DEF Settlements, Recorded, Later
<1>5. ASSUME NEW i \in DOMAIN v8', Root(i) \in DOMAIN promise
      PROVE  /\ promise[Root(i)].of = i /\ ~promise[Root(i)].handled
             /\ v8'[i].status \notin {"unlinked", "linked"}
             /\ v8'[i].status = "errored" <=> promise[Root(i)].state = "rejected"
  <2>1. i \in DOMAIN v8 BY <1>5, RootOf
  <2> QED BY <1>5, <2>1 DEF Settlements, RootsKept, Root
<1> QED BY <1>2, <1>3, <1>4, <1>5 DEF Settlements, Root

LEMMA AnswersKept ==
  ASSUME Settlements, Answers, Later, StaysSettled, promise' = promise, files' = files
  PROVE  Answers'
<1>1. \A q \in DOMAIN promise : Root(promise[q].of) \in DOMAIN promise => promise[q].of \in DOMAIN v8
  BY RootOf
<1> QED BY <1>1 DEF Answers, Later, StaysSettled, Root

LEMMA PendingKept ==
  ASSUME PendingExact, promise' = promise, rejected_promises' = rejected_promises,
         phase' # "gone" => phase # "gone"
  PROVE  PendingExact'
BY DEF PendingExact, Rethrown

LEMMA NoExit ==
  /\ status' = "none" => ExitStatus'
  /\ phase' # "gone" => Cleaned'
BY DEF ExitStatus, Cleaned

LEMMA TypesKept ==
  ASSUME Shape, files' = files
  PROVE  Paths' = Paths /\ Modules' = Modules /\ Frames' = Frames
BY DEF Paths, Modules, Frames, LoadFrames, Statuses, Loads, BodyFrames, CallbackFrames

LEMMA GraphKept ==
  ASSUME Graph, Later, files' = files, DOMAIN promise \subseteq DOMAIN promise',
         \A i \in DOMAIN v8 : v8'[i].requests \subseteq v8[i].requests,
         \A i \in DOMAIN v8 : v8'[i].status = "awaiting" => v8[i].status = "awaiting"
           \/ (files[v8[i].path].kind = "awaits" /\ Root(i) \in DOMAIN promise'),
         \A i \in DOMAIN v8' : i \notin DOMAIN v8 => v8'[i].requests = {} /\ v8'[i].status = "unlinked"
  PROVE  Graph'
<1>1. ASSUME NEW i \in DOMAIN v8', NEW r \in v8'[i].requests
      PROVE  r[1] \in files'[v8'[i].path].deps /\ r[2] \in DOMAIN v8' /\ v8'[r[2]].path = r[1]
  <2>1. i \in DOMAIN v8 /\ r \in v8[i].requests OBVIOUS
  <2> QED BY <2>1 DEF Graph, Later
<1>2. ASSUME NEW i \in DOMAIN v8', v8'[i].status = "awaiting"
      PROVE  files'[v8'[i].path].kind = "awaits" /\ Root(i) \in DOMAIN promise'
  <2>1. i \in DOMAIN v8 BY <1>2
  <2> QED BY <1>2, <2>1 DEF Graph, Later, Root
<1> QED BY <1>1, <1>2 DEF Graph, Root

(* The calls below the one that changes. *)
LEMMA BeginningKept ==
  ASSUME Shape, Beginning, Nesting, Later, files' = files, phase' = phase, phase # "exit",
         stack' = <<>> <=> stack = <<>>,
         stack # <<>> => stack'[1].f = stack[1].f /\ (stack[1].f = "exec" => stack'[1].id = stack[1].id),
         phase = "bootstrap" \/ stack = <<>> =>
           \A i \in DOMAIN v8' : i \in DOMAIN v8
             \/ \E j \in DOMAIN v8 : v8'[i].path \in files[v8[j].path].deps,
         stack = <<>> => v8' = v8
  PROVE  Beginning'
<1>1. ASSUME phase = "bootstrap" \/ (phase = "script" /\ stack = <<>>)
      PROVE  \E std \in SUBSET Paths : Standard(files, std) /\ \A i \in DOMAIN v8' : v8'[i].path \in std
  <2>1. PICK std \in SUBSET Paths : Standard(files, std) /\ \A i \in DOMAIN v8 : v8[i].path \in std
    BY <1>1 DEF Beginning
  <2>2. ASSUME NEW i \in DOMAIN v8' PROVE v8'[i].path \in std
    <3>1. CASE i \in DOMAIN v8 BY <3>1, <2>1 DEF Later
    <3>2. CASE \E j \in DOMAIN v8 : v8'[i].path \in files[v8[j].path].deps
      BY <3>2, <2>1 DEF Standard
    <3> QED BY <1>1, <3>1, <3>2
  <2> QED BY <2>1, <2>2
<1>2. phase = "script" /\ stack # <<>> => stack'[1].f = "exec" /\ v8'[stack'[1].id].path = Entry
  <2> SUFFICES ASSUME phase = "script", stack # <<>>
               PROVE  stack'[1].f = "exec" /\ v8'[stack'[1].id].path = Entry
    OBVIOUS
  <2>1. stack[1].f = "exec" /\ v8[stack[1].id].path = Entry BY DEF Beginning
  <2>2. stack[1].id \in DOMAIN v8
    <3>1. 1 \in DOMAIN stack BY PopFacts DEF Shape
    <3> QED BY <2>1, <3>1 DEF Nesting, Nested, Loads
  <2> QED BY <2>1, <2>2 DEF Later
<1>3. phase' # "exit" BY DEF Beginning
<1>4. Paths' = Paths /\ \A std : Standard(files, std)' = Standard(files, std)
  BY DEF Paths, Standard
<1>5. /\ phase = "bootstrap" /\ stack = <<>> => v8' = <<>>
      /\ phase = "bootstrap" /\ stack # <<>> => stack'[1].f = "exec"
      /\ phase = "loop" /\ stack # <<>> => stack'[1].f = "callback"
  BY DEF Beginning
<1> QED BY <1>1, <1>2, <1>3, <1>4, <1>5 DEF Beginning

(* An import in progress is not of the entry script. *)
ImportsKept ==
  \A k \in DOMAIN stack' : stack'[k].f = "import" =>
    \/ phase \in {"script", "loop"} => v8'[stack'[k].id].path # Entry
    \/ \E j \in DOMAIN stack : stack[j].f = "import" /\ stack'[k].id = stack[j].id

LEMMA EntryRunsKept ==
  ASSUME EntryRuns, Nesting, Later, phase' = phase, ImportsKept,
         DOMAIN promise \subseteq DOMAIN promise',
         \A i \in DOMAIN v8 : v8[i].status \in {"evaluated", "awaiting", "errored"}
            /\ v8[i].path = Entry /\ Root(i) \in DOMAIN promise /\ phase = "loop"
            => v8'[i].status \in {"evaluated", "awaiting", "errored"}
               /\ (v8'[i].status = "errored" =>
                     Root(i) \in rejected_promises' \/ (v8[i].status = "errored" /\
                       (Root(i) \in rejected_promises => Root(i) \in rejected_promises')))
  PROVE  EntryRuns'
<1>1. ASSUME phase \in {"script", "loop"}, NEW k \in DOMAIN stack', stack'[k].f = "import"
      PROVE  v8'[stack'[k].id].path # Entry
  <2>0. CASE v8'[stack'[k].id].path # Entry BY <2>0
  <2>1. CASE \E j \in DOMAIN stack : stack[j].f = "import" /\ stack'[k].id = stack[j].id
    <3>1. PICK j \in DOMAIN stack : stack[j].f = "import" /\ stack'[k].id = stack[j].id BY <2>1
    <3>2. stack[j].id \in DOMAIN v8 BY <3>1 DEF Nesting, Nested, Loads
    <3> QED BY <1>1, <3>1, <3>2 DEF EntryRuns, Later
  <2> QED BY <1>1, <2>0, <2>1 DEF ImportsKept
<1>2. ASSUME phase = "loop"
      PROVE  \E i \in DOMAIN v8' :
               /\ v8'[i].path = Entry /\ Root(i) \in DOMAIN promise'
               /\ v8'[i].status \in {"evaluated", "awaiting", "errored"}
               /\ v8'[i].status = "errored" => Root(i) \in rejected_promises'
  <2>1. PICK i \in DOMAIN v8 :
          /\ v8[i].path = Entry /\ Root(i) \in DOMAIN promise
          /\ v8[i].status \in {"evaluated", "awaiting", "errored"}
          /\ v8[i].status = "errored" => Root(i) \in rejected_promises
    BY <1>2 DEF EntryRuns
  <2> QED BY <1>2, <2>1 DEF Later
<1> QED BY <1>1, <1>2 DEF EntryRuns, Root

-----------------------------------------------------------------------------
(* Calls are made and return at the top of the stack only. *)
LEMMA TopFacts ==
  ASSUME Shape, stack # <<>>
  PROVE  /\ stack \in Seq(Frames) /\ Len(stack) \in Nat \ {0} /\ DOMAIN stack = 1 .. Len(stack)
         /\ Top = stack[Len(stack)] /\ Top \in Frames /\ Len(stack) \in DOMAIN stack
         /\ Popped \in Seq(Frames) /\ Len(Popped) = Len(stack) - 1
         /\ DOMAIN Popped = 1 .. Len(stack) - 1 /\ DOMAIN Popped \subseteq DOMAIN stack
         /\ \A k \in 1 .. Len(stack) - 1 : Popped[k] = stack[k]
<1>1. stack \in Seq(Frames) BY DEF Shape
<1> QED BY <1>1, PopFacts DEF Popped, Top

Evaluating(s) == \A k \in DOMAIN s : s[k].f \in Loads => s[k].at = "eval"

LEMMA NestedPop ==
  ASSUME NEW s \in Seq(Frames), s # <<>>, NEW known, NEW made, NEW n, Nested(s, known, made, n)
  PROVE  Nested(Front(s), known, made, n) /\ Evaluating(Front(s))
<1> DEFINE t == Front(s)
<1>1. /\ Len(s) \in Nat \ {0} /\ DOMAIN s = 1 .. Len(s) /\ Len(t) = Len(s) - 1
      /\ DOMAIN t = 1 .. Len(s) - 1 /\ t \in Seq(Frames)
      /\ \A k \in 1 .. Len(s) - 1 : t[k] = s[k]
  BY PopFacts
<1>2. \A k \in DOMAIN t : k \in DOMAIN s /\ t[k] = s[k] /\ k < Len(s) BY <1>1
<1>3. t # <<>> => t[1] = s[1] BY <1>1, PopFacts
<1> HIDE DEF t
<1>4. Evaluating(t) BY <1>2 DEF Nested, Evaluating
<1>5. Nested(t, known, made, n) BY <1>2, <1>3, <1>4 DEF Nested, Evaluating
<1> QED BY <1>4, <1>5 DEF t

(* A call x may be made on top of the calls s. *)
Callable(s, x, known, made, n) ==
  /\ IF s = <<>> THEN x.f \in {"exec", "callback"} ELSE x.f \in {"body", "import"}
  /\ x.f # "callback" => x.id \in known
  /\ x.f \in Loads /\ x.at = "eval" => Root(x.id) \in made
  /\ x.f = "import" =>
       /\ x.p \in ({"import"} \X (1 .. n)) \ made
       /\ \A k \in DOMAIN s : s[k].f = "import" => s[k].p # x.p
  /\ x.f = "body" /\ Last(s).f \in Loads => x.id = Last(s).id

LEMMA NestedPush ==
  ASSUME NEW s \in Seq(Frames), NEW x \in Frames, NEW known, NEW made, NEW n,
         Nested(s, known, made, n), Evaluating(s), Callable(s, x, known, made, n)
  PROVE  Nested(Append(s, x), known, made, n)
<1> DEFINE t == Append(s, x)
<1> DEFINE l == Len(s)
<1>1. /\ l \in Nat /\ DOMAIN t = 1 .. l + 1 /\ DOMAIN s = 1 .. l /\ Len(t) = l + 1
      /\ t[l + 1] = x /\ \A k \in 1 .. l : t[k] = s[k]
  BY PushFacts
<1>2. s = <<>> <=> l = 0 BY EmptySeq
<1>3. s # <<>> => Last(s) = s[l] BY DEF Last
<1> HIDE DEF t, l
<1>4. t[1].f \in {"exec", "callback"} BY <1>1, <1>2 DEF Nested, Callable
<1>5. ASSUME NEW k \in DOMAIN t
      PROVE  /\ k > 1 => t[k].f \in {"body", "import"}
             /\ t[k].f # "callback" => t[k].id \in known
             /\ t[k].f \in Loads /\ k < Len(t) => t[k].at = "eval"
             /\ t[k].f \in Loads /\ t[k].at = "eval" => Root(t[k].id) \in made
             /\ t[k].f = "import" => t[k].p \in ({"import"} \X (1 .. n)) \ made
  <2>1. CASE k \in 1 .. l BY <1>1, <2>1 DEF Nested, Evaluating
  <2>2. CASE k = l + 1 BY <1>1, <1>2, <2>2 DEF Callable
  <2> QED BY <1>1, <2>1, <2>2
<1>6. ASSUME NEW k \in DOMAIN t, NEW j \in DOMAIN t
      PROVE  /\ t[k].f \in Loads /\ j = k + 1 /\ t[j].f = "body" => t[j].id = t[k].id
             /\ k # j /\ t[k].f = "import" /\ t[j].f = "import" => t[k].p # t[j].p
  <2>1. CASE k \in 1 .. l /\ j \in 1 .. l BY <1>1, <2>1 DEF Nested
  <2>2. CASE k \in 1 .. l /\ j = l + 1 BY <1>1, <1>2, <1>3, <2>2 DEF Callable
  <2>3. CASE k = l + 1 BY <1>1, <2>3 DEF Callable
  <2> QED BY <1>1, <2>1, <2>2, <2>3
<1>7. Nested(t, known, made, n) BY <1>4, <1>5, <1>6 DEF Nested
<1> QED BY <1>7 DEF t

(* More modules and promises do not matter, but that of an import in progress. *)
LEMMA NestedGrow ==
  ASSUME NEW s, NEW known, NEW made, NEW n \in Nat, Nested(s, known, made, n),
         NEW known2, NEW made2, NEW n2 \in Nat,
         known \subseteq known2, made \subseteq made2, n <= n2,
         \A k \in DOMAIN s : s[k].f = "import" => s[k].p \notin made2
  PROVE  Nested(s, known2, made2, n2)
<1>1. 1 .. n \subseteq 1 .. n2 OBVIOUS
<1>2. \A k \in DOMAIN s : s[k].f = "import" => s[k].p \in ({"import"} \X (1 .. n2)) \ made2
  BY <1>1 DEF Nested
<1> QED BY <1>2 DEF Nested

LEMMA RunningPop ==
  ASSUME NEW s \in Seq(Frames), s # <<>>, NEW m, NEW made, Running(s, m, made),
         s[1].f # "body"
  PROVE  Running(Front(s), m, made)
<1> DEFINE t == Front(s)
<1>1. /\ Len(s) \in Nat \ {0} /\ DOMAIN s = 1 .. Len(s)
      /\ DOMAIN t = 1 .. Len(s) - 1
      /\ \A k \in 1 .. Len(s) - 1 : t[k] = s[k]
  BY PopFacts
<1>2. \A k \in DOMAIN t : k \in DOMAIN s /\ t[k] = s[k] /\ (k # 1 => t[k - 1] = s[k - 1]) BY <1>1
<1>3. 1 \in DOMAIN t => t[1].f # "body" BY <1>1
<1> HIDE DEF t
<1>4. \A k \in DOMAIN t : t[k].f = "body" => k # 1 BY <1>3
<1>5. \A k \in DOMAIN t : t[k].f = "body" =>
        /\ m[t[k].id].status = "evaluating"
        /\ files[m[t[k].id].path].kind = "awaits" \/ Root(t[k].id) \in made => t[k - 1].f \in Loads
  BY <1>2, <1>4 DEF Running
<1>6. ASSUME NEW k \in DOMAIN t, NEW j \in DOMAIN t, k # j, t[k].f = "body", t[j].f = "body"
      PROVE  t[k].id # t[j].id
  <2>1. k \in DOMAIN s /\ t[k] = s[k] /\ j \in DOMAIN s /\ t[j] = s[j] BY <1>2
  <2>2. s[k].f = "body" /\ s[j].f = "body" BY <1>6, <2>1
  <2>3. s[k].id # s[j].id BY <1>6, <2>1, <2>2 DEF Running
  <2> QED BY <2>1, <2>3
<1>7. Running(t, m, made) BY <1>5, <1>6 DEF Running
<1> QED BY <1>7 DEF t

LEMMA RunningPush ==
  ASSUME NEW s \in Seq(Frames), NEW x \in Frames, NEW m, NEW made, Running(s, m, made),
         s # <<>> => s[1].f # "body",
         x.f = "body" =>
           /\ s # <<>> /\ m[x.id].status = "evaluating"
           /\ files[m[x.id].path].kind = "awaits" \/ Root(x.id) \in made => Last(s).f \in Loads
           /\ \A k \in DOMAIN s : s[k].f = "body" => s[k].id # x.id
  PROVE  Running(Append(s, x), m, made)
<1> DEFINE t == Append(s, x)
<1> DEFINE l == Len(s)
<1>1. /\ l \in Nat /\ DOMAIN t = 1 .. l + 1 /\ DOMAIN s = 1 .. l
      /\ t[l + 1] = x /\ \A k \in 1 .. l : t[k] = s[k]
  BY PushFacts
<1>2. s # <<>> => Last(s) = s[l] /\ l # 0 BY EmptySeq DEF Last
<1> HIDE DEF t, l
<1>3. ASSUME NEW k \in DOMAIN t, t[k].f = "body"
      PROVE  /\ m[t[k].id].status = "evaluating"
             /\ files[m[t[k].id].path].kind = "awaits" \/ Root(t[k].id) \in made => t[k - 1].f \in Loads
  <2>1. CASE k \in 1 .. l
    <3>1. k # 1 \/ s = <<>> BY <1>1, <1>3, <2>1
    <3>2. k # 1 BY <1>1, <1>2, <2>1, <3>1, EmptySeq DEF l
    <3>3. k - 1 \in 1 .. l BY <1>1, <2>1, <3>2
    <3>4. t[k] = s[k] /\ t[k - 1] = s[k - 1] /\ k \in DOMAIN s BY <1>1, <2>1, <3>3
    <3> QED BY <1>3, <3>4 DEF Running
  <2>2. CASE k = l + 1
    <3>1. t[k] = x /\ s # <<>> /\ k - 1 = l /\ l \in 1 .. l BY <1>1, <1>2, <1>3, <2>2
    <3>2. t[k - 1] = Last(s) BY <1>1, <1>2, <3>1
    <3> QED BY <1>3, <3>1, <3>2
  <2> QED BY <1>1, <2>1, <2>2
<1>4. ASSUME NEW k \in DOMAIN t, NEW j \in DOMAIN t, k # j, t[k].f = "body", t[j].f = "body"
      PROVE  t[k].id # t[j].id
  <2>1. CASE k \in 1 .. l /\ j \in 1 .. l BY <1>1, <1>4, <2>1 DEF Running
  <2>2. CASE k \in 1 .. l /\ j = l + 1 BY <1>1, <1>4, <2>2
  <2>3. CASE k = l + 1 BY <1>1, <1>4, <2>3
  <2> QED BY <1>1, <2>1, <2>2, <2>3
<1>5. Running(t, m, made) BY <1>3, <1>4 DEF Running
<1> QED BY <1>5 DEF t

(* Other modules and promises do not matter. *)
LEMMA RunningKept ==
  ASSUME NEW s, NEW m, NEW made, Running(s, m, made), NEW m2, NEW made2,
         \A k \in DOMAIN s : s[k].f = "body" =>
           /\ m2[s[k].id].status = m[s[k].id].status /\ m2[s[k].id].path = m[s[k].id].path
           /\ Root(s[k].id) \in made2 => Root(s[k].id) \in made
  PROVE  Running(s, m2, made2)
BY DEF Running

LEMMA NoCalls ==
  /\ \A known, made, n, m : Nested(<<>>, known, made, n) /\ Running(<<>>, m, made)
  /\ Evaluating(<<>>)
<1>1. DOMAIN <<>> = {} OBVIOUS
<1> QED BY <1>1 DEF Nested, Running, Evaluating

LEMMA FirstCall ==
  ASSUME Shape, Nesting, stack # <<>>
  PROVE  stack[1].f # "body" /\ (Popped # <<>> => Popped[1] = stack[1])
<1>1. stack[1].f \in {"exec", "callback"} BY DEF Nesting, Nested
<1>2. Popped # <<>> => Len(Popped) # 0 BY TopFacts, EmptySeq
<1> QED BY <1>1, <1>2, TopFacts

LEMMA NextCalls ==
  ASSUME files' = files
  PROVE  /\ Nested(stack', DOMAIN v8', DOMAIN promise', imports') => Nesting'
         /\ Running(stack', v8', DOMAIN promise') => Bodies'
BY DEF Nesting, Bodies, Nested, Running, Loads, Root

LEMMA PushedCalls ==
  ASSUME stack \in Seq(Frames), NEW x \in Frames, stack' = Append(stack, x)
  PROVE  /\ stack' \in Seq(Frames) /\ stack' # <<>> /\ Len(stack') = Len(stack) + 1 /\ Len(stack) \in Nat
         /\ DOMAIN stack' = 1 .. Len(stack) + 1 /\ DOMAIN stack = 1 .. Len(stack)
         /\ stack'[Len(stack) + 1] = x /\ Last(stack') = x
         /\ \A k \in 1 .. Len(stack) : stack'[k] = stack[k]
BY AppendProperties DEF Last

-----------------------------------------------------------------------------
(* A promise gets its state. *)
PromiseRecords == [state : States, handled : BOOLEAN, of : 0 .. Len(v8)]

LEMMA SettlementsPut ==
  ASSUME Shape, Settlements, Later, imports' \in Nat, imports <= imports',
         NEW p, NEW r, r \in PromiseRecords', promise' = Put(promise, p, r),
         p \in Own \cup ({"module"} \X DOMAIN v8') \cup ({"import"} \X (1 .. imports')),
         p \in Own => \E n \in 0 .. MaxRejects : OwnUsed \cup {p} = {"own"} \X (1 .. n),
         \A i \in DOMAIN v8 : Root(i) \in DOMAIN promise /\ Root(i) # p => v8'[i].status = v8[i].status,
         \A i \in DOMAIN v8' : p = Root(i) =>
           /\ r.of = i /\ ~r.handled /\ v8'[i].status \notin {"unlinked", "linked"}
           /\ v8'[i].status = "errored" <=> r.state = "rejected"
  PROVE  Settlements'
<1>1. /\ DOMAIN promise' = {p} \cup DOMAIN promise /\ promise'[p] = r
      /\ \A q \in DOMAIN promise : q # p => promise'[q] = promise[q]
  BY DEF Put
<1>2. 1 .. imports \subseteq 1 .. imports' BY DEF Shape
<1>3. DOMAIN promise' \subseteq
        Own \cup ({"module"} \X DOMAIN v8') \cup ({"import"} \X (1 .. imports'))
  BY <1>1, <1>2 DEF Settlements, Later
<1>4. \E n \in 0 .. MaxRejects : OwnUsed' = {"own"} \X (1 .. n)
  <2>1. CASE p \in Own
    <3>1. OwnUsed' = OwnUsed \cup {p} BY <1>1, <2>1 DEF OwnUsed
    <3> QED BY <2>1, <3>1
  <2>2. CASE p \notin Own
    <3>1. OwnUsed' = OwnUsed BY <1>1, <2>2 DEF OwnUsed
    <3> QED BY <3>1 DEF Settlements
  <2> QED BY <2>1, <2>2
<1>5. ASSUME NEW q \in DOMAIN promise' PROVE Recorded(q)'
  <2>1. 0 .. Len(v8) \subseteq 0 .. Len(v8') BY DEF Later
  <2>2. CASE q = p BY <1>1, <2>2 DEF PromiseRecords, Recorded
  <2>3. CASE q # p BY <1>1, <2>1, <2>3 DEF Settlements, Recorded
  <2> QED BY <2>2, <2>3
<1>6. ASSUME NEW i \in DOMAIN v8', Root(i) \in DOMAIN promise'
      PROVE  /\ promise'[Root(i)].of = i /\ ~promise'[Root(i)].handled
             /\ v8'[i].status \notin {"unlinked", "linked"}
             /\ v8'[i].status = "errored" <=> promise'[Root(i)].state = "rejected"
  <2>1. CASE p = Root(i) BY <1>1, <2>1
  <2>2. CASE p # Root(i)
    <3>1. Root(i) \in DOMAIN promise /\ promise'[Root(i)] = promise[Root(i)] BY <1>1, <1>6, <2>2
    <3>2. i \in DOMAIN v8 BY <3>1, RootOf
    <3>3. v8'[i].status = v8[i].status BY <3>1, <3>2, <2>2
    <3> QED BY <3>1, <3>2, <3>3 DEF Settlements
  <2> QED BY <2>1, <2>2
<1> QED BY <1>3, <1>4, <1>5, <1>6 DEF Settlements, Root

LEMMA AnswersPut ==
  ASSUME Shape, Settlements, Answers, Later, StaysSettled, files' = files,
         NEW p, NEW r, promise' = Put(promise, p, r),
         \A i \in DOMAIN v8 : p = Root(i) =>
           \A q \in DOMAIN promise :
             q[1] = "import" /\ promise[q].state = "rejected" /\ promise[q].of = i => v8'[i].status = "errored",
         p[1] = "import" /\ r.state = "rejected" /\ Root(r.of) \in DOMAIN promise =>
           v8'[r.of].status = "errored",
         p[1] = "import" /\ r.state = "fulfilled" =>
           /\ r.of \in DOMAIN v8'
           /\ \/ v8'[r.of].status \in {"evaluated", "awaiting"}
              \/ files[v8'[r.of].path].kind = "awaits",
         \A i : p = Root(i) => i \in DOMAIN v8
  PROVE  Answers'
<1>1. /\ DOMAIN promise' = {p} \cup DOMAIN promise /\ promise'[p] = r
      /\ \A q \in DOMAIN promise : q # p => promise'[q] = promise[q]
  BY DEF Put
<1>2. ASSUME NEW q \in DOMAIN promise', q[1] = "import", promise'[q].state = "rejected",
             Root(promise'[q].of) \in DOMAIN promise'
      PROVE  v8'[promise'[q].of].status = "errored"
  <2>1. CASE q = p
    <3>1. Root(r.of) # p BY <1>2, <2>1 DEF Root
    <3> QED BY <1>1, <1>2, <2>1, <3>1
  <2>2. CASE q # p
    <3> DEFINE i == promise[q].of
    <3>1. q \in DOMAIN promise /\ promise'[q] = promise[q] BY <1>1, <2>2
    <3>2. CASE Root(i) = p BY <1>2, <3>1, <3>2
    <3>3. CASE Root(i) # p
      <4>1. Root(i) \in DOMAIN promise BY <1>1, <1>2, <3>1, <3>3
      <4>2. v8[i].status = "errored" /\ i \in DOMAIN v8 BY <1>2, <3>1, <4>1, RootOf DEF Answers
      <4> QED BY <3>1, <4>2 DEF StaysSettled
    <3> QED BY <3>2, <3>3
  <2> QED BY <2>1, <2>2
<1>3. ASSUME NEW q \in DOMAIN promise', q[1] = "import", promise'[q].state = "fulfilled"
      PROVE  /\ promise'[q].of \in DOMAIN v8'
             /\ \/ v8'[promise'[q].of].status \in {"evaluated", "awaiting"}
                \/ files'[v8'[promise'[q].of].path].kind = "awaits"
  <2>1. CASE q = p BY <1>1, <1>3, <2>1
  <2>2. CASE q # p
    <3>1. q \in DOMAIN promise /\ promise'[q] = promise[q] BY <1>1, <2>2
    <3> QED BY <1>3, <3>1 DEF Answers, StaysSettled, Later
  <2> QED BY <2>1, <2>2
<1> QED BY <1>2, <1>3 DEF Answers, Root

LEMMA PendingPut ==
  ASSUME PendingExact, phase # "gone", NEW p, NEW r, promise' = Put(promise, p, r),
         NEW lost, p \notin lost,
         \A q \in DOMAIN promise : q # p => (Rethrown(q)' <=> Rethrown(q) \/ q \in lost),
         rejected_promises' = (IF r.state = "rejected" /\ ~r.handled /\ ~Rethrown(p)'
                               THEN rejected_promises \cup {p} ELSE rejected_promises \ {p}) \ lost
  PROVE  PendingExact'
<1>1. /\ DOMAIN promise' = {p} \cup DOMAIN promise /\ promise'[p] = r
      /\ \A q \in DOMAIN promise : q # p => promise'[q] = promise[q]
  BY DEF Put
<1> DEFINE now == {q \in DOMAIN promise' :
                     promise'[q].state = "rejected" /\ ~promise'[q].handled /\ ~Rethrown(q)'}
<1>2. ASSUME NEW q PROVE q \in rejected_promises' <=> q \in now
  <2>1. CASE q = p BY <1>1, <2>1
  <2>2. CASE q # p
    <3>1. q \in rejected_promises' <=> q \in rejected_promises /\ q \notin lost BY <2>2
    <3>2. q \in rejected_promises <=> /\ q \in DOMAIN promise
                                      /\ promise[q].state = "rejected" /\ ~promise[q].handled /\ ~Rethrown(q)
      BY DEF PendingExact
    <3>3. q \in now <=> /\ q \in DOMAIN promise'
                        /\ promise'[q].state = "rejected" /\ ~promise'[q].handled /\ ~Rethrown(q)'
      OBVIOUS
    <3>4. q \in DOMAIN promise => promise'[q] = promise[q] /\ (Rethrown(q)' <=> Rethrown(q) \/ q \in lost)
      BY <1>1, <2>2
    <3>5. q \in DOMAIN promise' <=> q \in DOMAIN promise BY <1>1, <2>2
    <3> QED BY <3>1, <3>2, <3>3, <3>4, <3>5
  <2> QED BY <2>1, <2>2
<1>3. rejected_promises' = now BY <1>2
<1> QED BY <1>3 DEF PendingExact

LEMMA PendingPutOne ==
  ASSUME PendingExact, phase # "gone", NEW p, NEW r, promise' = Put(promise, p, r),
         \A q \in DOMAIN promise : q # p => (Rethrown(q)' <=> Rethrown(q)),
         rejected_promises' = IF r.state = "rejected" /\ ~r.handled /\ ~Rethrown(p)'
                              THEN rejected_promises \cup {p} ELSE rejected_promises \ {p}
  PROVE  PendingExact'
<1> DEFINE lost == {}
<1>1. \A q \in DOMAIN promise : q # p => (Rethrown(q)' <=> Rethrown(q) \/ q \in lost) OBVIOUS
<1>2. rejected_promises' = (IF r.state = "rejected" /\ ~r.handled /\ ~Rethrown(p)'
                            THEN rejected_promises \cup {p} ELSE rejected_promises \ {p}) \ lost
  OBVIOUS
<1>3. p \notin lost OBVIOUS
<1> HIDE DEF lost
<1> QED BY <1>1, <1>2, <1>3, PendingPut

LEMMA RethrownPut ==
  ASSUME NEW p, NEW r, promise' = Put(promise, p, r), NEW q, q \in DOMAIN promise, q # p,
         \/ p[1] # "import"
         \/ p \notin DOMAIN promise /\ (r.state # "rejected" \/ (q[1] = "module" => promise[q].of # r.of))
         \/ p \in DOMAIN promise /\ r.state = promise[p].state /\ r.of = promise[p].of
  PROVE  Rethrown(q)' <=> Rethrown(q)
<1>1. /\ DOMAIN promise' = {p} \cup DOMAIN promise /\ promise'[p] = r
      /\ \A x \in DOMAIN promise : x # p => promise'[x] = promise[x]
  BY DEF Put
<1>2. promise'[q] = promise[q] BY <1>1
<1> QED BY <1>1, <1>2 DEF Rethrown

LEMMA OwnKey ==
  ASSUME Settlements, Cardinality(OwnUsed) < MaxRejects
  PROVE  \E n \in Nat :
           /\ OwnUsed = {"own"} \X (1 .. n) /\ n = Cardinality(OwnUsed) /\ n + 1 \in 1 .. MaxRejects
           /\ <<"own", n + 1>> \notin DOMAIN promise /\ <<"own", n + 1>> \in Own
<1>1. PICK n \in 0 .. MaxRejects : OwnUsed = {"own"} \X (1 .. n) BY DEF Settlements
<1>2. n \in Nat /\ IsFiniteSet(1 .. n) /\ Cardinality(1 .. n) = n
  BY FS_Interval, MaxRejectsAssumption
<1>3. IsFiniteSet({"own"}) /\ Cardinality({"own"}) = 1 BY FS_Singleton
<1>4. Cardinality({"own"} \X (1 .. n)) = 1 * n BY <1>2, <1>3, FS_Product
<1>5. n = Cardinality(OwnUsed) BY <1>1, <1>2, <1>4
<1>6. n + 1 \in 1 .. MaxRejects BY <1>2, <1>5, MaxRejectsAssumption
<1>7. <<"own", n + 1>> \in Own BY <1>6 DEF Own
<1>8. <<"own", n + 1>> \notin OwnUsed BY <1>1, <1>2
<1> QED BY <1>1, <1>2, <1>5, <1>6, <1>7, <1>8 DEF OwnUsed

-----------------------------------------------------------------------------
(* The steps that leave V8's modules and the promises alone. *)
LEMMA ShapeNext ==
  ASSUME Shape, files' = files, v8' \in Seq(Modules), stack' \in Seq(Frames), imports' \in Nat,
         phase' \in {"bootstrap", "script", "loop", "exit", "gone"}, Alive' => status' = "none"
  PROVE  Shape'
BY TypesKept DEF Shape

LEMMA Quiet ==
  ASSUME LInv, v8' = v8, files' = files, modules' = modules, resolve_cache' = resolve_cache,
         promise' = promise, rejected_promises' = rejected_promises,
         imports' \in Nat, imports <= imports', phase' # "gone" => phase # "gone"
  PROVE  /\ Tables' /\ Graph' /\ Settlements' /\ Answers' /\ PendingExact'
         /\ Later /\ SameStatus /\ SamePaths /\ RootsKept /\ StaysSettled
<1>1. Shape /\ Tables /\ Graph /\ Settlements /\ Answers /\ PendingExact /\ imports \in Nat
  BY DEF LInv, Shape
<1>2. Later /\ SameStatus /\ SamePaths /\ RootsKept /\ StaysSettled BY <1>1, SameV8
<1>3. Tables' BY <1>1, <1>2, TablesKept
<1>4. Graph' BY <1>1, <1>2, GraphKept
<1>5. Settlements' BY <1>1, <1>2, SettlementsKept
<1>6. Answers' BY <1>1, <1>2, AnswersKept
<1>7. PendingExact' BY <1>1, PendingKept
<1> QED BY <1>2, <1>3, <1>4, <1>5, <1>6, <1>7

LEMMA Unwound ==
  ASSUME files' = files, stack' = <<>>
  PROVE  Nesting' /\ Bodies' /\ Links'
<1>1. Nested(stack', DOMAIN v8', DOMAIN promise', imports') /\ Running(stack', v8', DOMAIN promise')
  BY NoCalls
<1>2. Links' BY DEF Links
<1> QED BY <1>1, <1>2, NextCalls

LEMMA Raised ==
  ASSUME LInv, NEW why, Raise(why), v8' \in Seq(Modules), files' = files, imports' = imports,
         why \in {"critical", "uncaught"} \/ (why = "promise" /\ Pending /\ promise' = promise),
         phase # "gone"
  PROVE  Shape' /\ Nesting' /\ Bodies' /\ Links' /\ Beginning' /\ EntryRuns' /\ ExitStatus' /\ Cleaned'
<1>1. Shape /\ PendingExact BY DEF LInv
<1>2. stack' = <<>> /\ phase' = "exit" /\ status' = why BY DEF Raise
<1>3. Shape'
  <2>1. stack' \in Seq(Frames) BY <1>2
  <2>2. imports' \in Nat BY <1>1 DEF Shape
  <2> QED BY <1>1, <1>2, <2>1, <2>2, ShapeNext DEF Alive
<1>4. Nesting' /\ Bodies' /\ Links' BY <1>2, Unwound
<1>5. Beginning' /\ EntryRuns' /\ Cleaned' BY <1>2 DEF Beginning, EntryRuns, Cleaned
<1>6. ExitStatus'
  <2>1. CASE why \in {"critical", "uncaught"} BY <1>2, <2>1 DEF ExitStatus
  <2>2. CASE why = "promise" /\ Pending /\ promise' = promise
    <3>1. PICK p \in DOMAIN promise : promise[p].state = "rejected" /\ ~promise[p].handled
      BY <1>1, <2>2 DEF PendingExact, Pending
    <3> QED BY <1>2, <2>2, <3>1 DEF ExitStatus
  <2> QED BY <2>1, <2>2
<1> QED BY <1>3, <1>4, <1>5, <1>6

LEMMA Alone ==
  ASSUME Shape, Nesting, stack # <<>>, Top.f \in {"exec", "callback"}
  PROVE  Len(stack) = 1 /\ Popped = <<>> /\ Top = stack[1] /\ 1 \in DOMAIN stack
<1>1. Len(stack) > 1 => stack[Len(stack)].f \in {"body", "import"} BY TopFacts DEF Nesting, Nested
<1>2. Len(stack) = 1 /\ Top = stack[1] /\ 1 \in DOMAIN stack BY <1>1, TopFacts
<1>3. Len(Popped) = 0 BY <1>2, TopFacts
<1>4. Popped \in Seq(Frames) BY TopFacts
<1> QED BY <1>2, <1>3, <1>4, EmptySeq

LEMMA ExecEndOK == ASSUME LInv, ExecEnd PROVE LInv'
<1>1. /\ Finished /\ Top.f = "exec" /\ v8' = v8 /\ files' = files /\ modules' = modules
      /\ resolve_cache' = resolve_cache /\ promise' = promise
      /\ rejected_promises' = rejected_promises /\ imports' = imports
  BY DEF ExecEnd, errorVars, loaded, counts
<1>2. /\ Shape /\ Nesting /\ Settlements /\ Beginning /\ EntryRuns /\ ExitStatus
      /\ stack # <<>> /\ Alive /\ Top.at = "eval" /\ Evaluated(Top.id)
  BY <1>1 DEF LInv, Finished, Busy
<1>3. Len(stack) = 1 /\ Top = stack[1] /\ 1 \in DOMAIN stack BY <1>1, <1>2, Alone
<1>4. v8' \in Seq(Modules) /\ imports' \in Nat /\ imports <= imports' BY <1>1, <1>2 DEF Shape
<1>5. CASE promise[<<"module", Top.id>>].state = "rejected"
  <2>1. Raise("uncaught") BY <1>5 DEF ExecEnd
  <2>2. phase' # "gone" /\ phase # "gone" BY <2>1, <1>2 DEF Raise, Alive
  <2>3. Shape' /\ Nesting' /\ Bodies' /\ Links' /\ Beginning' /\ EntryRuns' /\ ExitStatus' /\ Cleaned'
    BY <1>1, <1>4, <2>1, <2>2, Raised
  <2>4. Tables' /\ Graph' /\ Settlements' /\ Answers' /\ PendingExact' BY <1>1, <1>4, <2>2, Quiet
  <2> QED BY <2>3, <2>4 DEF LInv
<1>6. CASE promise[<<"module", Top.id>>].state # "rejected"
  <2>1. /\ stack' = <<>> /\ phase' = IF phase = "bootstrap" THEN "script" ELSE "loop"
        /\ status' = status
    BY <1>6 DEF ExecEnd
  <2>2. phase' \in {"script", "loop"} /\ phase # "gone" /\ phase' # "gone" BY <2>1, <1>2 DEF Alive
  <2>3. Tables' /\ Graph' /\ Settlements' /\ Answers' /\ PendingExact' BY <1>1, <1>4, <2>2, Quiet
  <2>4. Nesting' /\ Bodies' /\ Links' BY <1>1, <2>1, Unwound
  <2>5. status' = "none" BY <1>2, <2>1 DEF Shape
  <2>6. Shape'
    <3>1. stack' \in Seq(Frames) BY <2>1
    <3> QED BY <1>1, <1>2, <1>4, <2>2, <2>5, <3>1, ShapeNext
  <2>7. ExitStatus' /\ Cleaned' BY <2>2, <2>5, NoExit
  <2>8. Beginning'
    <3>1. phase' = "script" => phase = "bootstrap" BY <2>1
    <3>2. phase = "bootstrap" =>
            \E std \in SUBSET Paths : Standard(files, std) /\ \A i \in DOMAIN v8 : v8[i].path \in std
      BY <1>2 DEF Beginning
    <3>3. Paths' = Paths /\ \A std : Standard(files, std)' = Standard(files, std)
      BY <1>1 DEF Paths, Standard
    <3> QED BY <1>1, <2>1, <2>2, <3>1, <3>2, <3>3 DEF Beginning
  <2>9. EntryRuns'
    <3>1. \A k \in DOMAIN stack' : FALSE BY <2>1
    <3> SUFFICES ASSUME phase' = "loop"
                 PROVE  \E i \in DOMAIN v8 :
                          /\ v8[i].path = Entry /\ Root(i) \in DOMAIN promise
                          /\ v8[i].status \in {"evaluated", "awaiting", "errored"}
                          /\ v8[i].status = "errored" => Root(i) \in rejected_promises
      BY <1>1, <3>1 DEF EntryRuns, Root
    <3>2. phase = "script"
      <4>1. phase # "bootstrap" BY <2>1
      <4>2. phase = "loop" => stack[1].f = "callback" BY <1>2 DEF Beginning
      <4> QED BY <1>1, <1>2, <1>3, <4>1, <4>2 DEF Alive
    <3>3. v8[Top.id].path = Entry BY <1>2, <1>3, <3>2 DEF Beginning
    <3>4. Top.id \in DOMAIN v8 /\ Root(Top.id) \in DOMAIN promise
      BY <1>1, <1>2, <1>3 DEF Nesting, Nested, Loads
    <3>5. v8[Top.id].status # "errored" BY <1>2, <1>6, <3>4 DEF Settlements, Root
    <3> QED BY <1>2, <3>3, <3>4, <3>5 DEF Evaluated
  <2> QED BY <2>3, <2>4, <2>6, <2>7, <2>8, <2>9 DEF LInv
<1> QED BY <1>5, <1>6

LEMMA makeCallbackOK == ASSUME LInv, makeCallback PROVE LInv'
<1> DEFINE x == [f |-> "callback"]
<1>1. /\ phase = "loop" /\ stack' = <<x>> /\ v8' = v8 /\ files' = files /\ modules' = modules
      /\ resolve_cache' = resolve_cache /\ promise' = promise
      /\ rejected_promises' = rejected_promises /\ imports' = imports
      /\ phase' = phase /\ status' = status
  BY DEF makeCallback, errorVars, loaded
<1>2. Shape /\ Beginning /\ EntryRuns /\ stack = <<>> /\ Alive
  BY <1>1 DEF LInv, Alive, makeCallback, Busy
<1>3. v8' \in Seq(Modules) /\ imports' \in Nat /\ imports <= imports' BY <1>1, <1>2 DEF Shape
<1>4. x \in Frames /\ x.f = "callback" BY DEF Frames, CallbackFrames
<1> HIDE DEF x
<1>5. /\ stack' \in Seq(Frames) /\ Len(stack') = 1 /\ DOMAIN stack' = {1}
      /\ stack'[1] = x /\ stack' # <<>> /\ Last(stack') = x
  BY <1>1, <1>4 DEF Last
<1>6. Tables' /\ Graph' /\ Settlements' /\ Answers' /\ PendingExact' BY <1>1, <1>2, <1>3, Quiet
<1>7. status' = "none" BY <1>1, <1>2 DEF Shape
<1>8. Shape' BY <1>1, <1>2, <1>3, <1>5, <1>7, ShapeNext
<1>9. ExitStatus' /\ Cleaned' BY <1>1, <1>7, NoExit
<1>10. Nesting' /\ Bodies'
  <2>1. Nested(stack', DOMAIN v8', DOMAIN promise', imports') BY <1>4, <1>5 DEF Nested, Loads
  <2>2. Running(stack', v8', DOMAIN promise') BY <1>4, <1>5 DEF Running
  <2> QED BY <1>1, <2>1, <2>2, NextCalls
<1>11. Links' BY <1>4, <1>5 DEF Links, Top, Loads
<1>12. Beginning' BY <1>1, <1>4, <1>5 DEF Beginning
<1>13. EntryRuns' BY <1>1, <1>2, <1>4, <1>5 DEF EntryRuns, Root
<1> QED BY <1>6, <1>8, <1>9, <1>10, <1>11, <1>12, <1>13 DEF LInv

(* Nothing but the stack, and that is empty afterwards. *)
LEMMA Returned ==
  ASSUME LInv, v8' = v8, files' = files, modules' = modules, resolve_cache' = resolve_cache,
         promise' = promise, rejected_promises' = rejected_promises, imports' = imports,
         phase = "loop", phase' = "loop", stack' = <<>>, status' = status
  PROVE  LInv'
<1>1. Shape /\ EntryRuns /\ imports \in Nat BY DEF LInv, Shape
<1>2. v8' \in Seq(Modules) /\ stack' \in Seq(Frames) /\ status' = "none" BY <1>1 DEF Shape, Alive
<1>3. Shape' BY <1>1, <1>2, ShapeNext
<1>4. Tables' /\ Graph' /\ Settlements' /\ Answers' /\ PendingExact' BY <1>1, Quiet
<1>5. Nesting' /\ Bodies' /\ Links' BY Unwound
<1>6. ExitStatus' /\ Cleaned' BY <1>2, NoExit
<1>7. Beginning' BY DEF Beginning
<1>8. EntryRuns'
  <2>1. \A k \in DOMAIN stack' : FALSE OBVIOUS
  <2> QED BY <1>1, <2>1 DEF EntryRuns, Root
<1> QED BY <1>3, <1>4, <1>5, <1>6, <1>7, <1>8 DEF LInv

LEMMA RaisedQuiet ==
  ASSUME LInv, v8' = v8, files' = files, modules' = modules, resolve_cache' = resolve_cache,
         promise' = promise, rejected_promises' = rejected_promises, imports' = imports,
         phase # "gone", NEW why, Raise(why), why = "uncaught" \/ (why = "promise" /\ Pending)
  PROVE  LInv'
<1>1. v8' \in Seq(Modules) /\ imports' \in Nat /\ imports <= imports' BY DEF LInv, Shape
<1>2. Shape' /\ Nesting' /\ Bodies' /\ Links' /\ Beginning' /\ EntryRuns' /\ ExitStatus' /\ Cleaned'
  BY <1>1, Raised
<1>3. Tables' /\ Graph' /\ Settlements' /\ Answers' /\ PendingExact' BY <1>1, Quiet
<1> QED BY <1>2, <1>3 DEF LInv

LEMMA CallbackEndOK == ASSUME LInv, CallbackEnd PROVE LInv'
<1>1. /\ phase = "loop" /\ Busy /\ Top.f = "callback" /\ v8' = v8 /\ files' = files
      /\ modules' = modules /\ resolve_cache' = resolve_cache /\ promise' = promise
      /\ rejected_promises' = rejected_promises /\ imports' = imports
  BY DEF CallbackEnd, errorVars, loaded, counts
<1>2. CASE stack' = Popped /\ UNCHANGED <<phase, status>>
  <2>1. stack' = <<>> BY <1>1, <1>2, Alone DEF LInv, Busy
  <2> QED BY <1>1, <1>2, <2>1, Returned
<1>3. CASE Raise("uncaught") BY <1>1, <1>3, RaisedQuiet
<1> QED BY <1>2, <1>3 DEF CallbackEnd

LEMMA TurnOK == ASSUME LInv, Turn PROVE LInv'
<1>1. /\ phase = "loop" /\ ~Busy /\ v8' = v8 /\ files' = files
      /\ modules' = modules /\ resolve_cache' = resolve_cache /\ promise' = promise
      /\ rejected_promises' = rejected_promises /\ imports' = imports
  BY DEF Turn, errorVars, loaded, counts
<1>2. Shape /\ PendingExact /\ EntryRuns /\ stack = <<>>
  BY <1>1 DEF LInv, Busy, Alive
<1>3. CASE Pending
  <2>1. Raise("promise") BY <1>3 DEF Turn, checkPendingErrors
  <2> QED BY <1>1, <1>3, <2>1, RaisedQuiet
<1>4. CASE ~Pending /\ UNCHANGED <<phase, status, stack>> BY <1>1, <1>2, <1>4, Returned
<1>5. CASE ~Pending /\ phase' = "exit" /\ status' = "success" /\ stack' = stack
  <2>1. v8' \in Seq(Modules) /\ imports' \in Nat /\ imports <= imports' /\ stack' \in Seq(Frames)
    BY <1>1, <1>2, <1>5 DEF Shape
  <2>2. Shape' BY <1>1, <1>2, <1>5, <2>1, ShapeNext DEF Alive
  <2>3. Tables' /\ Graph' /\ Settlements' /\ Answers' /\ PendingExact' BY <1>1, <2>1, Quiet
  <2>4. Nesting' /\ Bodies' /\ Links' BY <1>1, <1>2, <1>5, Unwound
  <2>5. Beginning' /\ EntryRuns' /\ Cleaned'
    BY <1>2, <1>5 DEF Beginning, EntryRuns, Cleaned
  <2>6. ExitStatus'
    <3>1. \A p \in DOMAIN promise : promise[p].state = "rejected" => promise[p].handled \/ Rethrown(p)
      BY <1>1, <1>2, <1>5 DEF PendingExact, Pending
    <3>2. PICK i \in DOMAIN v8 : v8[i].path = Entry /\ v8[i].status \in {"evaluated", "awaiting"}
      BY <1>1, <1>2, <1>5 DEF EntryRuns, Pending
    <3> QED BY <1>1, <1>5, <3>1, <3>2 DEF ExitStatus, Rethrown
  <2> QED BY <2>2, <2>3, <2>4, <2>5, <2>6 DEF LInv
<1> QED BY <1>3, <1>4, <1>5 DEF Turn, checkPendingErrors

(* The calls stay as they are. *)
LEMMA SameCalls ==
  ASSUME LInv, stack' = stack, files' = files, v8' = v8, imports' \in Nat, imports <= imports',
         DOMAIN promise \subseteq DOMAIN promise',
         \A k \in DOMAIN stack : stack[k].f = "import" => stack[k].p \notin DOMAIN promise',
         \A i : Root(i) \in DOMAIN promise' => Root(i) \in DOMAIN promise
  PROVE  Nesting' /\ Bodies'
<1>1. Nesting /\ Bodies /\ imports \in Nat BY DEF LInv, Shape
<1>2. Nested(stack', DOMAIN v8', DOMAIN promise', imports')
  BY <1>1, NestedGrow DEF Nesting
<1>3. Running(stack', v8', DOMAIN promise') BY <1>1, RunningKept DEF Bodies
<1> QED BY <1>2, <1>3, NextCalls

LEMMA ExitCallOK == ASSUME LInv, ExitCall PROVE LInv'
<1>1. /\ InScript /\ phase' = "exit" /\ status' = "exit" /\ v8' = v8 /\ files' = files
      /\ modules' = modules /\ resolve_cache' = resolve_cache /\ promise' = promise
      /\ rejected_promises' = rejected_promises /\ imports' = imports /\ stack' = stack
      /\ Careful => \A k \in DOMAIN stack : stack[k].f # "exec"
  BY DEF ExitCall, errorVars, loaded, counts
<1>2. Shape /\ Nesting /\ Links /\ phase # "gone"
  BY <1>1 DEF LInv, InScript, Ready, AtBody, AtMicrotasks, Finished, Busy, Alive
<1>3. v8' \in Seq(Modules) /\ imports' \in Nat /\ imports <= imports' /\ stack' \in Seq(Frames)
  BY <1>1, <1>2 DEF Shape
<1>4. Shape' BY <1>1, <1>2, <1>3, ShapeNext DEF Alive
<1>5. Tables' /\ Graph' /\ Settlements' /\ Answers' /\ PendingExact' BY <1>1, <1>2, <1>3, Quiet
<1>6. Nesting' /\ Bodies'
  <2>1. \A k \in DOMAIN stack : stack[k].f = "import" => stack[k].p \notin DOMAIN promise'
    BY <1>1, <1>2 DEF Nesting, Nested
  <2> QED BY <1>1, <1>3, <2>1, SameCalls
<1>7. Links' BY <1>1, <1>2 DEF Links, Top, Loads, Root
<1>8. Beginning' /\ EntryRuns' /\ ExitStatus' /\ Cleaned'
  BY <1>1 DEF Beginning, EntryRuns, ExitStatus, Cleaned
<1> QED BY <1>4, <1>5, <1>6, <1>7, <1>8 DEF LInv

LEMMA DestroyOK == ASSUME LInv, Destroy PROVE LInv'
<1>1. /\ phase = "exit" /\ phase' = "gone" /\ rejected_promises' = {} /\ v8' = v8 /\ files' = files
      /\ promise' = promise /\ imports' = imports /\ stack' = stack /\ status' = status
      /\ resolve_cache' = Erased({modules[i] : i \in DOMAIN modules \ Owned})
  BY DEF Destroy, counts
<1>2. /\ Shape /\ Tables /\ Graph /\ Nesting /\ Bodies /\ Links /\ Settlements /\ Answers
      /\ Beginning /\ ExitStatus
  BY DEF LInv
<1>3. v8' \in Seq(Modules) /\ imports \in Nat /\ imports' \in Nat /\ imports <= imports'
      /\ stack' \in Seq(Frames)
  BY <1>1, <1>2 DEF Shape
<1>4. Shape' BY <1>1, <1>2, <1>3, ShapeNext DEF Alive
<1>5. Later /\ SameStatus /\ RootsKept /\ StaysSettled BY <1>1, <1>2, SameV8
<1>6. Graph' BY <1>1, <1>2, <1>5, GraphKept
<1>7. Settlements' BY <1>1, <1>2, <1>3, <1>5, SettlementsKept
<1>8. Answers' BY <1>1, <1>2, <1>5, AnswersKept
<1>9. Tables' /\ PendingExact' /\ EntryRuns' /\ Beginning'
  BY <1>1 DEF Tables, PendingExact, EntryRuns, Beginning
<1>10. Nesting' /\ Bodies'
  <2>1. \A k \in DOMAIN stack : stack[k].f = "import" => stack[k].p \notin DOMAIN promise'
    BY <1>1, <1>2 DEF Nesting, Nested
  <2> QED BY <1>1, <1>3, <2>1, SameCalls
<1>11. Links' BY <1>1, <1>2 DEF Links, Top, Loads, Root
<1>12. ExitStatus' BY <1>1, <1>2 DEF ExitStatus, Rethrown
<1>13. Cleaned'
  <2>0. modules' = <<>> BY DEF Destroy
  <2> SUFFICES ASSUME Careful PROVE resolve_cache' = <<>> /\ rejected_promises' = {}
    BY <1>1, <2>0 DEF Cleaned, CleanExit
  <2>1. Owned = {} BY <1>1, <1>2 DEF Owned, Beginning
  <2>2. ASSUME NEW u \in DOMAIN resolve_cache
        PROVE  u \in {pathURL(p) : p \in {modules[i] : i \in DOMAIN modules \ Owned}}
    <3>1. PICK i \in DOMAIN v8 : i = resolve_cache[u] /\ pathURL(v8[i].path) = u
      BY <1>1, <1>2 DEF Tables
    <3>2. i \in DOMAIN modules /\ modules[i] = v8[i].path BY <1>1, <1>2, <3>1 DEF Tables
    <3> QED BY <2>1, <3>1, <3>2
  <2>3. DOMAIN resolve_cache' = {} BY <1>1, <2>2 DEF Erased
  <2>4. resolve_cache' = [u \in {} |-> resolve_cache[u]] BY <1>1, <2>3 DEF Erased
  <2>5. <<>> = [u \in {} |-> resolve_cache[u]] OBVIOUS
  <2> QED BY <1>1, <2>4, <2>5
<1> QED BY <1>4, <1>6, <1>7, <1>8, <1>9, <1>10, <1>11, <1>12, <1>13 DEF LInv

-----------------------------------------------------------------------------
(* Steps of the program's scripts. *)
LEMMA ScriptFacts ==
  ASSUME InScript
  PROVE  /\ stack # <<>> /\ Alive /\ phase # "gone" /\ phase # "exit" /\ phase \in {"script", "loop"}
         /\ Top.f \in Loads => Top.at = "eval"
BY DEF InScript, Ready, AtBody, AtMicrotasks, Finished, Busy, Alive, Loads

LEMMA SameCallsNext ==
  ASSUME LInv, InScript, v8' = v8, stack' = stack, phase' = phase, status' = status, files' = files,
         imports' \in Nat, imports <= imports', DOMAIN promise \subseteq DOMAIN promise',
         \A k \in DOMAIN stack : stack[k].f = "import" => stack[k].p \notin DOMAIN promise',
         \A i : Root(i) \in DOMAIN promise' => Root(i) \in DOMAIN promise,
         \A i : Root(i) \in rejected_promises => Root(i) \in rejected_promises'
  PROVE  /\ Shape' /\ Graph' /\ Nesting' /\ Bodies' /\ Links' /\ Beginning' /\ EntryRuns'
         /\ ExitStatus' /\ Cleaned'
<1>1. Shape /\ Graph /\ Nesting /\ Beginning /\ EntryRuns BY DEF LInv
<1>2. /\ stack # <<>> /\ Alive /\ phase # "gone" /\ phase # "exit"
      /\ Top.f \in Loads => Top.at = "eval"
  BY ScriptFacts
<1>3. Later /\ SameStatus BY <1>1, SameV8
<1>4. v8' \in Seq(Modules) /\ stack' \in Seq(Frames) /\ status' = "none" BY <1>1, <1>2 DEF Shape
<1>5. Shape' BY <1>1, <1>2, <1>4, ShapeNext DEF Shape, Alive
<1>6. Graph' BY <1>1, <1>3, GraphKept
<1>7. Nesting' /\ Bodies' BY SameCalls
<1>8. Links' BY <1>2 DEF Links, Top, Loads
<1>9. Beginning' BY <1>1, <1>2, <1>3, BeginningKept
<1>10. ImportsKept BY DEF ImportsKept
<1>11. EntryRuns' BY <1>1, <1>3, <1>10, EntryRunsKept
<1>12. ExitStatus' /\ Cleaned' BY <1>2, <1>4, NoExit
<1> QED BY <1>5, <1>6, <1>7, <1>8, <1>9, <1>11, <1>12

LEMMA ImportKey ==
  ASSUME Shape, Settlements
  PROVE  <<"import", imports + 1>> \notin DOMAIN promise /\ imports + 1 \in Nat /\ imports <= imports + 1
BY DEF Shape, Settlements, Own

LEMMA RejectOwnOK ==
  ASSUME LInv, InScript, NEW handled \in BOOLEAN, RejectOwn(handled),
         UNCHANGED <<files, loaded, v8, stack, counts, phase, status>>
  PROVE  LInv'
<1> DEFINE r == [state |-> "rejected", handled |-> handled, of |-> 0]
<1>1. /\ v8' = v8 /\ stack' = stack /\ phase' = phase /\ status' = status /\ files' = files
      /\ modules' = modules /\ resolve_cache' = resolve_cache /\ imports' = imports
  BY DEF loaded, counts
<1>2. /\ Shape /\ Tables /\ Nesting /\ Settlements /\ Answers /\ PendingExact
      /\ imports \in Nat /\ imports' \in Nat /\ imports <= imports'
  BY <1>1 DEF LInv, Shape
<1>3. PICK n \in Nat : /\ OwnUsed = {"own"} \X (1 .. n) /\ n = Cardinality(OwnUsed) /\ n + 1 \in 1 .. MaxRejects
                       /\ <<"own", n + 1>> \notin DOMAIN promise /\ <<"own", n + 1>> \in Own
  <2>1. Cardinality(OwnUsed) < MaxRejects BY DEF RejectOwn
  <2> QED BY <1>2, <2>1, OwnKey
<1> DEFINE p == <<"own", n + 1>>
<1>4. /\ promise' = Put(promise, p, r)
      /\ rejected_promises' = IF handled THEN rejected_promises ELSE rejected_promises \cup {p}
  BY <1>3 DEF RejectOwn, Settled, RejectWithNoHandler
<1>5. p[1] = "own" /\ p \in Own /\ p \notin DOMAIN promise /\ (\A i : p # Root(i))
      /\ p \notin {"import"} \X (1 .. imports)
  BY <1>3 DEF Root
<1>6. \E m \in 0 .. MaxRejects : OwnUsed \cup {p} = {"own"} \X (1 .. m)
  <2>1. OwnUsed \cup {p} = {"own"} \X (1 .. n + 1) BY <1>3
  <2>2. n + 1 \in 0 .. MaxRejects BY <1>3, MaxRejectsAssumption
  <2> QED BY <2>1, <2>2
<1>7. Later /\ RootsKept /\ StaysSettled /\ SamePaths BY <1>1, <1>2, SameV8
<1>8. r \in PromiseRecords' /\ r.state = "rejected" /\ r.handled = handled
  BY <1>1, <1>7 DEF PromiseRecords, Later, States
<1> HIDE DEF p, r
<1>9. DOMAIN promise' = {p} \cup DOMAIN promise BY <1>4 DEF Put
<1>10. /\ Shape' /\ Graph' /\ Nesting' /\ Bodies' /\ Links' /\ Beginning' /\ EntryRuns'
       /\ ExitStatus' /\ Cleaned'
  <2>1. \A k \in DOMAIN stack : stack[k].f = "import" => stack[k].p \notin DOMAIN promise'
    BY <1>2, <1>5, <1>9 DEF Nesting, Nested
  <2> QED BY <1>1, <1>2, <1>4, <1>5, <1>9, <2>1, SameCallsNext
<1>11. Tables' BY <1>1, <1>2, <1>7, TablesKept
<1>12. Settlements' BY <1>1, <1>2, <1>4, <1>5, <1>6, <1>7, <1>8, SettlementsPut
<1>13. Answers' BY <1>1, <1>2, <1>4, <1>5, <1>7, AnswersPut
<1>14. PendingExact'
  <2>1. p \notin rejected_promises BY <1>2, <1>5, ScriptFacts DEF PendingExact
  <2>2. ~Rethrown(p)' BY <1>5 DEF Rethrown
  <2>3. \A q \in DOMAIN promise : q # p => (Rethrown(q)' <=> Rethrown(q))
    BY <1>4, <1>5, RethrownPut
  <2>4. rejected_promises' = IF r.state = "rejected" /\ ~r.handled /\ ~Rethrown(p)'
                              THEN rejected_promises \cup {p} ELSE rejected_promises \ {p}
    BY <1>4, <1>8, <2>1, <2>2
  <2> QED BY <1>2, <1>4, <2>3, <2>4, ScriptFacts, PendingPutOne
<1> QED BY <1>10, <1>11, <1>12, <1>13, <1>14 DEF LInv

LEMMA AddHandlerOK ==
  ASSUME LInv, InScript, NEW p \in DOMAIN promise, AddHandler(p),
         UNCHANGED <<files, loaded, v8, stack, counts, phase, status>>
  PROVE  LInv'
<1> DEFINE r == [promise[p] EXCEPT !.handled = TRUE]
<1>1. /\ v8' = v8 /\ stack' = stack /\ phase' = phase /\ status' = status /\ files' = files
      /\ modules' = modules /\ resolve_cache' = resolve_cache /\ imports' = imports
  BY DEF loaded, counts
<1>2. /\ Shape /\ Tables /\ Nesting /\ Settlements /\ Answers /\ PendingExact
      /\ imports \in Nat /\ imports' \in Nat /\ imports <= imports'
  BY <1>1 DEF LInv, Shape
<1>3. promise[p] \in [state : States, handled : BOOLEAN, of : 0 .. Len(v8)]
  BY <1>2 DEF Settlements, Recorded
<1>4. /\ r \in PromiseRecords' /\ r.handled /\ r.state = promise[p].state /\ r.of = promise[p].of
  BY <1>1, <1>3 DEF PromiseRecords
<1>5. promise' = Put(promise, p, r) BY DEF AddHandler, Put
<1>6. /\ p[1] # "module" /\ \A i : p # Root(i)
      /\ rejected_promises' = IF promise[p].state = "rejected" THEN rejected_promises \ {p} ELSE rejected_promises
  BY DEF AddHandler, HandlerAddedAfterReject, Root
<1> HIDE DEF r
<1>7. DOMAIN promise' = DOMAIN promise BY <1>5 DEF Put
<1>8. Later /\ RootsKept /\ StaysSettled /\ SamePaths BY <1>1, <1>2, SameV8
<1>9. /\ Shape' /\ Graph' /\ Nesting' /\ Bodies' /\ Links' /\ Beginning' /\ EntryRuns'
      /\ ExitStatus' /\ Cleaned'
  <2>1. \A k \in DOMAIN stack : stack[k].f = "import" => stack[k].p \notin DOMAIN promise'
    BY <1>2, <1>7 DEF Nesting, Nested
  <2> QED BY <1>1, <1>2, <1>6, <1>7, <2>1, SameCallsNext
<1>10. Tables' BY <1>1, <1>2, <1>8, TablesKept
<1>11. Settlements'
  <2>1. p \in Own \cup ({"module"} \X DOMAIN v8') \cup ({"import"} \X (1 .. imports'))
    BY <1>1, <1>2 DEF Settlements
  <2>2. p \in Own => \E n \in 0 .. MaxRejects : OwnUsed \cup {p} = {"own"} \X (1 .. n)
    <3> SUFFICES ASSUME p \in Own PROVE OwnUsed \cup {p} = OwnUsed BY <1>2 DEF Settlements
    <3> QED BY DEF OwnUsed
  <2> QED BY <1>1, <1>2, <1>4, <1>5, <1>6, <1>8, <2>1, <2>2, SettlementsPut
<1>12. Answers'
  <2>1. p[1] = "import" /\ r.state = "rejected" /\ Root(r.of) \in DOMAIN promise =>
           v8'[r.of].status = "errored"
    BY <1>1, <1>2, <1>4 DEF Answers
  <2>2. p[1] = "import" /\ r.state = "fulfilled" =>
           /\ r.of \in DOMAIN v8'
           /\ \/ v8'[r.of].status \in {"evaluated", "awaiting"}
              \/ files[v8'[r.of].path].kind = "awaits"
    BY <1>1, <1>2, <1>4 DEF Answers
  <2> QED BY <1>1, <1>2, <1>5, <1>6, <1>7, <1>8, <2>1, <2>2, AnswersPut
<1>13. PendingExact'
  <2>1. promise[p].state # "rejected" => p \notin rejected_promises
    BY <1>2, ScriptFacts DEF PendingExact
  <2>2. \A q \in DOMAIN promise : q # p => (Rethrown(q)' <=> Rethrown(q))
    BY <1>4, <1>5, RethrownPut
  <2>3. rejected_promises' = IF r.state = "rejected" /\ ~r.handled /\ ~Rethrown(p)'
                              THEN rejected_promises \cup {p} ELSE rejected_promises \ {p}
    BY <1>4, <1>6, <2>1
  <2> QED BY <1>2, <1>5, <2>2, <2>3, ScriptFacts, PendingPutOne
<1> QED BY <1>9, <1>10, <1>11, <1>12, <1>13 DEF LInv

LEMMA PromisesOK == ASSUME LInv, Promises PROVE LInv'
BY RejectOwnOK, AddHandlerOK DEF Promises

-----------------------------------------------------------------------------
(* import(). *)
LEMMA RefusedOK ==
  ASSUME LInv, InScript, Refused(<<"import", imports + 1>>), imports' = imports + 1,
         files' = files, phase' = phase, status' = status,
         \/ modules' = modules /\ resolve_cache' = resolve_cache
         \/ \E path \in Paths : ~CanInit(path) /\ Destroyed(path)
  PROVE  LInv'
<1> SUFFICES ASSUME NEW p, p = <<"import", imports + 1>> PROVE LInv' OBVIOUS
<1> DEFINE r == [state |-> "rejected", handled |-> FALSE, of |-> 0]
<1>1. /\ v8' = v8 /\ stack' = stack /\ promise' = Put(promise, p, r)
      /\ rejected_promises' = rejected_promises \cup {p}
  BY DEF Refused, Settled, RejectWithNoHandler
<1>2. /\ Shape /\ Tables /\ Nesting /\ Settlements /\ Answers /\ PendingExact
      /\ phase # "gone" /\ imports \in Nat /\ imports' \in Nat /\ imports <= imports'
  BY ScriptFacts DEF LInv, Shape
<1>3. p \notin DOMAIN promise /\ p[1] = "import" /\ p \notin Own /\ (\A i : p # Root(i))
      /\ p \in {"import"} \X (1 .. imports') /\ p \notin {"import"} \X (1 .. imports)
  BY <1>2, ImportKey DEF Own, Root
<1>4. Later /\ RootsKept /\ StaysSettled /\ SamePaths BY <1>1, <1>2, SameV8
<1>5. r \in PromiseRecords' /\ r.state = "rejected" /\ r.handled = FALSE /\ r.of = 0
  BY <1>1, <1>4 DEF PromiseRecords, Later, States
<1> HIDE DEF r
<1>6. DOMAIN promise' = {p} \cup DOMAIN promise BY <1>1 DEF Put
<1>7. /\ Shape' /\ Graph' /\ Nesting' /\ Bodies' /\ Links' /\ Beginning' /\ EntryRuns'
      /\ ExitStatus' /\ Cleaned'
  <2>1. \A k \in DOMAIN stack : stack[k].f = "import" => stack[k].p \notin DOMAIN promise'
    BY <1>2, <1>3, <1>6 DEF Nesting, Nested
  <2> QED BY <1>1, <1>2, <1>3, <1>6, <2>1, SameCallsNext
<1>8. Tables'
  <2>1. CASE modules' = modules /\ resolve_cache' = resolve_cache
    BY <2>1, <1>2, <1>4, TablesKept
  <2>2. CASE \E path \in Paths : ~CanInit(path) /\ Destroyed(path)
    BY <2>2, <1>2, <1>4, TablesDestroyed
  <2> QED BY <2>1, <2>2
<1>9. Settlements' BY <1>1, <1>2, <1>3, <1>4, <1>5, SettlementsPut
<1>10. Answers'
  <2>1. Root(r.of) \notin DOMAIN promise
    <3>1. 0 \notin DOMAIN v8 BY <1>2, V8Type
    <3> QED BY <1>2, <1>5, <3>1, RootOf
  <2> QED BY <1>1, <1>2, <1>3, <1>4, <1>5, <2>1, AnswersPut
<1>11. PendingExact'
  <2>1. ~Rethrown(p)' BY <1>3 DEF Rethrown
  <2>2. \A q \in DOMAIN promise : q[1] = "module" => promise[q].of # 0
    <3>1. 0 \notin DOMAIN v8 BY <1>2, V8Type
    <3>2. \A q \in DOMAIN promise : q[1] = "module" => \E i \in DOMAIN v8 : q = Root(i)
      BY <1>2 DEF Settlements, Own, Root
    <3> QED BY <1>2, <3>1, <3>2 DEF Settlements
  <2>3. \A q \in DOMAIN promise : q # p => (Rethrown(q)' <=> Rethrown(q))
    BY <1>1, <1>3, <1>5, <2>2, RethrownPut
  <2>4. rejected_promises' = IF r.state = "rejected" /\ ~r.handled /\ ~Rethrown(p)'
                              THEN rejected_promises \cup {p} ELSE rejected_promises \ {p}
    BY <1>1, <1>5, <2>1
  <2> QED BY <1>1, <1>2, <2>3, <2>4, PendingPutOne
<1> QED BY <1>7, <1>8, <1>9, <1>10, <1>11 DEF LInv

(* A module that is only compiled. *)
LEMMA Compiles ==
  ASSUME Shape, Settlements, NEW path \in Paths, v8' = Append(v8, Unlinked(path))
  PROVE  /\ v8' \in Seq(Modules) /\ NewModule(path) /\ Later /\ SameStatus /\ RootsKept /\ StaysSettled
         /\ NextId = Len(v8) + 1 /\ NextId \in DOMAIN v8' /\ NextId \notin DOMAIN v8 /\ NextId \in Nat
         /\ \A i \in DOMAIN v8 : v8'[i] = v8[i]
         /\ v8'[NextId] = Unlinked(path) /\ v8'[NextId].path = path
         /\ DOMAIN v8' = DOMAIN v8 \cup {NextId}
         /\ Root(NextId) \notin DOMAIN promise /\ \A q \in DOMAIN promise : promise[q].of # NextId
         /\ (v8' # <<>>)
<1>1. Unlinked(path) \in Modules BY DEF Unlinked, Modules, Statuses
<1>2. /\ v8' \in Seq(Modules) /\ Len(v8') = Len(v8) + 1 /\ Len(v8) \in Nat /\ v8' # <<>>
      /\ DOMAIN v8' = 1 .. Len(v8) + 1 /\ DOMAIN v8 = 1 .. Len(v8)
      /\ v8'[Len(v8) + 1] = Unlinked(path)
      /\ \A k \in 1 .. Len(v8) : v8'[k] = v8[k]
  <2>1. v8 \in Seq(Modules) BY DEF Shape
  <2> QED BY <1>1, <2>1, AppendProperties
<1>3. Unlinked(path).path = path /\ Unlinked(path).status = "unlinked" BY DEF Unlinked
<1>4. NewModule(path) BY <1>2, <1>3 DEF NewModule
<1>5. Later /\ SameStatus /\ RootsKept /\ StaysSettled
  BY <1>2 DEF Later, SameStatus, RootsKept, StaysSettled
<1>6. NextId = Len(v8) + 1 /\ NextId \in DOMAIN v8' /\ NextId \notin DOMAIN v8 /\ NextId \in Nat
  BY <1>2 DEF NextId
<1>7. Root(NextId) \notin DOMAIN promise BY <1>6, RootOf
<1>8. ASSUME NEW q \in DOMAIN promise PROVE promise[q].of # NextId
  <2>1. promise[q].of \in 0 .. Len(v8) BY DEF Settlements, Recorded
  <2> QED BY <1>2, <1>6, <2>1
<1> QED BY <1>2, <1>3, <1>4, <1>5, <1>6, <1>7, <1>8

Starting(x, f, id, path, p) ==
  /\ x \in Frames /\ x.f = f /\ x.id = id /\ x.at = "link" /\ x.p = p
  /\ x.seen = {id} /\ x.todo = {id} \X files[path].deps

LEMMA LoadFrameType ==
  ASSUME files \in FileSystems, NEW f \in Loads, NEW id \in Nat, NEW path \in Paths,
         NEW p \in ImportKeys \cup {<<>>}
  PROVE  Starting(LoadFrame(f, id, path, p), f, id, path, p)
<1> SUFFICES ASSUME NEW x, x = LoadFrame(f, id, path, p) PROVE Starting(x, f, id, path, p) OBVIOUS
<1>1. files[path].deps \subseteq Paths BY Disk
<1>2. {id} \X files[path].deps \in SUBSET (Nat \X Paths) BY <1>1
<1>3. x = [f |-> f, id |-> id, at |-> "link", todo |-> {id} \X files[path].deps, seen |-> {id}, p |-> p]
  BY DEF LoadFrame, Requests
<1>4. x \in LoadFrames BY <1>2, <1>3 DEF LoadFrames
<1> QED BY <1>3, <1>4 DEF Frames, Starting

LEMMA ImportStarts ==
  ASSUME LInv, InScript, imports' = imports + 1, NEW path \in Paths \ {Bootstrap},
         fromCache(path) = {}, CanInit(path), Compiled(path), v8' = Append(v8, Unlinked(path)),
         stack' = Append(stack, LoadFrame("import", NextId, path, <<"import", imports + 1>>)),
         promise' = promise, rejected_promises' = rejected_promises,
         files' = files, phase' = phase, status' = status
  PROVE  LInv'
<1> DEFINE x == LoadFrame("import", NextId, path, <<"import", imports + 1>>)
<1>1. /\ Shape /\ Tables /\ Graph /\ Nesting /\ Bodies /\ Settlements /\ Answers /\ PendingExact
      /\ Beginning /\ EntryRuns /\ imports \in Nat /\ imports' \in Nat /\ imports <= imports'
  BY DEF LInv, Shape
<1>2. /\ stack # <<>> /\ Alive /\ phase # "gone" /\ phase # "exit" /\ phase \in {"script", "loop"}
      /\ Top.f \in Loads => Top.at = "eval"
  BY ScriptFacts
<1>3. /\ v8' \in Seq(Modules) /\ NewModule(path) /\ Later /\ SameStatus /\ RootsKept /\ StaysSettled
      /\ NextId = Len(v8) + 1 /\ NextId \in DOMAIN v8' /\ NextId \notin DOMAIN v8 /\ NextId \in Nat
      /\ \A i \in DOMAIN v8 : v8'[i] = v8[i]
      /\ v8'[NextId] = Unlinked(path) /\ v8'[NextId].path = path
      /\ DOMAIN v8' = DOMAIN v8 \cup {NextId}
      /\ Root(NextId) \notin DOMAIN promise /\ \A q \in DOMAIN promise : promise[q].of # NextId
  BY <1>1, Compiles
<1>4. /\ x \in Frames /\ x.f = "import" /\ x.id = NextId /\ x.at = "link" /\ x.p = <<"import", imports + 1>>
      /\ x.seen = {NextId} /\ x.todo = {NextId} \X files[path].deps
  <2>1. <<"import", imports + 1>> \in ImportKeys BY <1>1 DEF ImportKeys
  <2>2. "import" \in Loads /\ files \in FileSystems BY <1>1 DEF Shape, Loads
  <2>3. path \in Paths /\ NextId \in Nat BY <1>3
  <2>4. PICK id, p : id = NextId /\ p = <<"import", imports + 1>> OBVIOUS
  <2>5. p \in ImportKeys \cup {<<>>} /\ id \in Nat BY <2>1, <2>3, <2>4
  <2>6. Starting(LoadFrame("import", id, path, p), "import", id, path, p)
    BY ONLY <2>2, <2>3, <2>5, LoadFrameType
  <2>7. Starting(x, "import", id, path, p) BY <2>4, <2>6
  <2> QED BY <2>4, <2>7 DEF Starting
<1>5. stack' = Append(stack, x) OBVIOUS
<1> HIDE DEF x
<1>6. /\ stack' \in Seq(Frames) /\ stack' # <<>> /\ Len(stack') = Len(stack) + 1 /\ Len(stack) \in Nat
      /\ DOMAIN stack' = 1 .. Len(stack) + 1 /\ DOMAIN stack = 1 .. Len(stack)
      /\ stack'[Len(stack) + 1] = x /\ Last(stack') = x
      /\ \A k \in 1 .. Len(stack) : stack'[k] = stack[k]
  <2>1. stack \in Seq(Frames) BY <1>1 DEF Shape
  <2>2. x \in Frames BY <1>4
  <2> QED BY ONLY <2>2, <1>5, <2>1, PushedCalls
<1>7. status' = "none" BY <1>1, <1>2 DEF Shape
<1>8. Shape' BY <1>1, <1>2, <1>3, <1>6, <1>7, ShapeNext DEF Alive
<1>9. Tables' BY <1>1, <1>2, <1>3, TablesCompiled
<1>10. Graph'
  <2>1. \A i \in DOMAIN v8' : i \notin DOMAIN v8 => v8'[i].requests = {} /\ v8'[i].status = "unlinked"
    BY <1>3 DEF Unlinked
  <2> QED BY <1>1, <1>3, <2>1, GraphKept
<1>11. Nesting' /\ Bodies'
  <2>1. Evaluating(stack) BY <1>1, <1>2, TopFacts DEF Evaluating, Nesting, Nested
  <2>2. Nested(stack, DOMAIN v8', DOMAIN promise', imports')
    <3>1. \A k \in DOMAIN stack : stack[k].f = "import" => stack[k].p \notin DOMAIN promise'
      BY <1>1 DEF Nesting, Nested
    <3> QED BY <1>1, <1>3, <3>1, NestedGrow DEF Nesting
  <2>3. Callable(stack, x, DOMAIN v8', DOMAIN promise', imports')
    <3>1. <<"import", imports + 1>> \in ({"import"} \X (1 .. imports')) \ DOMAIN promise'
      BY <1>1, ImportKey
    <3>2. ASSUME NEW k \in DOMAIN stack, stack[k].f = "import"
          PROVE  stack[k].p # <<"import", imports + 1>>
      <4>1. stack[k].p \in {"import"} \X (1 .. imports) BY <1>1, <3>2 DEF Nesting, Nested
      <4> QED BY <1>1, <4>1
    <3> QED BY <1>2, <1>3, <1>4, <3>1, <3>2 DEF Callable
  <2>4. Nested(stack', DOMAIN v8', DOMAIN promise', imports')
    BY <1>1, <1>4, <1>5, <2>1, <2>2, <2>3, NestedPush DEF Shape
  <2>5. Running(stack, v8', DOMAIN promise')
    <3>1. \A k \in DOMAIN stack : stack[k].f = "body" => v8'[stack[k].id] = v8[stack[k].id]
      BY <1>1, <1>3 DEF Nesting, Nested
    <3>2. DOMAIN promise' = DOMAIN promise OBVIOUS
    <3>3. Running(stack, v8, DOMAIN promise) BY <1>1 DEF Bodies
    <3>4. \A k \in DOMAIN stack : stack[k].f = "body" =>
            /\ v8'[stack[k].id].status = v8[stack[k].id].status
            /\ v8'[stack[k].id].path = v8[stack[k].id].path
            /\ Root(stack[k].id) \in DOMAIN promise' => Root(stack[k].id) \in DOMAIN promise
      BY <3>1, <3>2
    <3> QED BY ONLY <3>3, <3>4, RunningKept
  <2>6. Running(stack', v8', DOMAIN promise')
    BY <1>1, <1>2, <1>4, <1>5, <2>5, FirstCall, RunningPush DEF Shape
  <2> QED BY <2>4, <2>6, NextCalls
<1>12. Links'
  <2>1. Top' = x BY <1>6 DEF Top
  <2>2. v8'[NextId].status = "unlinked" BY <1>3 DEF Unlinked
  <2>3. \A y \in x.todo : y[1] \in x.seen /\ y[2] \in files'[v8'[y[1]].path].deps BY <1>3, <1>4
  <2>4. \A i \in x.seen : v8'[i].status = "unlinked" BY <1>4, <2>2
  <2>5. Root(x.id) \notin DOMAIN promise' /\ \A q \in DOMAIN promise' : promise'[q].of # x.id
    BY <1>3, <1>4
  <2>6. x.id \in x.seen /\ x.seen \subseteq DOMAIN v8' BY <1>3, <1>4
  <2> QED BY <2>1, <2>3, <2>4, <2>5, <2>6 DEF Links, Root
<1>13. Settlements' BY <1>1, <1>3, SettlementsKept
<1>14. Answers' BY <1>1, <1>3, AnswersKept
<1>15. PendingExact' BY <1>1, <1>2, PendingKept
<1>16. Beginning'
  <2>1. 1 \in 1 .. Len(stack) BY <1>1, <1>2, TopFacts
  <2> QED BY <1>1, <1>2, <1>3, <1>6, <2>1, BeginningKept
<1>17. EntryRuns'
  <2>1. path # Entry
    <3>1. PICK i \in DOMAIN v8 : v8[i].path = Entry
      <4>1. CASE phase = "script"
        <5>1. stack[1].f = "exec" /\ v8[stack[1].id].path = Entry BY <1>1, <1>2, <4>1 DEF Beginning
        <5>2. 1 \in DOMAIN stack BY <1>1, <1>2, TopFacts
        <5>3. stack[1].id \in DOMAIN v8 BY <1>1, <5>1, <5>2 DEF Nesting, Nested
        <5> QED BY <5>1, <5>3
      <4>2. CASE phase = "loop" BY <1>1, <4>2 DEF EntryRuns
      <4> QED BY <1>2, <4>1, <4>2
    <3> QED BY <1>1, <1>2, <3>1, CacheIs
  <2>2. ImportsKept
    <3> SUFFICES ASSUME NEW k \in DOMAIN stack', stack'[k].f = "import"
                 PROVE  \/ v8'[stack'[k].id].path # Entry
                        \/ \E j \in DOMAIN stack : stack[j].f = "import" /\ stack'[k].id = stack[j].id
      BY DEF ImportsKept
    <3>1. CASE k = Len(stack) + 1 BY <1>3, <1>4, <1>6, <2>1, <3>1
    <3>2. CASE k \in 1 .. Len(stack) BY <1>6, <3>2
    <3>3. k = Len(stack) + 1 \/ k \in 1 .. Len(stack) BY <1>6
    <3> QED BY <3>1, <3>2, <3>3
  <2> QED BY <1>1, <1>3, <2>2, EntryRunsKept
<1>18. ExitStatus' /\ Cleaned' BY <1>2, <1>7, NoExit
<1> QED BY <1>8, <1>9, <1>10, <1>11, <1>12, <1>13, <1>14, <1>15, <1>16, <1>17, <1>18 DEF LInv

LEMMA dynamicImportOK == ASSUME LInv, dynamicImport PROVE LInv'
<1>1. /\ InScript /\ imports' = imports + 1 /\ files' = files /\ phase' = phase /\ status' = status
  BY DEF dynamicImport
<1>2. PICK path \in Paths \ {Bootstrap}, parent \in Referrers :
        \/ /\ ParentFound(parent) /\ fromCache(path) = {} /\ CanInit(path)
           /\ Compiled(path) /\ v8' = Append(v8, Unlinked(path))
           /\ stack' = Append(stack, LoadFrame("import", NextId, path, <<"import", imports + 1>>))
           /\ UNCHANGED errorVars
        \/ /\ ParentFound(parent) /\ fromCache(path) = {} /\ ~CanInit(path)
           /\ Destroyed(path) /\ Refused(<<"import", imports + 1>>)
        \/ /\ ~ParentFound(parent) \/ fromCache(path) # {}
           /\ Refused(<<"import", imports + 1>>) /\ UNCHANGED loaded
  BY DEF dynamicImport
<1>3. CASE /\ fromCache(path) = {} /\ CanInit(path)
           /\ Compiled(path) /\ v8' = Append(v8, Unlinked(path))
           /\ stack' = Append(stack, LoadFrame("import", NextId, path, <<"import", imports + 1>>))
           /\ UNCHANGED errorVars
  <2>1. promise' = promise /\ rejected_promises' = rejected_promises BY <1>3 DEF errorVars
  <2> QED BY <1>1, <1>3, <2>1, ImportStarts
<1>4. CASE ~CanInit(path) /\ Destroyed(path) /\ Refused(<<"import", imports + 1>>)
  BY <1>1, <1>4, RefusedOK
<1>5. CASE Refused(<<"import", imports + 1>>) /\ UNCHANGED loaded
  <2>1. modules' = modules /\ resolve_cache' = resolve_cache BY <1>5 DEF loaded
  <2> QED BY <1>1, <1>5, <2>1, RefusedOK
<1> QED BY <1>2, <1>3, <1>4, <1>5

-----------------------------------------------------------------------------
(* The steps that end a call. *)
LEMMA Pops ==
  ASSUME Shape, Nesting, Bodies, stack # <<>>, stack' = Popped
  PROVE  /\ Nested(stack', DOMAIN v8, DOMAIN promise, imports) /\ Running(stack', v8, DOMAIN promise)
         /\ Evaluating(stack') /\ stack' \in Seq(Frames) /\ Links'
         /\ DOMAIN stack' = 1 .. Len(stack) - 1 /\ Len(stack) \in DOMAIN stack
         /\ \A k \in DOMAIN stack' : k \in DOMAIN stack /\ stack'[k] = stack[k] /\ k # Len(stack)
<1>1. stack \in Seq(Frames) BY DEF Shape
<1>2. /\ Popped \in Seq(Frames) /\ Len(Popped) = Len(stack) - 1
      /\ DOMAIN Popped = 1 .. Len(stack) - 1 /\ Len(stack) \in Nat \ {0}
      /\ DOMAIN stack = 1 .. Len(stack)
      /\ \A k \in 1 .. Len(stack) - 1 : Popped[k] = stack[k]
  BY TopFacts
<1>3. Nested(stack', DOMAIN v8, DOMAIN promise, imports) /\ Evaluating(stack')
  <2>1. Nested(stack, DOMAIN v8, DOMAIN promise, imports) BY DEF Nesting
  <2> QED BY ONLY <1>1, <2>1, stack' = Popped, stack # <<>>, NestedPop DEF Popped
<1>4. Running(stack', v8, DOMAIN promise)
  <2>1. Running(stack, v8, DOMAIN promise) /\ stack[1].f # "body" BY FirstCall DEF Bodies
  <2> QED BY ONLY <1>1, <2>1, stack' = Popped, stack # <<>>, RunningPop DEF Popped
<1>5. Links'
  <2> SUFFICES ASSUME stack' # <<>>, Top'.f \in Loads PROVE Top'.at # "link" BY DEF Links, Loads
  <2>1. Len(stack') \in DOMAIN stack' /\ Top' = stack'[Len(stack')]
    BY <1>2, EmptySeq DEF Top, Last
  <2> QED BY <1>3, <2>1 DEF Evaluating
<1> QED BY <1>2, <1>3, <1>4, <1>5

LEMMA ImportEndOK == ASSUME LInv, ImportEnd PROVE LInv'
<1>1. /\ Finished /\ Top.f = "import" /\ stack' = Popped /\ v8' = v8 /\ files' = files
      /\ modules' = modules /\ resolve_cache' = resolve_cache /\ imports' = imports
      /\ phase' = phase /\ status' = status
  BY DEF ImportEnd, loaded, counts
<1>2. /\ Shape /\ Tables /\ Graph /\ Nesting /\ Bodies /\ Settlements /\ Answers /\ PendingExact
      /\ Beginning /\ EntryRuns /\ imports \in Nat /\ imports' \in Nat /\ imports <= imports'
      /\ stack # <<>> /\ Alive /\ phase # "gone" /\ phase # "exit" /\ Top.at = "eval" /\ Evaluated(Top.id)
  BY <1>1 DEF LInv, Shape, Finished, Busy, Alive
<1> SUFFICES ASSUME NEW id, id = Top.id, NEW p, p = Top.p PROVE LInv' OBVIOUS
<1> DEFINE m == Root(id)
<1> DEFINE r == [state |-> IF promise[m].state = "rejected" THEN "rejected" ELSE "fulfilled",
                 handled |-> FALSE, of |-> id]
<1>3. /\ promise' = Put(promise, p, r)
      /\ rejected_promises' = IF promise[m].state = "rejected" THEN (rejected_promises \ {m}) \cup {p}
                              ELSE rejected_promises
  BY <1>1 DEF ImportEnd, Settled, removePendingReject, Root
<1>4. /\ Top = stack[Len(stack)] /\ Len(stack) \in DOMAIN stack /\ Len(stack) \in Nat \ {0}
      /\ DOMAIN stack = 1 .. Len(stack)
  BY <1>2, TopFacts
<1>5. /\ id \in DOMAIN v8 /\ m \in DOMAIN promise /\ p \in ({"import"} \X (1 .. imports)) \ DOMAIN promise
      /\ \A k \in DOMAIN stack : k # Len(stack) /\ stack[k].f = "import" => stack[k].p # p
      /\ Len(stack) # 1
  BY <1>1, <1>2, <1>4 DEF Nesting, Nested, Loads
<1>6. /\ promise[m].of = id /\ (v8[id].status = "errored" <=> promise[m].state = "rejected")
      /\ v8[id].status \in {"evaluated", "errored", "awaiting"}
  BY <1>2, <1>5 DEF Settlements, Root, Evaluated
<1>7. Later /\ SameStatus /\ RootsKept /\ StaysSettled /\ SamePaths BY <1>1, <1>2, SameV8
<1>8. r \in PromiseRecords' /\ r.handled = FALSE /\ r.of = id
  <2>1. id \in 0 .. Len(v8) BY <1>2, <1>5, V8Type
  <2> QED BY <1>1, <2>1 DEF PromiseRecords, States
<1>9. IF promise[m].state = "rejected" THEN r.state = "rejected" ELSE r.state = "fulfilled" OBVIOUS
<1>10. p[1] = "import" /\ p \notin Own /\ (\A i : p # Root(i)) /\ p # m
       /\ p \in {"import"} \X (1 .. imports')
  BY <1>1, <1>5 DEF Own, Root
<1> HIDE DEF r
<1>11. DOMAIN promise' = {p} \cup DOMAIN promise BY <1>3 DEF Put
<1>12. /\ Nested(stack', DOMAIN v8, DOMAIN promise, imports) /\ Running(stack', v8, DOMAIN promise)
       /\ Evaluating(stack') /\ stack' \in Seq(Frames) /\ Links'
       /\ DOMAIN stack' = 1 .. Len(stack) - 1
       /\ \A k \in DOMAIN stack' : k \in DOMAIN stack /\ stack'[k] = stack[k] /\ k # Len(stack)
  BY <1>1, <1>2, Pops
<1>13. status' = "none" BY <1>1, <1>2 DEF Shape
<1>14. Shape'
  <2>1. v8' \in Seq(Modules) BY <1>1, <1>2 DEF Shape
  <2>2. phase' \in {"bootstrap", "script", "loop", "exit", "gone"} BY <1>1, <1>2 DEF Shape
  <2> QED BY <1>1, <1>2, <1>12, <1>13, <2>1, <2>2, ShapeNext
<1>15. Tables' BY <1>1, <1>2, <1>7, TablesKept
<1>16. Graph' BY <1>1, <1>2, <1>7, <1>11, GraphKept DEF SameStatus
<1>17. Nesting' /\ Bodies'
  <2>1. \A k \in DOMAIN stack' : stack'[k].f = "import" => stack'[k].p \notin DOMAIN promise'
    BY <1>5, <1>11, <1>12 DEF Nested
  <2>2. Nested(stack', DOMAIN v8', DOMAIN promise', imports')
    BY <1>1, <1>2, <1>11, <1>12, <2>1, NestedGrow
  <2>3. Running(stack', v8', DOMAIN promise')
    BY <1>1, <1>10, <1>11, <1>12, RunningKept
  <2> QED BY <1>1, <2>2, <2>3, NextCalls
<1>18. Settlements' BY <1>1, <1>2, <1>3, <1>7, <1>8, <1>10, SettlementsPut
<1>19. Answers'
  <2>1. r.state = "rejected" => v8'[r.of].status = "errored" BY <1>1, <1>6, <1>8, <1>9
  <2>2. r.state = "fulfilled" => r.of \in DOMAIN v8' /\ v8'[r.of].status \in {"evaluated", "awaiting"}
    BY <1>1, <1>5, <1>6, <1>8, <1>9
  <2> QED BY <1>1, <1>2, <1>3, <1>7, <1>10, <2>1, <2>2, AnswersPut
<1>20. PendingExact'
  <2>1. \A q \in DOMAIN promise : q[1] = "module" /\ q # m => promise[q].of # id
    <3>1. \A q \in DOMAIN promise : q[1] = "module" => \E i \in DOMAIN v8 : q = Root(i)
      BY <1>2 DEF Settlements, Own, Root
    <3> QED BY <1>2, <3>1 DEF Settlements
  <2>2. ~Rethrown(p)' BY <1>10 DEF Rethrown
  <2>3. p \notin rejected_promises BY <1>2, <1>5 DEF PendingExact
  <2>4. CASE promise[m].state = "rejected"
    <3>1. \A q \in DOMAIN promise : q # p => (Rethrown(q)' <=> Rethrown(q) \/ q \in {m})
      <4>1. ASSUME NEW q \in DOMAIN promise, q # p, q # m PROVE Rethrown(q)' <=> Rethrown(q)
        BY <1>3, <1>5, <1>8, <2>1, <4>1, RethrownPut
      <4>2. Rethrown(m)'
        <5>1. promise'[m] = promise[m] /\ promise'[p] = r BY <1>3, <1>5, <1>10 DEF Put
        <5>2. p \in DOMAIN promise' BY <1>11
        <5> QED BY <1>6, <1>8, <1>9, <1>10, <2>4, <5>1, <5>2 DEF Rethrown, Root
      <4> QED BY <4>1, <4>2
    <3>2. rejected_promises' = (IF r.state = "rejected" /\ ~r.handled /\ ~Rethrown(p)'
                                THEN rejected_promises \cup {p} ELSE rejected_promises \ {p}) \ {m}
      BY <1>3, <1>8, <1>9, <1>10, <2>2, <2>4
    <3> HIDE DEF m
    <3> QED BY <1>2, <1>3, <1>10, <3>1, <3>2, PendingPut
  <2>5. CASE promise[m].state # "rejected"
    <3>1. \A q \in DOMAIN promise : q # p => (Rethrown(q)' <=> Rethrown(q))
      BY <1>3, <1>5, <1>9, <2>5, RethrownPut
    <3>2. rejected_promises' = IF r.state = "rejected" /\ ~r.handled /\ ~Rethrown(p)'
                                THEN rejected_promises \cup {p} ELSE rejected_promises \ {p}
      BY <1>3, <1>9, <2>3, <2>5
    <3> QED BY <1>2, <1>3, <3>1, <3>2, PendingPutOne
  <2> QED BY <2>4, <2>5
<1>21. Beginning'
  <2>1. 1 \in DOMAIN stack' /\ stack'[1] = stack[1] BY <1>4, <1>5, <1>12
  <2>2. stack' # <<>> BY <2>1
  <2> QED BY <1>1, <1>2, <1>7, <2>1, <2>2, BeginningKept
<1>22. EntryRuns'
  <2>1. ImportsKept BY <1>12 DEF ImportsKept
  <2>2. ASSUME NEW i \in DOMAIN v8, v8[i].path = Entry, phase = "loop", Root(i) \in rejected_promises
        PROVE  Root(i) \in rejected_promises'
    <3>1. i # id BY <1>1, <1>2, <1>4, <2>2 DEF EntryRuns
    <3> QED BY <1>3, <2>2, <3>1 DEF Root
  <2> QED BY <1>1, <1>2, <1>7, <1>11, <2>1, <2>2, EntryRunsKept
<1>23. ExitStatus' /\ Cleaned' BY <1>1, <1>2, <1>13, NoExit
<1> QED BY <1>12, <1>14, <1>15, <1>16, <1>17, <1>18, <1>19, <1>20, <1>21, <1>22, <1>23 DEF LInv

-----------------------------------------------------------------------------
(* The steps that change the status of a module. *)
LEMMA StatusSet ==
  ASSUME Shape, NEW id \in DOMAIN v8, NEW s \in Statuses, v8' = [v8 EXCEPT ![id].status = s]
  PROVE  /\ v8' \in Seq(Modules) /\ DOMAIN v8' = DOMAIN v8 /\ SamePaths /\ Later
         /\ v8'[id].status = s /\ \A i \in DOMAIN v8 : i # id => v8'[i] = v8[i]
         /\ \A i \in DOMAIN v8 : v8'[i].requests = v8[i].requests /\ v8'[i].path = v8[i].path
<1> DEFINE e == [v8[id] EXCEPT !.status = s]
<1>0. v8 \in Seq(Modules) /\ v8[id] \in Modules BY V8Type DEF Shape
<1>1. e \in Modules /\ e.status = s /\ e.path = v8[id].path /\ e.requests = v8[id].requests
  BY <1>0 DEF Modules
<1>2. v8' = [v8 EXCEPT ![id] = e] OBVIOUS
<1> HIDE DEF e
<1>3. /\ v8' \in Seq(Modules) /\ Len(v8') = Len(v8) /\ DOMAIN v8' = DOMAIN v8
      /\ v8'[id] = e /\ \A i \in DOMAIN v8 : i # id => v8'[i] = v8[i]
  <2>1. id \in 1 .. Len(v8) /\ Len(v8) \in Nat /\ DOMAIN v8 = 1 .. Len(v8) BY V8Type
  <2> QED BY ONLY <1>0, <1>1, <1>2, <2>1, ExceptSeq
<1>4. \A i \in DOMAIN v8 : v8'[i].requests = v8[i].requests /\ v8'[i].path = v8[i].path
  BY <1>1, <1>3
<1>5. SamePaths /\ Later BY <1>3, <1>4, V8Type DEF SamePaths, Later
<1> QED BY <1>1, <1>3, <1>4, <1>5

Ends == {"evaluated", "errored", "awaiting"}

LEMMA RootSettles ==
  ASSUME Shape, Graph, Settlements, Answers, PendingExact, phase # "gone",
         NEW id \in DOMAIN v8, Root(id) \in DOMAIN promise,
         v8[id].status \in {"evaluating", "awaiting"}, NEW end \in Ends,
         end = "awaiting" => files[v8[id].path].kind = "awaits",
         v8' = [v8 EXCEPT ![id].status = end], SettleRoot(id, end),
         files' = files, imports' = imports
  PROVE  /\ Graph' /\ Settlements' /\ Answers' /\ PendingExact'
         /\ DOMAIN promise' = DOMAIN promise
         /\ \A i : Root(i) \in rejected_promises => Root(i) \in rejected_promises'
         /\ end = "errored" => Root(id) \in rejected_promises'
<1> DEFINE p == Root(id)
<1> DEFINE r == [state |-> StateOf[end], handled |-> FALSE, of |-> id]
<1>1. /\ promise' = Put(promise, p, r)
      /\ rejected_promises' = IF end = "errored" THEN rejected_promises \cup {p} ELSE rejected_promises
  BY DEF SettleRoot, Settled, RejectWithNoHandler, Root
<1>2. /\ DOMAIN v8' = DOMAIN v8 /\ Later /\ v8'[id].status = end
      /\ \A i \in DOMAIN v8 : i # id => v8'[i] = v8[i]
      /\ \A i \in DOMAIN v8 : v8'[i].requests = v8[i].requests
  BY StatusSet DEF Ends, Statuses
<1>3. (end = "errored" <=> StateOf[end] = "rejected") /\ StateOf[end] \in States
  <2>1. CASE end = "evaluated" BY <2>1 DEF StateOf, States
  <2>2. CASE end = "errored" BY <2>2 DEF StateOf, States
  <2>3. CASE end = "awaiting" BY <2>3 DEF StateOf, States
  <2> QED BY <2>1, <2>2, <2>3 DEF Ends
<1>4. r \in PromiseRecords' /\ r.state = StateOf[end] /\ r.handled = FALSE /\ r.of = id
  <2>1. id \in 0 .. Len(v8') BY <1>2, V8Type DEF Later
  <2> QED BY <1>3, <2>1 DEF PromiseRecords
<1>5. p[1] = "module" /\ p \notin Own /\ p \in {"module"} \X DOMAIN v8' /\ (\A i : p = Root(i) => i = id)
  BY <1>2 DEF Own, Root
<1>6. \A q \in DOMAIN promise : q[1] = "import" /\ promise[q].state = "rejected" => promise[q].of # id
  BY DEF Answers
<1>7. promise[p].state # "rejected" BY DEF Settlements
<1>8. StaysSettled
  <2>1. v8[id].status = "awaiting" => files[v8[id].path].kind = "awaits" BY DEF Graph
  <2> QED BY <1>2, <2>1 DEF StaysSettled
<1> HIDE DEF p, r
<1>9. DOMAIN promise' = DOMAIN promise BY <1>1 DEF Put, p
<1>10. Graph'
  <2>1. \A i \in DOMAIN v8 : v8'[i].status = "awaiting" => v8[i].status = "awaiting"
           \/ (files[v8[i].path].kind = "awaits" /\ Root(i) \in DOMAIN promise')
    BY <1>2, <1>9
  <2> QED BY <1>2, <1>9, <2>1, GraphKept
<1>11. Settlements'
  <2>1. imports \in Nat BY DEF Shape
  <2>2. \A i \in DOMAIN v8 : Root(i) \in DOMAIN promise /\ Root(i) # p => v8'[i].status = v8[i].status
    BY <1>2 DEF p
  <2>3. \A i \in DOMAIN v8' : p = Root(i) =>
          /\ r.of = i /\ ~r.handled /\ v8'[i].status \notin {"unlinked", "linked"}
          /\ v8'[i].status = "errored" <=> r.state = "rejected"
    BY <1>2, <1>3, <1>4, <1>5 DEF Ends
  <2> QED BY <1>1, <1>2, <1>4, <1>5, <2>1, <2>2, <2>3, SettlementsPut
<1>12. Answers' BY <1>1, <1>2, <1>5, <1>6, <1>8, AnswersPut
<1>13. PendingExact'
  <2>1. ~Rethrown(p)'
    <3>1. promise'[p] = r /\ \A q \in DOMAIN promise : q # p => promise'[q] = promise[q]
      BY <1>1 DEF Put
    <3> QED BY <1>4, <1>5, <1>6, <1>9, <3>1 DEF Rethrown
  <2>2. \A q \in DOMAIN promise : q # p => (Rethrown(q)' <=> Rethrown(q)) BY <1>1, <1>5, RethrownPut
  <2>3. p \notin rejected_promises BY <1>7 DEF PendingExact
  <2>4. rejected_promises' = IF r.state = "rejected" /\ ~r.handled /\ ~Rethrown(p)'
                              THEN rejected_promises \cup {p} ELSE rejected_promises \ {p}
    BY <1>1, <1>3, <1>4, <2>1, <2>3
  <2> QED BY <1>1, <2>2, <2>4, PendingPutOne
<1>14. /\ \A i : Root(i) \in rejected_promises => Root(i) \in rejected_promises'
       /\ end = "errored" => Root(id) \in rejected_promises'
  BY <1>1 DEF p
<1> QED BY <1>9, <1>10, <1>11, <1>12, <1>13, <1>14

LEMMA AwaitEndOK == ASSUME LInv, AwaitEnd PROVE LInv'
<1>1. /\ AtMicrotasks /\ stack' = stack /\ files' = files /\ modules' = modules
      /\ resolve_cache' = resolve_cache /\ imports' = imports /\ phase' = phase /\ status' = status
  BY DEF AwaitEnd, loaded, counts
<1>2. PICK id \in DOMAIN v8, end \in {"evaluated", "errored"} :
        v8[id].status = "awaiting" /\ v8' = [v8 EXCEPT ![id].status = end] /\ SettleRoot(id, end)
  BY DEF AwaitEnd
<1>3. /\ Shape /\ Tables /\ Graph /\ Nesting /\ Bodies /\ Settlements /\ Answers /\ PendingExact
      /\ Beginning /\ EntryRuns /\ imports \in Nat
      /\ stack # <<>> /\ Alive /\ phase # "gone" /\ phase # "exit"
      /\ Top.f \in Loads => Top.at = "eval"
  BY <1>1 DEF LInv, Shape, AtMicrotasks, Finished, Busy, Alive, Loads
<1>4. end \in Ends /\ end \in Statuses BY DEF Ends, Statuses
<1>5. /\ v8' \in Seq(Modules) /\ DOMAIN v8' = DOMAIN v8 /\ SamePaths /\ Later
      /\ v8'[id].status = end /\ \A i \in DOMAIN v8 : i # id => v8'[i] = v8[i]
      /\ \A i \in DOMAIN v8 : v8'[i].requests = v8[i].requests /\ v8'[i].path = v8[i].path
  BY <1>2, <1>3, <1>4, StatusSet
<1>6. Root(id) \in DOMAIN promise BY <1>2, <1>3 DEF Graph
<1>7. /\ Graph' /\ Settlements' /\ Answers' /\ PendingExact'
      /\ DOMAIN promise' = DOMAIN promise
      /\ \A i : Root(i) \in rejected_promises => Root(i) \in rejected_promises'
      /\ end = "errored" => Root(id) \in rejected_promises'
  BY <1>1, <1>2, <1>3, <1>4, <1>6, RootSettles
<1>8. status' = "none" BY <1>1, <1>3 DEF Shape
<1>9. Shape'
  <2>1. stack' \in Seq(Frames) /\ phase' \in {"bootstrap", "script", "loop", "exit", "gone"}
    BY <1>1, <1>3 DEF Shape
  <2> QED BY <1>1, <1>3, <1>5, <1>8, <2>1, ShapeNext
<1>10. Tables' BY <1>1, <1>3, <1>5, TablesKept
<1>11. Nesting' /\ Bodies'
  <2>1. Nested(stack', DOMAIN v8', DOMAIN promise', imports') BY <1>1, <1>3, <1>5, <1>7 DEF Nesting
  <2>2. \A k \in DOMAIN stack : stack[k].f = "body" => v8'[stack[k].id] = v8[stack[k].id]
    BY <1>2, <1>3, <1>5 DEF Bodies, Running, Nesting, Nested
  <2>3. Running(stack', v8', DOMAIN promise') BY <1>1, <1>3, <1>7, <2>2, RunningKept DEF Bodies
  <2> QED BY <1>1, <2>1, <2>3, NextCalls
<1>12. Links' BY <1>1, <1>3 DEF Links, Top, Loads
<1>13. Beginning' BY <1>1, <1>3, <1>5, BeginningKept
<1>14. EntryRuns'
  <2>1. ImportsKept BY <1>1 DEF ImportsKept
  <2> QED BY <1>1, <1>2, <1>3, <1>5, <1>7, <2>1, EntryRunsKept
<1>15. ExitStatus' /\ Cleaned' BY <1>1, <1>3, <1>8, NoExit
<1> QED BY <1>7, <1>9, <1>10, <1>11, <1>12, <1>13, <1>14, <1>15 DEF LInv

LEMMA BodyFacts ==
  ASSUME Shape, Nesting, Bodies, AtBody
  PROVE  /\ stack # <<>> /\ Alive /\ phase # "gone" /\ phase # "exit" /\ Top.f = "body"
         /\ Top = stack[Len(stack)] /\ Len(stack) \in DOMAIN stack /\ Len(stack) - 1 \in DOMAIN stack
         /\ Top.id \in DOMAIN v8 /\ v8[Top.id].status = "evaluating"
         /\ Last(Popped) = stack[Len(stack) - 1]
         /\ files[v8[Top.id].path].kind = "awaits" \/ Root(Top.id) \in DOMAIN promise => Last(Popped).f \in Loads
         /\ Last(Popped).f \in Loads => Root(Top.id) \in DOMAIN promise
<1>1. stack # <<>> /\ Alive /\ phase # "gone" /\ phase # "exit" /\ Top.f = "body"
  BY DEF AtBody, Busy, Alive
<1>2. /\ Top = stack[Len(stack)] /\ Len(stack) \in DOMAIN stack /\ Len(stack) \in Nat \ {0}
      /\ DOMAIN stack = 1 .. Len(stack) /\ Len(Popped) = Len(stack) - 1
      /\ \A k \in 1 .. Len(stack) - 1 : Popped[k] = stack[k]
  BY <1>1, TopFacts
<1>3. Len(stack) # 1 BY <1>1, <1>2, FirstCall
<1>4. Len(stack) - 1 \in DOMAIN stack /\ Last(Popped) = stack[Len(stack) - 1]
  BY <1>2, <1>3 DEF Last
<1>5. Top.id \in DOMAIN v8 BY <1>1, <1>2 DEF Nesting, Nested
<1>6. /\ v8[Top.id].status = "evaluating"
      /\ files[v8[Top.id].path].kind = "awaits" \/ Root(Top.id) \in DOMAIN promise => Last(Popped).f \in Loads
  BY <1>1, <1>2, <1>4 DEF Bodies, Running
<1>7. Last(Popped).f \in Loads => Root(Top.id) \in DOMAIN promise
  <2> SUFFICES ASSUME Last(Popped).f \in Loads PROVE Root(Top.id) \in DOMAIN promise OBVIOUS
  <2> DEFINE k == Len(stack) - 1
  <2>1. k \in DOMAIN stack /\ Len(stack) = k + 1 /\ k < Len(stack) BY <1>2, <1>4
  <2>2. stack[Len(stack)].id = stack[k].id BY <1>1, <1>2, <1>4, <2>1 DEF Nesting, Nested
  <2>3. stack[k].at = "eval" BY <1>4, <2>1 DEF Nesting, Nested
  <2>4. Root(stack[k].id) \in DOMAIN promise BY <1>4, <2>1, <2>3 DEF Nesting, Nested
  <2> QED BY <1>2, <2>2, <2>4
<1> QED BY <1>1, <1>2, <1>4, <1>5, <1>6, <1>7

LEMMA LeaveOK ==
  ASSUME LInv, AtBody, NEW end \in Ends, Leave(end),
         end = "awaiting" => files[v8[Top.id].path].kind = "awaits"
  PROVE  LInv'
<1>1. /\ stack' = Popped /\ files' = files /\ modules' = modules
      /\ resolve_cache' = resolve_cache /\ imports' = imports /\ phase' = phase /\ status' = status
  BY DEF Leave, loaded, counts
<1>2. /\ Shape /\ Tables /\ Graph /\ Nesting /\ Bodies /\ Settlements /\ Answers /\ PendingExact
      /\ Beginning /\ EntryRuns /\ imports \in Nat
  BY DEF LInv, Shape
<1>3. /\ stack # <<>> /\ Alive /\ phase # "gone" /\ phase # "exit" /\ Top.f = "body"
      /\ Top = stack[Len(stack)] /\ Len(stack) \in DOMAIN stack /\ Len(stack) - 1 \in DOMAIN stack
      /\ Top.id \in DOMAIN v8 /\ v8[Top.id].status = "evaluating"
      /\ files[v8[Top.id].path].kind = "awaits" \/ Root(Top.id) \in DOMAIN promise => Last(Popped).f \in Loads
      /\ Last(Popped).f \in Loads => Root(Top.id) \in DOMAIN promise
  BY <1>2, BodyFacts
<1> SUFFICES ASSUME NEW id, id = Top.id PROVE LInv' OBVIOUS
<1>4. /\ v8' \in Seq(Modules) /\ DOMAIN v8' = DOMAIN v8 /\ SamePaths /\ Later
      /\ v8'[id].status = end /\ \A i \in DOMAIN v8 : i # id => v8'[i] = v8[i]
      /\ \A i \in DOMAIN v8 : v8'[i].requests = v8[i].requests /\ v8'[i].path = v8[i].path
  BY <1>2, <1>3, StatusSet DEF Leave, Ends, Statuses
<1>5. /\ Nested(stack', DOMAIN v8, DOMAIN promise, imports) /\ Running(stack', v8, DOMAIN promise)
      /\ Evaluating(stack') /\ stack' \in Seq(Frames) /\ Links'
      /\ DOMAIN stack' = 1 .. Len(stack) - 1
      /\ \A k \in DOMAIN stack' : k \in DOMAIN stack /\ stack'[k] = stack[k] /\ k # Len(stack)
  BY <1>1, <1>2, <1>3, Pops
<1>6. /\ Graph' /\ Settlements' /\ Answers' /\ PendingExact' /\ DOMAIN promise' = DOMAIN promise
      /\ \A i : Root(i) \in rejected_promises => Root(i) \in rejected_promises'
  <2>1. CASE Last(Popped).f \in Loads
    <3>1. SettleRoot(id, end) BY <2>1 DEF Leave
    <3>2. v8' = [v8 EXCEPT ![id].status = end] BY DEF Leave
    <3>3. Root(id) \in DOMAIN promise BY <1>3, <2>1
    <3> QED BY <1>1, <1>2, <1>3, <3>1, <3>2, <3>3, RootSettles
  <2>2. CASE Last(Popped).f \notin Loads
    <3>1. promise' = promise /\ rejected_promises' = rejected_promises BY <2>2 DEF Leave, errorVars
    <3>2. Root(id) \notin DOMAIN promise /\ files[v8[id].path].kind # "awaits" BY <1>3, <2>2
    <3>3. RootsKept /\ StaysSettled BY <1>3, <1>4, <3>2 DEF RootsKept, StaysSettled
    <3>4. \A i \in DOMAIN v8 : v8'[i].status = "awaiting" => v8[i].status = "awaiting"
      BY <1>4, <3>2
    <3>5. Graph' BY <1>1, <1>2, <1>4, <3>1, <3>4, GraphKept
    <3>6. Settlements' BY <1>1, <1>2, <1>4, <3>1, <3>3, SettlementsKept
    <3>7. Answers' BY <1>1, <1>2, <1>4, <3>1, <3>3, AnswersKept
    <3>8. PendingExact' BY <1>1, <1>2, <1>3, <3>1, PendingKept
    <3> QED BY <3>1, <3>5, <3>6, <3>7, <3>8
  <2> QED BY <2>1, <2>2
<1>7. status' = "none" BY <1>1, <1>2, <1>3 DEF Shape
<1>8. Shape'
  <2>1. phase' \in {"bootstrap", "script", "loop", "exit", "gone"} BY <1>1, <1>2 DEF Shape
  <2> QED BY <1>1, <1>2, <1>4, <1>5, <1>7, <2>1, ShapeNext
<1>9. Tables' BY <1>1, <1>2, <1>4, TablesKept
<1>10. Nesting' /\ Bodies'
  <2>1. Nested(stack', DOMAIN v8', DOMAIN promise', imports') BY <1>1, <1>4, <1>5, <1>6
  <2>2. \A k \in DOMAIN stack' : stack'[k].f = "body" => v8'[stack'[k].id] = v8[stack'[k].id]
    <3>1. ASSUME NEW k \in DOMAIN stack', stack'[k].f = "body"
          PROVE  stack'[k].id \in DOMAIN v8 /\ stack'[k].id # id
      BY <1>2, <1>3, <1>5, <3>1 DEF Bodies, Running, Nesting, Nested
    <3> QED BY <1>4, <3>1
  <2>3. Running(stack', v8', DOMAIN promise') BY <1>5, <1>6, <2>2, RunningKept
  <2> QED BY <1>1, <2>1, <2>3, NextCalls
<1>11. Beginning'
  <2>1. 1 \in DOMAIN stack' /\ stack'[1] = stack[1]
    <3>1. DOMAIN stack = 1 .. Len(stack) /\ Len(stack) \in Nat BY <1>2, <1>3, TopFacts
    <3> QED BY <1>3, <1>5, <3>1
  <2>2. stack' # <<>> BY <2>1
  <2> QED BY <1>1, <1>2, <1>3, <1>4, <2>1, <2>2, BeginningKept
<1>12. EntryRuns'
  <2>1. ImportsKept BY <1>5 DEF ImportsKept
  <2> QED BY <1>1, <1>2, <1>3, <1>4, <1>6, <2>1, EntryRunsKept
<1>13. ExitStatus' /\ Cleaned' BY <1>1, <1>3, <1>7, NoExit
<1> QED BY <1>5, <1>6, <1>8, <1>9, <1>10, <1>11, <1>12, <1>13 DEF LInv

LEMMA LeaveBodyOK == ASSUME LInv, LeaveBody PROVE LInv'
<1>1. CASE AtBody /\ Leave("errored") BY <1>1, LeaveOK DEF Ends
<1>2. CASE /\ Ready
           /\ Leave(CASE files[v8[Top.id].path].kind = "throws" -> "errored"
                      [] files[v8[Top.id].path].kind = "awaits" -> "awaiting"
                      [] OTHER -> "evaluated")
  <2> DEFINE kind == files[v8[Top.id].path].kind
  <2>1. AtBody BY <1>2 DEF Ready
  <2>2. CASE kind = "throws"
    <3>1. Leave("errored") BY <1>2, <2>2
    <3> QED BY <2>1, <3>1, LeaveOK DEF Ends
  <2>3. CASE kind = "awaits"
    <3>1. Leave("awaiting") BY <1>2, <2>3
    <3> QED BY <2>1, <2>3, <3>1, LeaveOK DEF Ends
  <2>4. CASE kind # "throws" /\ kind # "awaits"
    <3>1. Leave("evaluated") BY <1>2, <2>4
    <3> QED BY <2>1, <3>1, LeaveOK DEF Ends
  <2> QED BY <2>2, <2>3, <2>4
<1> QED BY <1>1, <1>2 DEF LeaveBody

LEMMA EnterDepOK == ASSUME LInv, EnterDep PROVE LInv'
<1>1. /\ AtBody /\ files' = files /\ modules' = modules /\ promise' = promise
      /\ rejected_promises' = rejected_promises
      /\ resolve_cache' = resolve_cache /\ imports' = imports /\ phase' = phase /\ status' = status
  BY DEF EnterDep, errorVars, loaded, counts
<1>2. PICK d \in Deps(Top.id, "linked") :
        v8' = [v8 EXCEPT ![d].status = "evaluating"] /\ stack' = Append(stack, BodyFrame(d))
  BY DEF EnterDep
<1>3. /\ Shape /\ Tables /\ Graph /\ Nesting /\ Bodies /\ Settlements /\ Answers /\ PendingExact
      /\ Beginning /\ EntryRuns /\ imports \in Nat
  BY DEF LInv, Shape
<1>4. /\ stack # <<>> /\ Alive /\ phase # "gone" /\ phase # "exit" /\ Top.f = "body"
      /\ Top = stack[Len(stack)] /\ Len(stack) \in DOMAIN stack
      /\ Top.id \in DOMAIN v8
  BY <1>1, <1>3, BodyFacts
<1>5. d \in DOMAIN v8 /\ v8[d].status = "linked" /\ files[v8[d].path].kind # "awaits"
  <2>1. PICK y \in v8[Top.id].requests : d = y[2] BY <1>2 DEF Deps
  <2>2. y[1] \in files[v8[Top.id].path].deps /\ d \in DOMAIN v8 /\ v8[d].path = y[1]
    BY <1>3, <1>4, <2>1 DEF Graph
  <2>3. v8[Top.id].path \in Paths BY <1>3, <1>4, V8Type
  <2>4. v8[d].status = "linked" BY <1>2 DEF Deps
  <2> QED BY <1>3, <2>2, <2>3, <2>4, Disk DEF Shape
<1>6. Root(d) \notin DOMAIN promise BY <1>3, <1>5 DEF Settlements
<1>7. /\ v8' \in Seq(Modules) /\ DOMAIN v8' = DOMAIN v8 /\ SamePaths /\ Later
      /\ v8'[d].status = "evaluating" /\ \A i \in DOMAIN v8 : i # d => v8'[i] = v8[i]
      /\ \A i \in DOMAIN v8 : v8'[i].requests = v8[i].requests /\ v8'[i].path = v8[i].path
  BY <1>2, <1>3, <1>5, StatusSet DEF Statuses
<1> SUFFICES ASSUME NEW x, x = BodyFrame(d) PROVE LInv' OBVIOUS
<1>8. x \in Frames /\ x.f = "body" /\ x.id = d /\ stack' = Append(stack, x) /\ stack \in Seq(Frames)
  <2>1. d \in Nat BY <1>3, <1>5, V8Type
  <2> QED BY <1>2, <1>3, <2>1 DEF BodyFrame, BodyFrames, Frames, Shape
<1>9. /\ stack' \in Seq(Frames) /\ stack' # <<>> /\ Len(stack') = Len(stack) + 1 /\ Len(stack) \in Nat
      /\ DOMAIN stack' = 1 .. Len(stack) + 1 /\ DOMAIN stack = 1 .. Len(stack)
      /\ stack'[Len(stack) + 1] = x /\ Last(stack') = x
      /\ \A k \in 1 .. Len(stack) : stack'[k] = stack[k]
  BY ONLY <1>8, PushedCalls
<1>10. RootsKept /\ StaysSettled BY <1>5, <1>6, <1>7 DEF RootsKept, StaysSettled
<1>11. Graph'
  <2>1. \A i \in DOMAIN v8 : v8'[i].status = "awaiting" => v8[i].status = "awaiting" BY <1>7
  <2> QED BY <1>1, <1>3, <1>7, <2>1, GraphKept
<1>12. Settlements' BY <1>1, <1>3, <1>7, <1>10, SettlementsKept
<1>13. Answers' BY <1>1, <1>3, <1>7, <1>10, AnswersKept
<1>14. PendingExact' BY <1>1, <1>3, <1>4, PendingKept
<1>15. Tables' BY <1>1, <1>3, <1>7, TablesKept
<1>16. status' = "none" BY <1>1, <1>3, <1>4 DEF Shape
<1>17. Shape'
  <2>1. phase' \in {"bootstrap", "script", "loop", "exit", "gone"} BY <1>1, <1>3 DEF Shape
  <2> QED BY <1>1, <1>3, <1>7, <1>9, <1>16, <2>1, ShapeNext
<1>18. Nesting' /\ Bodies'
  <2>1. Evaluating(stack)
    <3>1. \A k \in DOMAIN stack : k # Len(stack) => k < Len(stack) BY <1>9
    <3> QED BY <1>3, <1>4, <3>1 DEF Evaluating, Nesting, Nested, Loads
  <2>2. Last(stack).f = "body" BY <1>4 DEF Last
  <2>3. Callable(stack, x, DOMAIN v8', DOMAIN promise', imports')
    BY <1>4, <1>5, <1>7, <1>8, <2>2 DEF Callable, Loads
  <2>4. Nested(stack, DOMAIN v8', DOMAIN promise', imports') BY <1>1, <1>3, <1>7 DEF Nesting
  <2>5. Nested(stack', DOMAIN v8', DOMAIN promise', imports')
    BY <1>8, <2>1, <2>3, <2>4, NestedPush
  <2>6. \A k \in DOMAIN stack : stack[k].f = "body" => stack[k].id # d /\ stack[k].id \in DOMAIN v8
    BY <1>3, <1>5 DEF Bodies, Running, Nesting, Nested
  <2>7. Running(stack, v8', DOMAIN promise')
    <3>1. Running(stack, v8, DOMAIN promise) BY <1>3 DEF Bodies
    <3>2. \A k \in DOMAIN stack : stack[k].f = "body" =>
            /\ v8'[stack[k].id].status = v8[stack[k].id].status
            /\ v8'[stack[k].id].path = v8[stack[k].id].path
            /\ Root(stack[k].id) \in DOMAIN promise' => Root(stack[k].id) \in DOMAIN promise
      BY <1>1, <1>7, <2>6
    <3> QED BY ONLY <3>1, <3>2, RunningKept
  <2>8. Running(stack', v8', DOMAIN promise')
    <3>1. stack[1].f # "body" BY <1>3, <1>4, FirstCall
    <3>2. v8'[x.id].status = "evaluating" /\ files[v8'[x.id].path].kind # "awaits"
          /\ Root(x.id) \notin DOMAIN promise' /\ \A k \in DOMAIN stack : stack[k].f = "body" => stack[k].id # x.id
      BY <1>1, <1>5, <1>6, <1>7, <1>8, <2>6
    <3> QED BY <1>4, <1>8, <2>7, <3>1, <3>2, RunningPush
  <2> QED BY <1>1, <2>5, <2>8, NextCalls
<1>19. Links' BY <1>8, <1>9 DEF Links, Top, Loads
<1>20. Beginning'
  <2>1. 1 \in 1 .. Len(stack) BY <1>4, <1>9
  <2> QED BY <1>1, <1>3, <1>4, <1>7, <1>9, <2>1, BeginningKept
<1>21. EntryRuns'
  <2>1. ImportsKept
    <3> SUFFICES ASSUME NEW k \in DOMAIN stack', stack'[k].f = "import"
                 PROVE  \E j \in DOMAIN stack : stack[j].f = "import" /\ stack'[k].id = stack[j].id
      BY DEF ImportsKept
    <3>1. k # Len(stack) + 1 BY <1>8, <1>9
    <3> QED BY <1>9, <3>1
  <2> QED BY <1>1, <1>3, <1>5, <1>7, <2>1, EntryRunsKept
<1>22. ExitStatus' /\ Cleaned' BY <1>1, <1>4, <1>16, NoExit
<1> QED BY <1>11, <1>12, <1>13, <1>14, <1>15, <1>17, <1>18, <1>19, <1>20, <1>21, <1>22 DEF LInv

-----------------------------------------------------------------------------
(* Linking. *)
LEMMA LinkFacts ==
  ASSUME Shape, Nesting, Links, Linking
  PROVE  /\ stack # <<>> /\ Alive /\ phase # "gone" /\ phase # "exit" /\ Top.f \in Loads /\ Top.at = "link"
         /\ Top = stack[Len(stack)] /\ Len(stack) \in DOMAIN stack /\ DOMAIN stack = 1 .. Len(stack)
         /\ Len(stack) \in Nat \ {0}
         /\ Top \in LoadFrames /\ Top.id \in DOMAIN v8
         /\ Top.id \in Top.seen /\ Top.seen \subseteq DOMAIN v8
         /\ \A i \in Top.seen : v8[i].status = "unlinked"
         /\ \A r \in Top.todo : r[1] \in Top.seen /\ r[2] \in files[v8[r[1]].path].deps
         /\ Root(Top.id) \notin DOMAIN promise
         /\ \A q \in DOMAIN promise : promise[q].of # Top.id
         /\ IF Top.f = "exec" THEN Len(stack) = 1 /\ Popped = <<>> ELSE Len(stack) > 1 /\ Popped # <<>>
         /\ Top.f = "import" =>
              /\ Top.p \in ({"import"} \X (1 .. imports)) \ DOMAIN promise
              /\ \A k \in DOMAIN stack : k # Len(stack) /\ stack[k].f = "import" => stack[k].p # Top.p
<1>1. stack # <<>> /\ Alive /\ phase # "gone" /\ phase # "exit" /\ Top.f \in Loads /\ Top.at = "link"
  BY DEF Linking, Busy, Alive
<1>2. /\ Top = stack[Len(stack)] /\ Len(stack) \in DOMAIN stack /\ DOMAIN stack = 1 .. Len(stack)
      /\ Len(stack) \in Nat \ {0} /\ Top \in Frames /\ Len(Popped) = Len(stack) - 1
  BY <1>1, TopFacts
<1>3. Top \in LoadFrames BY <1>1, <1>2, FrameFacts
<1>4. /\ Top.id \in DOMAIN v8
      /\ Top.f = "import" =>
              /\ Top.p \in ({"import"} \X (1 .. imports)) \ DOMAIN promise
              /\ \A k \in DOMAIN stack : k # Len(stack) /\ stack[k].f = "import" => stack[k].p # Top.p
  BY <1>1, <1>2 DEF Nesting, Nested, Loads
<1>5. IF Top.f = "exec" THEN Len(stack) = 1 /\ Popped = <<>> ELSE Len(stack) > 1 /\ Popped # <<>>
  <2>1. CASE Top.f = "exec" BY <1>1, <2>1, Alone
  <2>2. CASE Top.f # "exec"
    <3>1. Len(stack) # 1 BY <1>1, <1>2, <2>2 DEF Loads, Nesting, Nested
    <3>2. Len(Popped) # 0 BY <1>2, <3>1
    <3>3. Popped # <<>> BY <3>2
    <3> QED BY <1>2, <2>2, <3>1, <3>3
  <2> QED BY <2>1, <2>2
<1>6. /\ Top.id \in Top.seen /\ Top.seen \subseteq DOMAIN v8
      /\ \A i \in Top.seen : v8[i].status = "unlinked"
      /\ \A r \in Top.todo : r[1] \in Top.seen /\ r[2] \in files[v8[r[1]].path].deps
      /\ Root(Top.id) \notin DOMAIN promise
      /\ \A q \in DOMAIN promise : promise[q].of # Top.id
  BY <1>1 DEF Links
<1> QED BY <1>1, <1>2, <1>3, <1>4, <1>5, <1>6

(* The innermost call goes on, maybe with more modules and promises. *)
Grown(known, made) ==
  /\ DOMAIN v8 \subseteq known /\ DOMAIN promise \subseteq made
  /\ \A q \in made : q \in DOMAIN promise \/ q[1] # "import"

Retopped(t, y, known, made) ==
  /\ t \in Seq(Frames) /\ t # <<>> /\ Len(t) = Len(stack) /\ DOMAIN t = DOMAIN stack
  /\ t[Len(stack)] = y /\ Last(t) = y /\ \A k \in DOMAIN stack : k # Len(stack) => t[k] = stack[k]
  /\ Nested(t, known, made, imports) /\ t[1].f = stack[1].f
  /\ t[1].f # "body" /\ (stack[1].f = "exec" => t[1].id = stack[1].id)
  /\ Evaluating(Popped) /\ Running(Popped, v8, DOMAIN promise) /\ Popped \in Seq(Frames)
  /\ (Popped # <<>> => Popped[1].f # "body")

LEMMA Retop ==
  ASSUME Shape, Nesting, Bodies, Links, Linking, NEW y \in Frames,
         y.f = Top.f, y.id = Top.id, y.p = Top.p,
         NEW known, NEW made, Grown(known, made),
         y.at = "eval" => Root(y.id) \in made, NEW t, t = Append(Popped, y)
  PROVE  Retopped(t, y, known, made)
<1>1. /\ stack # <<>> /\ Top = stack[Len(stack)] /\ Top.f \in Loads
      /\ Len(stack) \in Nat \ {0} /\ Top.id \in DOMAIN v8
      /\ IF Top.f = "exec" THEN Len(stack) = 1 /\ Popped = <<>> ELSE Len(stack) > 1 /\ Popped # <<>>
      /\ Top.f = "import" =>
           /\ Top.p \in ({"import"} \X (1 .. imports)) \ DOMAIN promise
           /\ \A k \in DOMAIN stack : k # Len(stack) /\ stack[k].f = "import" => stack[k].p # Top.p
  BY LinkFacts
<1>2. /\ stack \in Seq(Frames) /\ DOMAIN stack = 1 .. Len(stack)
      /\ Popped \in Seq(Frames) /\ Len(Popped) = Len(stack) - 1
      /\ DOMAIN Popped = 1 .. Len(stack) - 1
      /\ \A k \in 1 .. Len(stack) - 1 : Popped[k] = stack[k]
  BY <1>1, TopFacts
<1>3. /\ t \in Seq(Frames) /\ t # <<>> /\ Len(t) = Len(Popped) + 1
      /\ DOMAIN t = 1 .. Len(Popped) + 1 /\ t[Len(Popped) + 1] = y /\ Last(t) = y
      /\ \A k \in 1 .. Len(Popped) : t[k] = Popped[k]
  <2>1. Popped \in Seq(Frames) BY <1>2
  <2> QED BY ONLY <2>1, t = Append(Popped, y), y \in Frames, AppendProperties DEF Last
<1>4. /\ Len(t) = Len(stack) /\ DOMAIN t = DOMAIN stack /\ t[Len(stack)] = y
      /\ \A k \in DOMAIN stack : k # Len(stack) => t[k] = stack[k]
  <2>1. Len(Popped) + 1 = Len(stack) BY <1>1, <1>2
  <2>2. DOMAIN t = DOMAIN stack /\ Len(t) = Len(stack) /\ t[Len(stack)] = y BY <1>2, <1>3, <2>1
  <2>3. ASSUME NEW k \in DOMAIN stack, k # Len(stack) PROVE t[k] = stack[k]
    <3>1. k \in 1 .. Len(Popped) /\ k \in 1 .. Len(stack) - 1 BY <1>1, <1>2, <2>3
    <3> QED BY <1>2, <1>3, <3>1
  <2> QED BY <2>2, <2>3
<1>5. Nested(Popped, DOMAIN v8, DOMAIN promise, imports) /\ Evaluating(Popped)
  <2>1. Nested(stack, DOMAIN v8, DOMAIN promise, imports) BY DEF Nesting
  <2> QED BY <1>1, <1>2, <2>1, NestedPop DEF Popped
<1>6. Nested(Popped, known, made, imports)
  <2>1. \A k \in DOMAIN Popped : Popped[k].f = "import" => Popped[k].p \notin made
    BY <1>5 DEF Nested, Grown
  <2>2. imports \in Nat /\ DOMAIN v8 \subseteq known /\ DOMAIN promise \subseteq made
    BY DEF Shape, Grown
  <2> QED BY <1>5, <2>1, <2>2, NestedGrow
<1>7. Callable(Popped, y, known, made, imports)
  <2>1. y.f = "import" => \A k \in DOMAIN Popped : Popped[k].f = "import" => Popped[k].p # y.p
    BY <1>1, <1>2
  <2>2. y.f = "import" => y.p \in ({"import"} \X (1 .. imports)) \ made BY <1>1 DEF Grown
  <2>3. y.f \in {"exec", "import"} BY <1>1 DEF Loads
  <2> QED BY <1>1, <2>1, <2>2, <2>3 DEF Callable, Grown
<1>8. Nested(t, known, made, imports) BY <1>2, <1>5, <1>6, <1>7, NestedPush
<1>9. t[1].f = stack[1].f /\ (stack[1].f = "exec" => t[1].id = stack[1].id)
  <2>1. CASE Len(stack) = 1 BY <1>1, <1>4, <2>1
  <2>2. CASE Len(stack) # 1
    <3>1. 1 \in DOMAIN stack /\ 1 # Len(stack) BY <1>1, <1>2, <2>2
    <3> QED BY <1>4, <3>1
  <2> QED BY <2>1, <2>2
<1>10. stack[1].f # "body" /\ (Popped # <<>> => Popped[1].f # "body") BY <1>1, FirstCall
<1>11. Running(Popped, v8, DOMAIN promise)
  <2>1. Running(stack, v8, DOMAIN promise) BY DEF Bodies
  <2> QED BY <1>1, <1>2, <1>10, <2>1, RunningPop DEF Popped
<1> QED BY <1>2, <1>3, <1>4, <1>5, <1>8, <1>9, <1>10, <1>11 DEF Retopped

LEMMA UnlinkFacts ==
  ASSUME Shape, v8' = Unlink
  PROVE  /\ v8' \in Seq(Modules) /\ DOMAIN v8' = DOMAIN v8 /\ Later /\ SameStatus /\ SamePaths
         /\ RootsKept /\ StaysSettled
         /\ \A i \in DOMAIN v8 : v8'[i].requests \subseteq v8[i].requests
<1>1. Len(v8) \in Nat /\ DOMAIN v8 = 1 .. Len(v8) /\ \A i \in DOMAIN v8 : v8[i] \in Modules
  BY V8Type
<1>2. \A i \in DOMAIN v8 : [v8[i] EXCEPT !.requests = {}] \in Modules BY <1>1 DEF Modules
<1>3. DOMAIN v8' = 1 .. Len(v8) /\ \A i \in 1 .. Len(v8) : v8'[i] \in Modules
  BY <1>1, <1>2 DEF Unlink
<1>4. v8' = [i \in 1 .. Len(v8) |-> v8'[i]] BY <1>1 DEF Unlink
<1>5. v8' \in [1 .. Len(v8) -> Modules] BY <1>3, <1>4
<1>6. v8' \in Seq(Modules) /\ Len(v8') = Len(v8) BY <1>1, <1>3, <1>5, LenProperties
<1>7. \A i \in DOMAIN v8 : /\ v8'[i].path = v8[i].path /\ v8'[i].status = v8[i].status
                           /\ v8'[i].requests \subseteq v8[i].requests
  BY <1>1 DEF Unlink, Modules
<1> QED BY <1>1, <1>3, <1>6, <1>7 DEF Later, SameStatus, SamePaths, RootsKept, StaysSettled

TablesAfter ==
  \/ modules' = modules /\ resolve_cache' = resolve_cache
  \/ \E path \in Paths : ~CanInit(path) /\ Destroyed(path)

LEMMA LinkFailsOK ==
  ASSUME LInv, Linking, LinkFails, TablesAfter, files' = files, imports' = imports
  PROVE  LInv'
<1>1. /\ Shape /\ Tables /\ Graph /\ Nesting /\ Bodies /\ Links /\ Settlements /\ Answers /\ PendingExact
      /\ Beginning /\ EntryRuns /\ imports \in Nat
  BY DEF LInv, Shape
<1>2. /\ stack # <<>> /\ Alive /\ phase # "gone" /\ phase # "exit" /\ Top.f \in Loads
      /\ DOMAIN stack = 1 .. Len(stack) /\ Len(stack) \in Nat \ {0} /\ Top.id \in DOMAIN v8
      /\ Root(Top.id) \notin DOMAIN promise /\ \A q \in DOMAIN promise : promise[q].of # Top.id
      /\ IF Top.f = "exec" THEN Len(stack) = 1 /\ Popped = <<>> ELSE Len(stack) > 1 /\ Popped # <<>>
      /\ Top.f = "import" =>
           /\ Top.p \in ({"import"} \X (1 .. imports)) \ DOMAIN promise
           /\ \A k \in DOMAIN stack : k # Len(stack) /\ stack[k].f = "import" => stack[k].p # Top.p
  BY <1>1, LinkFacts
<1>3. /\ v8' \in Seq(Modules) /\ DOMAIN v8' = DOMAIN v8 /\ Later /\ SameStatus /\ SamePaths
      /\ RootsKept /\ StaysSettled
      /\ \A i \in DOMAIN v8 : v8'[i].requests \subseteq v8[i].requests
  BY <1>1, UnlinkFacts DEF LinkFails
<1>4. phase' # "gone" => Tables'
  <2>1. CASE modules' = modules /\ resolve_cache' = resolve_cache
    BY <1>1, <1>2, <1>3, <2>1, TablesKept
  <2>2. CASE \E path \in Paths : ~CanInit(path) /\ Destroyed(path)
    BY <1>1, <1>2, <1>3, <2>2, TablesDestroyed
  <2> QED BY <2>1, <2>2 DEF TablesAfter
<1>5. DOMAIN promise \subseteq DOMAIN promise' => Graph'
  BY <1>1, <1>3, GraphKept DEF SameStatus
<1>6. CASE Top.f = "exec" /\ Raise("critical") /\ UNCHANGED errorVars
  <2>1. promise' = promise /\ rejected_promises' = rejected_promises /\ phase' = "exit"
    BY <1>6 DEF errorVars, Raise
  <2>2. Shape' /\ Nesting' /\ Bodies' /\ Links' /\ Beginning' /\ EntryRuns' /\ ExitStatus' /\ Cleaned'
    BY <1>2, <1>3, <1>6, Raised
  <2>3. Tables' /\ Graph' BY <1>4, <1>5, <2>1
  <2>4. Settlements' BY <1>1, <1>3, <2>1, SettlementsKept
  <2>5. Answers' BY <1>1, <1>3, <2>1, AnswersKept
  <2>6. PendingExact' BY <1>1, <1>2, <2>1, PendingKept
  <2> QED BY <2>2, <2>3, <2>4, <2>5, <2>6 DEF LInv
<1>7. CASE /\ Top.f = "import"
           /\ promise' = Settled(Top.p, "rejected", FALSE, Top.id)
           /\ rejected_promises' = RejectWithNoHandler(Top.p)
           /\ stack' = Popped /\ UNCHANGED <<phase, status>>
  <2> SUFFICES ASSUME NEW id, id = Top.id, NEW p, p = Top.p PROVE LInv' OBVIOUS
  <2> DEFINE r == [state |-> "rejected", handled |-> FALSE, of |-> id]
  <2>1. /\ promise' = Put(promise, p, r) /\ rejected_promises' = rejected_promises \cup {p}
        /\ phase' = phase /\ status' = status
    BY <1>7 DEF Settled, RejectWithNoHandler
  <2>2. r \in PromiseRecords' /\ r.state = "rejected" /\ r.handled = FALSE /\ r.of = id
    <3>1. id \in 0 .. Len(v8') BY <1>1, <1>2, <1>3, V8Type DEF Later
    <3> QED BY <3>1 DEF PromiseRecords, States
  <2>3. p[1] = "import" /\ p \notin Own /\ (\A i : p # Root(i)) /\ p \notin DOMAIN promise
        /\ p \in {"import"} \X (1 .. imports')
    BY <1>2, <1>7 DEF Own, Root
  <2> HIDE DEF r
  <2>4. DOMAIN promise' = {p} \cup DOMAIN promise BY <2>1 DEF Put
  <2>5. /\ Nested(stack', DOMAIN v8, DOMAIN promise, imports) /\ Running(stack', v8, DOMAIN promise)
        /\ Evaluating(stack') /\ stack' \in Seq(Frames) /\ Links'
        /\ DOMAIN stack' = 1 .. Len(stack) - 1
        /\ \A k \in DOMAIN stack' : k \in DOMAIN stack /\ stack'[k] = stack[k] /\ k # Len(stack)
    BY <1>1, <1>2, <1>7, Pops
  <2>6. status' = "none" BY <1>1, <1>2, <2>1 DEF Shape
  <2>7. Shape'
    <3>1. phase' \in {"bootstrap", "script", "loop", "exit", "gone"} BY <1>1, <2>1 DEF Shape
    <3> QED BY <1>1, <1>3, <2>5, <2>6, <3>1, ShapeNext
  <2>8. Tables' /\ Graph' BY <1>2, <1>4, <1>5, <2>1, <2>4
  <2>9. Nesting' /\ Bodies'
    <3>1. ASSUME NEW k \in DOMAIN stack', stack'[k].f = "import"
          PROVE  stack'[k].p \notin DOMAIN promise'
      <4>1. stack'[k].p \notin DOMAIN promise BY <2>5, <3>1 DEF Nested
      <4>2. k \in DOMAIN stack /\ stack'[k] = stack[k] /\ k # Len(stack) BY <2>5
      <4>3. stack[k].p # p BY <1>2, <1>7, <3>1, <4>2
      <4> QED BY <2>4, <4>1, <4>2, <4>3
    <3>2. Nested(stack', DOMAIN v8', DOMAIN promise', imports')
      BY <1>1, <1>3, <2>4, <2>5, <3>1, NestedGrow
    <3>3. Running(stack', v8', DOMAIN promise')
      <4>1. \A k \in DOMAIN stack' : stack'[k].f = "body" =>
              /\ v8'[stack'[k].id].status = v8[stack'[k].id].status
              /\ v8'[stack'[k].id].path = v8[stack'[k].id].path
              /\ Root(stack'[k].id) \in DOMAIN promise' => Root(stack'[k].id) \in DOMAIN promise
        BY <1>3, <2>3, <2>4, <2>5 DEF Nested, Later, SameStatus
      <4> QED BY <2>5, <4>1, RunningKept
    <3> QED BY <3>2, <3>3, NextCalls
  <2>10. Settlements'
    <3>1. \A i \in DOMAIN v8 : v8'[i].status = v8[i].status BY <1>3 DEF SameStatus
    <3> QED BY <1>1, <1>3, <2>1, <2>2, <2>3, <3>1, SettlementsPut
  <2>11. Answers' BY <1>1, <1>2, <1>3, <2>1, <2>2, <2>3, AnswersPut
  <2>12. PendingExact'
    <3>1. ~Rethrown(p)' BY <2>3 DEF Rethrown
    <3>2. \A q \in DOMAIN promise : q # p => (Rethrown(q)' <=> Rethrown(q))
      BY <1>2, <2>1, <2>2, <2>3, RethrownPut
    <3>3. rejected_promises' = IF r.state = "rejected" /\ ~r.handled /\ ~Rethrown(p)'
                                THEN rejected_promises \cup {p} ELSE rejected_promises \ {p}
      BY <2>1, <2>2, <3>1
    <3> QED BY <1>1, <1>2, <2>1, <3>2, <3>3, PendingPutOne
  <2>13. Beginning'
    <3>1. 1 \in DOMAIN stack' /\ stack'[1] = stack[1] BY <1>2, <1>7, <2>5
    <3>2. stack' # <<>> BY <3>1
    <3> QED BY <1>1, <1>2, <1>3, <2>1, <3>1, <3>2, BeginningKept
  <2>14. EntryRuns'
    <3>1. ImportsKept BY <2>5 DEF ImportsKept
    <3>2. \A i \in DOMAIN v8 : v8'[i].status = v8[i].status BY <1>3 DEF SameStatus
    <3> QED BY <1>1, <1>2, <1>3, <2>1, <2>4, <3>1, <3>2, EntryRunsKept
  <2>15. ExitStatus' /\ Cleaned' BY <1>2, <2>1, <2>6, NoExit
  <2> QED BY <2>5, <2>7, <2>8, <2>9, <2>10, <2>11, <2>12, <2>13, <2>14, <2>15 DEF LInv
<1> QED BY <1>6, <1>7 DEF LinkFails

(* V8 has the module for a request: it was there, or is the new one of `mods`. *)
Extends(mods, path) ==
  /\ mods \in Seq(Modules) /\ DOMAIN v8 \subseteq DOMAIN mods /\ Len(v8) <= Len(mods)
  /\ \A i \in DOMAIN v8 : mods[i] = v8[i]
  /\ \A i \in DOMAIN mods \ DOMAIN v8 :
       mods[i].requests = {} /\ mods[i].status = "unlinked" /\ mods[i].path = path

LEMMA ResolvedModules ==
  ASSUME Shape, Graph, NEW parent \in DOMAIN v8, NEW path \in files[v8[parent].path].deps,
         NEW mods, Extends(mods, path), NEW d \in DOMAIN mods, mods[d].path = path,
         v8' = [mods EXCEPT ![parent].requests = @ \cup {<<path, d>>}], files' = files,
         promise' = promise
  PROVE  /\ v8' \in Seq(Modules) /\ DOMAIN v8' = DOMAIN mods /\ Len(v8') = Len(mods)
         /\ Later /\ SameStatus /\ RootsKept /\ StaysSettled /\ Graph'
         /\ \A i \in DOMAIN mods : v8'[i].path = mods[i].path /\ v8'[i].status = mods[i].status
         /\ path \in Paths
<1>1. /\ mods \in Seq(Modules) /\ DOMAIN v8 \subseteq DOMAIN mods /\ Len(v8) <= Len(mods)
      /\ \A i \in DOMAIN v8 : mods[i] = v8[i]
      /\ \A i \in DOMAIN mods \ DOMAIN v8 :
           mods[i].requests = {} /\ mods[i].status = "unlinked" /\ mods[i].path = path
  BY DEF Extends
<1>2. /\ Len(v8) \in Nat /\ DOMAIN v8 = 1 .. Len(v8) /\ v8[parent] \in Modules
      /\ v8[parent].path \in Paths
  BY V8Type
<1>3. Len(mods) \in Nat /\ DOMAIN mods = 1 .. Len(mods) BY <1>1, LenProperties
<1>4. path \in Paths /\ d \in Nat BY <1>2, <1>3, Disk DEF Shape
<1> DEFINE e == [mods[parent] EXCEPT !.requests = @ \cup {<<path, d>>}]
<1>5. /\ e \in Modules /\ e.path = mods[parent].path /\ e.status = mods[parent].status
      /\ e.requests = v8[parent].requests \cup {<<path, d>>}
  BY <1>1, <1>2, <1>4 DEF Modules
<1>6. v8' = [mods EXCEPT ![parent] = e] OBVIOUS
<1> HIDE DEF e
<1>7. /\ v8' \in Seq(Modules) /\ Len(v8') = Len(mods) /\ DOMAIN v8' = DOMAIN mods
      /\ v8'[parent] = e /\ \A i \in DOMAIN mods : i # parent => v8'[i] = mods[i]
  <2>1. parent \in 1 .. Len(mods) BY <1>1, <1>3
  <2>2. mods \in Seq(Modules) BY <1>1
  <2> QED BY ONLY <2>1, <2>2, <1>3, <1>5, <1>6, ExceptSeq
<1>8. \A i \in DOMAIN mods : v8'[i].path = mods[i].path /\ v8'[i].status = mods[i].status
  BY <1>5, <1>7
<1>9. Later /\ SameStatus /\ RootsKept /\ StaysSettled
  BY <1>1, <1>2, <1>3, <1>7, <1>8 DEF Later, SameStatus, RootsKept, StaysSettled
<1>10. Graph'
  <2>1. ASSUME NEW i \in DOMAIN v8', NEW y \in v8'[i].requests
        PROVE  y[1] \in files'[v8'[i].path].deps /\ y[2] \in DOMAIN v8' /\ v8'[y[2]].path = y[1]
    <3>1. CASE i = parent /\ y = <<path, d>> BY <1>1, <1>7, <1>8, <3>1
    <3>2. CASE i \in DOMAIN v8 /\ y \in v8[i].requests
      <4>1. y[1] \in files[v8[i].path].deps /\ y[2] \in DOMAIN v8 /\ v8[y[2]].path = y[1]
        BY <3>2 DEF Graph
      <4> QED BY <1>1, <1>7, <1>8, <3>2, <4>1
    <3>3. CASE i \in DOMAIN mods \ DOMAIN v8 BY <1>1, <1>7, <2>1, <3>3
    <3> QED BY <1>1, <1>5, <1>7, <2>1, <3>1, <3>2, <3>3
  <2>2. ASSUME NEW i \in DOMAIN v8', v8'[i].status = "awaiting"
        PROVE  files'[v8'[i].path].kind = "awaits" /\ Root(i) \in DOMAIN promise'
    <3>1. mods[i].status = "awaiting" BY <1>7, <1>8, <2>2
    <3>2. i \in DOMAIN v8 BY <1>1, <1>7, <3>1
    <3> QED BY <1>1, <1>7, <1>8, <3>1, <3>2 DEF Graph
  <2> QED BY <2>1, <2>2 DEF Graph, Root
<1> QED BY <1>4, <1>7, <1>8, <1>9, <1>10

LEMMA ResolvedOK ==
  ASSUME LInv, Linking, NEW req \in Top.todo, NEW mods, Extends(mods, req[2]),
         NEW d \in DOMAIN mods, mods[d].path = req[2], Resolved(req[1], req[2], d, mods),
         files' = files, imports' = imports, promise' = promise, rejected_promises' = rejected_promises,
         phase' = phase, status' = status, Tables'
  PROVE  LInv'
<1> SUFFICES ASSUME NEW parent, parent = req[1], NEW path, path = req[2] PROVE LInv' OBVIOUS
<1>1. /\ Shape /\ Tables /\ Graph /\ Nesting /\ Bodies /\ Links /\ Settlements /\ Answers /\ PendingExact
      /\ Beginning /\ EntryRuns /\ imports \in Nat
  BY DEF LInv, Shape
<1>2. /\ stack # <<>> /\ Alive /\ phase # "gone" /\ phase # "exit" /\ Top.f \in Loads /\ Top.at = "link"
      /\ DOMAIN stack = 1 .. Len(stack) /\ Len(stack) \in Nat \ {0} /\ Top = stack[Len(stack)]
      /\ Top \in LoadFrames /\ Top.id \in DOMAIN v8
      /\ Top.id \in Top.seen /\ Top.seen \subseteq DOMAIN v8
      /\ \A i \in Top.seen : v8[i].status = "unlinked"
      /\ \A x \in Top.todo : x[1] \in Top.seen /\ x[2] \in files[v8[x[1]].path].deps
      /\ Root(Top.id) \notin DOMAIN promise /\ \A q \in DOMAIN promise : promise[q].of # Top.id
  BY <1>1, LinkFacts
<1>3. parent \in DOMAIN v8 /\ path \in files[v8[parent].path].deps BY <1>2
<1>4. v8' = [mods EXCEPT ![parent].requests = @ \cup {<<path, d>>}] BY DEF Resolved
<1>5. /\ mods \in Seq(Modules) /\ DOMAIN v8 \subseteq DOMAIN mods
      /\ \A i \in DOMAIN v8 : mods[i] = v8[i]
      /\ \A i \in DOMAIN mods \ DOMAIN v8 :
           mods[i].requests = {} /\ mods[i].status = "unlinked" /\ mods[i].path = path
  BY DEF Extends
<1>6. /\ v8' \in Seq(Modules) /\ DOMAIN v8' = DOMAIN mods /\ Len(v8') = Len(mods)
      /\ Later /\ SameStatus /\ RootsKept /\ StaysSettled /\ Graph'
      /\ \A i \in DOMAIN mods : v8'[i].path = mods[i].path /\ v8'[i].status = mods[i].status
      /\ path \in Paths
  <2>1. Extends(mods, path) /\ mods[d].path = path OBVIOUS
  <2> QED BY <1>1, <1>3, <1>4, <2>1, ResolvedModules
<1> DEFINE new == IF mods[d].status = "unlinked" THEN {d} \ Top.seen ELSE {}
<1> DEFINE y == [Top EXCEPT !.todo = (@ \ {<<parent, path>>}) \cup UNION {Requests(n, mods[n].path) : n \in new},
                            !.seen = @ \cup new]
<1>7. stack' = Append(Popped, y) BY DEF Resolved
<1>8. /\ new \subseteq DOMAIN mods /\ \A n \in new : mods[n].status = "unlinked" /\ n \in Nat
  BY <1>6 DEF Later
<1> HIDE DEF new
<1>9. \A x \in UNION {Requests(n, mods[n].path) : n \in new} :
        x \in Nat \X Paths /\ x[1] \in new /\ x[2] \in files[mods[x[1]].path].deps
  <2> SUFFICES ASSUME NEW n \in new, NEW x \in Requests(n, mods[n].path)
               PROVE  x \in Nat \X Paths /\ x[1] \in new /\ x[2] \in files[mods[x[1]].path].deps
    OBVIOUS
  <2>1. x[1] = n /\ x[2] \in files[mods[n].path].deps /\ x = <<x[1], x[2]>> BY DEF Requests
  <2>2. mods[n].path \in Paths
    <3>1. mods[n] \in Modules BY <1>5, <1>8, ElementOfSeq, LenProperties
    <3> QED BY <3>1 DEF Modules
  <2>3. x[2] \in Paths BY <1>1, <2>1, <2>2, Disk DEF Shape
  <2> QED BY <1>8, <2>1, <2>3
<1>10. /\ y \in LoadFrames /\ y.f = Top.f /\ y.id = Top.id /\ y.at = "link" /\ y.p = Top.p
       /\ y.seen = Top.seen \cup new
       /\ y.todo = (Top.todo \ {<<parent, path>>}) \cup UNION {Requests(n, mods[n].path) : n \in new}
  <2>1. Top.todo \subseteq Nat \X Paths /\ Top.seen \subseteq Nat BY <1>2 DEF LoadFrames
  <2> QED BY <1>2, <1>8, <1>9, <2>1 DEF LoadFrames
<1> HIDE DEF y
<1>11. y \in Frames BY <1>10 DEF Frames
<1>12. /\ stack' \in Seq(Frames) /\ stack' # <<>> /\ Len(stack') = Len(stack) /\ DOMAIN stack' = DOMAIN stack
       /\ stack'[Len(stack)] = y /\ Last(stack') = y
       /\ \A k \in DOMAIN stack : k # Len(stack) => stack'[k] = stack[k]
       /\ Nested(stack', DOMAIN v8', DOMAIN promise', imports') /\ stack'[1].f = stack[1].f
       /\ (stack[1].f = "exec" => stack'[1].id = stack[1].id)
       /\ Running(Popped, v8, DOMAIN promise) /\ Popped \in Seq(Frames)
       /\ (Popped # <<>> => Popped[1].f # "body")
  <2>1. DOMAIN v8 \subseteq DOMAIN v8' /\ DOMAIN promise \subseteq DOMAIN promise'
        /\ (\A q \in DOMAIN promise' : q \in DOMAIN promise \/ q[1] # "import") /\ y.at # "eval"
    BY <1>5, <1>6, <1>10
  <2>2. y.f = Top.f /\ y.id = Top.id /\ y.p = Top.p BY <1>10
  <2>3. Shape /\ Nesting /\ Bodies /\ Links /\ Linking BY <1>1
  <2>4. ASSUME NEW t, t = stack', NEW known, known = DOMAIN v8', NEW made, made = DOMAIN promise'
        PROVE  Retopped(t, y, known, made)
    <3>1. /\ Grown(known, made) /\ t = Append(Popped, y)
          /\ (y.at = "eval" => Root(y.id) \in made)
      BY <1>7, <2>1, <2>4 DEF Grown
    <3> QED BY ONLY <1>11, <2>2, <2>3, <3>1, Retop
  <2>5. Retopped(stack', y, DOMAIN v8', DOMAIN promise') BY <2>4
  <2> QED BY <2>5 DEF Retopped
<1>13. status' = "none" BY <1>1, <1>2 DEF Shape
<1>14. Shape'
  <2>1. phase' \in {"bootstrap", "script", "loop", "exit", "gone"} BY <1>1 DEF Shape
  <2> QED BY <1>1, <1>6, <1>12, <1>13, <2>1, ShapeNext
<1>15. Nesting' /\ Bodies'
  <2>1. Running(Popped, v8', DOMAIN promise')
    <3>1. \A k \in DOMAIN Popped : Popped[k].f = "body" => Popped[k].id \in DOMAIN v8
      <4>1. \A k \in DOMAIN Popped : k \in DOMAIN stack /\ Popped[k] = stack[k] BY <1>1, <1>2, TopFacts
      <4> QED BY <1>1, <4>1 DEF Nesting, Nested
    <3>2. \A k \in DOMAIN Popped : Popped[k].f = "body" =>
            /\ v8'[Popped[k].id].status = v8[Popped[k].id].status
            /\ v8'[Popped[k].id].path = v8[Popped[k].id].path
            /\ Root(Popped[k].id) \in DOMAIN promise' => Root(Popped[k].id) \in DOMAIN promise
      BY <1>5, <1>6, <3>1
    <3> QED BY <1>12, <3>2, RunningKept
  <2>2. y.f # "body" BY <1>2, <1>10 DEF Loads
  <2>3. Running(stack', v8', DOMAIN promise')
    BY <1>7, <1>11, <1>12, <2>1, <2>2, RunningPush
  <2> QED BY <1>12, <2>3, NextCalls
<1>16. Links'
  <2>1. Top' = y BY <1>12 DEF Top
  <2>2. y.id \in y.seen /\ y.seen \subseteq DOMAIN v8' BY <1>2, <1>5, <1>6, <1>8, <1>10
  <2>3. \A i \in y.seen : v8'[i].status = "unlinked" BY SMTT(30), <1>2, <1>5, <1>6, <1>8, <1>10
  <2>4. ASSUME NEW x \in y.todo PROVE x[1] \in y.seen /\ x[2] \in files'[v8'[x[1]].path].deps
    <3>1. CASE x \in Top.todo BY <1>2, <1>5, <1>6, <1>10, <3>1
    <3>2. CASE x \in UNION {Requests(n, mods[n].path) : n \in new}
      <4>1. x[1] \in new /\ x[2] \in files[mods[x[1]].path].deps BY <1>9, <3>2
      <4> QED BY <1>6, <1>8, <1>10, <4>1
    <3> QED BY <1>10, <3>1, <3>2
  <2>5. Root(y.id) \notin DOMAIN promise' /\ \A q \in DOMAIN promise' : promise'[q].of # y.id
    BY <1>2, <1>10
  <2> QED BY <2>1, <2>2, <2>3, <2>4, <2>5 DEF Links, Root
<1>17. Settlements' BY <1>1, <1>6, SettlementsKept
<1>18. Answers' BY <1>1, <1>6, AnswersKept
<1>19. PendingExact' BY <1>1, <1>2, PendingKept
<1>20. Beginning'
  <2>1. \A i \in DOMAIN v8' : i \in DOMAIN v8 \/ \E j \in DOMAIN v8 : v8'[i].path \in files[v8[j].path].deps
    BY <1>3, <1>5, <1>6
  <2> QED BY <1>1, <1>2, <1>6, <1>12, <2>1, BeginningKept
<1>21. EntryRuns'
  <2>1. ImportsKept
    <3> SUFFICES ASSUME NEW k \in DOMAIN stack', stack'[k].f = "import"
                 PROVE  \E j \in DOMAIN stack : stack[j].f = "import" /\ stack'[k].id = stack[j].id
      BY DEF ImportsKept
    <3>1. k \in DOMAIN stack /\ stack[k].f = stack'[k].f /\ stack[k].id = stack'[k].id
      BY <1>2, <1>10, <1>12
    <3> QED BY <3>1
  <2>2. \A i \in DOMAIN v8 : v8'[i].status = v8[i].status BY <1>6 DEF SameStatus
  <2> QED BY <1>1, <1>6, <2>1, <2>2, EntryRunsKept
<1>22. ExitStatus' /\ Cleaned' BY <1>2, <1>13, NoExit
<1> QED BY <1>6, <1>14, <1>15, <1>16, <1>17, <1>18, <1>19, <1>20, <1>21, <1>22 DEF LInv

LEMMA loadOK == ASSUME LInv, load PROVE LInv'
<1>1. Linking /\ files' = files /\ imports' = imports BY DEF load, counts
<1>2. PICK req \in Top.todo :
     \/ /\ req[1] \notin DOMAIN modules
        /\ LinkFails /\ UNCHANGED loaded
     \/ /\ req[1] \in DOMAIN modules
        /\ \E d \in fromCache(req[2]) : Resolved(req[1], req[2], d, v8)
        /\ UNCHANGED <<loaded, errorVars, phase, status>>
     \/ /\ req[1] \in DOMAIN modules /\ fromCache(req[2]) = {} /\ CanInit(req[2])
        /\ Compiled(req[2]) /\ Resolved(req[1], req[2], NextId, Append(v8, Unlinked(req[2])))
        /\ UNCHANGED <<errorVars, phase, status>>
     \/ /\ req[1] \in DOMAIN modules /\ fromCache(req[2]) = {} /\ ~CanInit(req[2])
        /\ Destroyed(req[2]) /\ LinkFails
  BY DEF load
<1>3. /\ Shape /\ Tables /\ Graph /\ Nesting /\ Links /\ Settlements /\ phase # "gone" BY <1>1, LinkFacts DEF LInv
<1>4. req[1] \in DOMAIN v8 /\ req[2] \in files[v8[req[1]].path].deps /\ req[2] \in Paths
  <2>1. req[1] \in DOMAIN v8 /\ req[2] \in files[v8[req[1]].path].deps BY <1>1, <1>3, LinkFacts
  <2>2. v8[req[1]].path \in Paths BY <1>3, <2>1, V8Type
  <2> QED BY <1>3, <2>1, <2>2, Disk DEF Shape
<1>5. CASE LinkFails /\ UNCHANGED loaded
  <2>1. TablesAfter BY <1>5 DEF TablesAfter, loaded
  <2> QED BY <1>1, <1>5, <2>1, LinkFailsOK
<1>6. CASE /\ \E d \in fromCache(req[2]) : Resolved(req[1], req[2], d, v8)
           /\ UNCHANGED <<loaded, errorVars, phase, status>>
  <2>1. PICK d \in fromCache(req[2]) : Resolved(req[1], req[2], d, v8) BY <1>6
  <2>2. d \in DOMAIN v8 /\ v8[d].path = req[2] BY <1>3, <1>4, CacheIs
  <2>3. Extends(v8, req[2])
    <3>1. v8 \in Seq(Modules) /\ Len(v8) \in Nat BY <1>3, V8Type DEF Shape
    <3> QED BY <3>1 DEF Extends
  <2>4. /\ modules' = modules /\ resolve_cache' = resolve_cache /\ promise' = promise
        /\ rejected_promises' = rejected_promises /\ phase' = phase /\ status' = status
    BY <1>6 DEF loaded, errorVars
  <2>5. Tables'
    <3>1. v8' = [v8 EXCEPT ![req[1]].requests = @ \cup {<<req[2], d>>}] BY <2>1 DEF Resolved
    <3>2. /\ DOMAIN v8' = DOMAIN v8 /\ Len(v8') = Len(v8)
          /\ \A i \in DOMAIN v8 : v8'[i].path = v8[i].path
      BY <1>1, <1>3, <1>4, <2>2, <2>3, <2>4, <3>1, ResolvedModules
    <3>3. SamePaths BY <3>2 DEF SamePaths
    <3> QED BY <1>1, <1>3, <2>4, <3>3, TablesKept
  <2> QED BY <1>1, <2>1, <2>2, <2>3, <2>4, <2>5, ResolvedOK
<1>7. CASE /\ fromCache(req[2]) = {} /\ CanInit(req[2])
           /\ Compiled(req[2]) /\ Resolved(req[1], req[2], NextId, Append(v8, Unlinked(req[2])))
           /\ UNCHANGED <<errorVars, phase, status>>
  <2> SUFFICES ASSUME NEW mods, mods = Append(v8, Unlinked(req[2])), NEW id, id = NextId
               PROVE  LInv'
    OBVIOUS
  <2>1. /\ mods \in Seq(Modules) /\ Len(mods) = Len(v8) + 1 /\ Len(v8) \in Nat
        /\ DOMAIN mods = 1 .. Len(v8) + 1 /\ DOMAIN v8 = 1 .. Len(v8)
        /\ mods[Len(v8) + 1] = Unlinked(req[2])
        /\ \A k \in 1 .. Len(v8) : mods[k] = v8[k]
    <3>1. Unlinked(req[2]) \in Modules BY <1>4 DEF Unlinked, Modules, Statuses
    <3>2. v8 \in Seq(Modules) BY <1>3 DEF Shape
    <3> QED BY <3>1, <3>2, AppendProperties
  <2>2. id = Len(v8) + 1 /\ id \in DOMAIN mods /\ id \notin DOMAIN v8 BY <2>1 DEF NextId
  <2>3. mods[id].path = req[2] /\ mods[id].status = "unlinked" /\ mods[id].requests = {}
    BY <2>1, <2>2 DEF Unlinked
  <2>4. Extends(mods, req[2]) BY <2>1, <2>2, <2>3 DEF Extends
  <2>5. promise' = promise /\ rejected_promises' = rejected_promises /\ phase' = phase /\ status' = status
    BY <1>7 DEF errorVars
  <2>6. Resolved(req[1], req[2], id, mods) BY <1>7
  <2>7. Tables'
    <3>1. v8' = [mods EXCEPT ![req[1]].requests = @ \cup {<<req[2], id>>}] BY <2>6 DEF Resolved
    <3>2. /\ DOMAIN v8' = DOMAIN mods /\ Len(v8') = Len(mods)
          /\ \A i \in DOMAIN mods : v8'[i].path = mods[i].path /\ v8'[i].status = mods[i].status
      <4> SUFFICES ASSUME NEW parent, parent = req[1], NEW path, path = req[2]
                   PROVE  /\ DOMAIN v8' = DOMAIN mods /\ Len(v8') = Len(mods)
                          /\ \A i \in DOMAIN mods :
                               v8'[i].path = mods[i].path /\ v8'[i].status = mods[i].status
        OBVIOUS
      <4>1. /\ Shape /\ Graph /\ files' = files /\ promise' = promise
            /\ parent \in DOMAIN v8 /\ path \in files[v8[parent].path].deps /\ Extends(mods, path)
            /\ id \in DOMAIN mods /\ mods[id].path = path
            /\ v8' = [mods EXCEPT ![parent].requests = @ \cup {<<path, id>>}]
        BY <1>1, <1>3, <1>4, <2>2, <2>3, <2>4, <2>5, <3>1
      <4> QED BY ONLY <4>1, ResolvedModules
    <3>3. NewModule(req[2]) BY <2>1, <2>2, <2>3, <3>2 DEF NewModule
    <3> QED BY <1>1, <1>3, <1>4, <1>7, <3>3, TablesCompiled
  <2> QED BY <1>1, <2>2, <2>3, <2>4, <2>5, <2>6, <2>7, ResolvedOK
<1>8. CASE ~CanInit(req[2]) /\ Destroyed(req[2]) /\ LinkFails
  <2>1. TablesAfter BY <1>4, <1>8 DEF TablesAfter
  <2> QED BY <1>1, <1>8, <2>1, LinkFailsOK
<1> QED BY <1>2, <1>5, <1>6, <1>7, <1>8

-----------------------------------------------------------------------------
(* Evaluation begins. *)
LEMMA EvaluateModules ==
  ASSUME Shape, NEW id \in DOMAIN v8, NEW seen,
         v8' = [i \in DOMAIN v8 |->
                  IF i = id THEN [v8[i] EXCEPT !.status = "evaluating"]
                  ELSE IF i \in seen THEN [v8[i] EXCEPT !.status = "linked"] ELSE v8[i]]
  PROVE  /\ v8' \in Seq(Modules) /\ DOMAIN v8' = DOMAIN v8 /\ Later /\ SamePaths
         /\ v8'[id].status = "evaluating"
         /\ \A i \in DOMAIN v8 : /\ v8'[i].requests = v8[i].requests
                                 /\ i # id /\ i \in seen => v8'[i].status = "linked"
                                 /\ i # id /\ i \notin seen => v8'[i] = v8[i]
<1>1. Len(v8) \in Nat /\ DOMAIN v8 = 1 .. Len(v8) /\ \A i \in DOMAIN v8 : v8[i] \in Modules
  BY V8Type
<1>2. ASSUME NEW i \in DOMAIN v8, NEW s \in {"evaluating", "linked"}
      PROVE  [v8[i] EXCEPT !.status = s] \in Modules
  BY <1>1 DEF Modules, Statuses
<1>3. DOMAIN v8' = 1 .. Len(v8) /\ \A i \in 1 .. Len(v8) : v8'[i] \in Modules
  BY <1>1, <1>2
<1>4. v8' = [i \in 1 .. Len(v8) |-> v8'[i]] BY <1>1
<1>5. v8' \in [1 .. Len(v8) -> Modules] BY <1>3, <1>4
<1>6. v8' \in Seq(Modules) /\ Len(v8') = Len(v8) BY ONLY <1>1, <1>3, <1>5, LenProperties
<1>7. /\ v8'[id].status = "evaluating"
      /\ \A i \in DOMAIN v8 : /\ v8'[i].requests = v8[i].requests /\ v8'[i].path = v8[i].path
                              /\ i # id /\ i \in seen => v8'[i].status = "linked"
                              /\ i # id /\ i \notin seen => v8'[i] = v8[i]
  BY <1>1 DEF Modules
<1>8. SamePaths BY <1>1, <1>3, <1>6, <1>7 DEF SamePaths
<1>9. Later BY ONLY <1>1, <1>3, <1>6, <1>7 DEF Later
<1> QED BY <1>1, <1>3, <1>6, <1>7, <1>8, <1>9

LEMMA EvaluateOK == ASSUME LInv, Evaluate PROVE LInv'
<1>1. /\ Linking /\ rejected_promises' = rejected_promises /\ files' = files /\ modules' = modules
      /\ resolve_cache' = resolve_cache /\ imports' = imports /\ phase' = phase /\ status' = status
  BY DEF Evaluate, loaded, counts
<1>2. /\ Shape /\ Tables /\ Graph /\ Nesting /\ Bodies /\ Links /\ Settlements /\ Answers /\ PendingExact
      /\ Beginning /\ EntryRuns /\ imports \in Nat
  BY DEF LInv, Shape
<1>3. /\ stack # <<>> /\ Alive /\ phase # "gone" /\ phase # "exit" /\ Top.f \in Loads
      /\ Top = stack[Len(stack)] /\ Len(stack) \in DOMAIN stack
      /\ DOMAIN stack = 1 .. Len(stack) /\ Len(stack) \in Nat \ {0}
      /\ Top \in LoadFrames /\ Top.id \in DOMAIN v8
      /\ Top.id \in Top.seen /\ Top.seen \subseteq DOMAIN v8
      /\ \A i \in Top.seen : v8[i].status = "unlinked"
      /\ Root(Top.id) \notin DOMAIN promise /\ \A q \in DOMAIN promise : promise[q].of # Top.id
  BY <1>1, <1>2, LinkFacts
<1> SUFFICES ASSUME NEW id, id = Top.id, NEW seen, seen = Top.seen PROVE LInv' OBVIOUS
<1> DEFINE p == Root(id)
<1> DEFINE r == [state |-> "pending", handled |-> FALSE, of |-> id]
<1> SUFFICES ASSUME NEW y, y = [Top EXCEPT !.at = "eval"], NEW x, x = BodyFrame(id) PROVE LInv' OBVIOUS
<1>4. /\ v8' \in Seq(Modules) /\ DOMAIN v8' = DOMAIN v8 /\ Later /\ SamePaths
      /\ v8'[id].status = "evaluating"
      /\ \A i \in DOMAIN v8 : /\ v8'[i].requests = v8[i].requests
                              /\ i # id /\ i \in seen => v8'[i].status = "linked"
                              /\ i # id /\ i \notin seen => v8'[i] = v8[i]
  <2>1. v8' = [i \in DOMAIN v8 |->
                 IF i = id THEN [v8[i] EXCEPT !.status = "evaluating"]
                 ELSE IF i \in seen THEN [v8[i] EXCEPT !.status = "linked"] ELSE v8[i]]
    BY DEF Evaluate
  <2>2. Shape /\ id \in DOMAIN v8 BY <1>2, <1>3
  <2> QED BY ONLY <2>1, <2>2, EvaluateModules
<1>5. promise' = Put(promise, p, r) /\ stack' = Append(Append(Popped, y), x)
  BY DEF Evaluate, Settled, Root
<1>6. /\ y \in Frames /\ y.f = Top.f /\ y.id = id /\ y.p = Top.p /\ y.at = "eval"
  BY <1>3 DEF LoadFrames, Frames
<1>7. x \in Frames /\ x.f = "body" /\ x.id = id
  <2>1. id \in Nat BY <1>2, <1>3, V8Type
  <2> QED BY <2>1 DEF BodyFrame, BodyFrames, Frames
<1>8. p[1] = "module" /\ p \notin Own /\ p \in {"module"} \X DOMAIN v8' /\ (\A i : p = Root(i) => i = id)
      /\ p \notin DOMAIN promise
  BY <1>3, <1>4 DEF Own, Root
<1>9. r \in PromiseRecords' /\ r.state = "pending" /\ r.handled = FALSE /\ r.of = id
  <2>1. id \in 0 .. Len(v8') BY <1>2, <1>3, <1>4, V8Type DEF Later
  <2> QED BY <2>1 DEF PromiseRecords, States
<1>10. \A i : Root(i) = p <=> i = id BY DEF Root
<1> HIDE DEF p, r
<1>11. DOMAIN promise' = {p} \cup DOMAIN promise BY <1>5 DEF Put
<1>12. \A i \in DOMAIN v8 : v8[i].status # "unlinked" => i # id /\ i \notin seen /\ v8'[i] = v8[i]
  BY <1>3, <1>4
<1>13. StaysSettled BY <1>12 DEF StaysSettled
<1>14. Graph'
  <2>1. \A i \in DOMAIN v8 : v8'[i].status = "awaiting" => v8[i].status = "awaiting"
    <3>1. ASSUME NEW i \in DOMAIN v8, v8'[i].status = "awaiting" PROVE v8[i].status = "awaiting"
      <4>1. i # id /\ i \notin seen BY <1>4, <3>1
      <4> QED BY <1>4, <3>1, <4>1
    <3> QED BY <3>1
  <2> QED BY <1>1, <1>2, <1>4, <1>11, <2>1, GraphKept
<1>15. Settlements'
  <2>1. \A i \in DOMAIN v8 : Root(i) \in DOMAIN promise /\ Root(i) # p => v8'[i].status = v8[i].status
    <3>1. \A i \in DOMAIN v8 : Root(i) \in DOMAIN promise => v8[i].status # "unlinked"
      BY <1>2 DEF Settlements
    <3> QED BY <1>12, <3>1
  <2>2. \A i \in DOMAIN v8' : p = Root(i) =>
          /\ r.of = i /\ ~r.handled /\ v8'[i].status \notin {"unlinked", "linked"}
          /\ v8'[i].status = "errored" <=> r.state = "rejected"
    BY <1>4, <1>8, <1>9
  <2> QED BY <1>1, <1>2, <1>4, <1>5, <1>8, <1>9, <2>1, <2>2, SettlementsPut
<1>16. Answers'
  <2>1. \A i : p = Root(i) => i \in DOMAIN v8 BY <1>3, <1>8
  <2> QED BY SMTT(30), <1>1, <1>2, <1>3, <1>4, <1>5, <1>8, <1>13, <2>1, AnswersPut
<1>17. PendingExact'
  <2>1. p \notin rejected_promises BY <1>2, <1>3, <1>8 DEF PendingExact
  <2>2. \A q \in DOMAIN promise : q # p => (Rethrown(q)' <=> Rethrown(q)) BY <1>5, <1>8, RethrownPut
  <2>3. rejected_promises' = IF r.state = "rejected" /\ ~r.handled /\ ~Rethrown(p)'
                              THEN rejected_promises \cup {p} ELSE rejected_promises \ {p}
    BY <1>1, <1>9, <2>1
  <2> QED BY <1>2, <1>3, <1>5, <2>2, <2>3, PendingPutOne
<1>18. Tables' BY <1>1, <1>2, <1>4, TablesKept
<1>19. status' = "none" BY <1>1, <1>2, <1>3 DEF Shape
<1> SUFFICES ASSUME NEW t, t = Append(Popped, y) PROVE LInv' OBVIOUS
<1>20. Retopped(t, y, DOMAIN v8', DOMAIN promise')
  <2> SUFFICES ASSUME NEW known, known = DOMAIN v8', NEW made, made = DOMAIN promise'
               PROVE  Retopped(t, y, known, made)
    OBVIOUS
  <2>1. Grown(known, made) /\ (y.at = "eval" => Root(y.id) \in made)
    BY <1>4, <1>6, <1>8, <1>10, <1>11 DEF Grown
  <2>2. y \in Frames /\ y.f = Top.f /\ y.id = Top.id /\ y.p = Top.p BY <1>6
  <2>3. Shape /\ Nesting /\ Bodies /\ Links /\ Linking BY <1>1, <1>2
  <2> QED BY ONLY <2>1, <2>2, <2>3, t = Append(Popped, y), Retop
<1>21. /\ t \in Seq(Frames) /\ t # <<>> /\ Len(t) = Len(stack) /\ DOMAIN t = DOMAIN stack
       /\ t[Len(stack)] = y /\ Last(t) = y /\ \A k \in DOMAIN stack : k # Len(stack) => t[k] = stack[k]
       /\ Nested(t, DOMAIN v8', DOMAIN promise', imports) /\ t[1].f = stack[1].f
       /\ t[1].f # "body" /\ (stack[1].f = "exec" => t[1].id = stack[1].id)
       /\ Evaluating(Popped) /\ Running(Popped, v8, DOMAIN promise) /\ Popped \in Seq(Frames)
       /\ (Popped # <<>> => Popped[1].f # "body")
  BY <1>20 DEF Retopped
<1>22. stack' = Append(t, x) BY <1>5
<1>23. /\ stack' \in Seq(Frames) /\ stack' # <<>> /\ Len(stack') = Len(stack) + 1
       /\ DOMAIN stack' = 1 .. Len(stack) + 1 /\ stack'[Len(stack) + 1] = x /\ Last(stack') = x
       /\ \A k \in 1 .. Len(stack) : stack'[k] = t[k]
  <2>1. t \in Seq(Frames) /\ Len(t) = Len(stack) BY <1>21
  <2> QED BY ONLY <1>7, <1>22, <2>1, AppendProperties DEF Last
<1>24. Shape'
  <2>1. phase' \in {"bootstrap", "script", "loop", "exit", "gone"} BY <1>1, <1>2 DEF Shape
  <2> QED BY <1>1, <1>2, <1>4, <1>19, <1>23, <2>1, ShapeNext
<1>25. Nesting' /\ Bodies'
  <2>1. Evaluating(t)
    <3>1. \A k \in DOMAIN stack : k # Len(stack) => k \in DOMAIN Popped /\ Popped[k] = stack[k]
      BY <1>2, <1>3, TopFacts
    <3> QED BY <1>6, <1>21, <3>1 DEF Evaluating
  <2>2. Nested(t, DOMAIN v8', DOMAIN promise', imports') BY <1>1, <1>21
  <2>3. Callable(t, x, DOMAIN v8', DOMAIN promise', imports')
    BY <1>3, <1>4, <1>6, <1>7, <1>21 DEF Callable, Loads
  <2>4. Nested(stack', DOMAIN v8', DOMAIN promise', imports')
    BY <1>7, <1>21, <1>22, <2>1, <2>2, <2>3, NestedPush
  <2>5. ASSUME NEW k \in DOMAIN Popped, Popped[k].f = "body"
        PROVE  /\ Popped[k].id # id /\ v8'[Popped[k].id] = v8[Popped[k].id]
               /\ Root(Popped[k].id) \in DOMAIN promise' => Root(Popped[k].id) \in DOMAIN promise
    <3>1. k \in DOMAIN stack /\ Popped[k] = stack[k] BY <1>2, <1>3, TopFacts
    <3>2. Popped[k].id \in DOMAIN v8 /\ v8[Popped[k].id].status = "evaluating"
      BY <1>2, <2>5, <3>1 DEF Bodies, Running, Nesting, Nested
    <3>3. Popped[k].id # id /\ v8'[Popped[k].id] = v8[Popped[k].id] BY <1>12, <3>2
    <3> QED BY <1>10, <1>11, <3>3
  <2>6. Running(Popped, v8', DOMAIN promise')
    <3>1. \A k \in DOMAIN Popped : Popped[k].f = "body" =>
            /\ v8'[Popped[k].id].status = v8[Popped[k].id].status
            /\ v8'[Popped[k].id].path = v8[Popped[k].id].path
            /\ Root(Popped[k].id) \in DOMAIN promise' => Root(Popped[k].id) \in DOMAIN promise
      BY <2>5
    <3> QED BY <1>21, <3>1, RunningKept
  <2>7. Running(t, v8', DOMAIN promise')
    <3>1. y.f # "body" BY <1>3, <1>6 DEF Loads
    <3> QED BY <1>6, <1>21, <2>6, <3>1, RunningPush
  <2>8. Running(stack', v8', DOMAIN promise')
    <3>1. \A k \in DOMAIN t : t[k].f = "body" => t[k].id # id
      <4>1. y.f # "body" BY <1>3, <1>6 DEF Loads
      <4>2. \A k \in DOMAIN stack : k # Len(stack) => k \in DOMAIN Popped /\ Popped[k] = stack[k]
        BY <1>2, <1>3, TopFacts
      <4> QED BY <1>21, <2>5, <4>1, <4>2
    <3>2. v8'[x.id].status = "evaluating" /\ Last(t).f \in Loads BY <1>3, <1>4, <1>6, <1>7, <1>21
    <3>3. t \in Seq(Frames) /\ x \in Frames /\ t # <<>> /\ t[1].f # "body" /\ x.id = id BY <1>7, <1>21
    <3>4. x.f = "body" =>
            /\ t # <<>> /\ v8'[x.id].status = "evaluating"
            /\ files[v8'[x.id].path].kind = "awaits" \/ Root(x.id) \in DOMAIN promise' => Last(t).f \in Loads
            /\ \A k \in DOMAIN t : t[k].f = "body" => t[k].id # x.id
      BY <3>1, <3>2, <3>3
    <3> QED BY ONLY <1>22, <2>7, <3>3, <3>4, RunningPush
  <2> QED BY <1>1, <2>4, <2>8, NextCalls
<1>26. Links' BY <1>7, <1>23 DEF Links, Top, Loads
<1>27. Beginning'
  <2>1. stack'[1] = t[1] BY SMTT(30), <1>3, <1>23
  <2> QED BY <1>1, <1>2, <1>3, <1>4, <1>21, <1>23, <2>1, BeginningKept
<1>28. EntryRuns'
  <2>1. ImportsKept
    <3> SUFFICES ASSUME NEW k \in DOMAIN stack', stack'[k].f = "import"
                 PROVE  \E j \in DOMAIN stack : stack[j].f = "import" /\ stack'[k].id = stack[j].id
      BY DEF ImportsKept
    <3>1. k # Len(stack) + 1 BY <1>7, <1>23
    <3>2. k \in 1 .. Len(stack) BY <1>3, <1>23, <3>1
    <3>3. k \in DOMAIN stack /\ stack'[k] = t[k] BY <1>3, <1>23, <3>2
    <3>4. CASE k = Len(stack)
      <4>1. stack'[k] = y /\ Top = stack[k] BY <1>3, <1>21, <3>3, <3>4
      <4>2. stack[k].f = "import" /\ stack'[k].id = stack[k].id
        BY <1>6, <4>1
      <4> QED BY ONLY <3>3, <4>2
    <3>5. CASE k # Len(stack) BY <1>21, <3>3, <3>5
    <3> QED BY <3>4, <3>5
  <2>2. \A i \in DOMAIN v8 : v8[i].status \in {"evaluated", "awaiting", "errored"} => v8'[i].status = v8[i].status
    BY <1>12
  <2> QED BY <1>1, <1>2, <1>4, <1>11, <2>1, <2>2, EntryRunsKept
<1>29. ExitStatus' /\ Cleaned' BY <1>1, <1>3, <1>19, NoExit
<1> QED BY <1>14, <1>15, <1>16, <1>17, <1>18, <1>24, <1>25, <1>26, <1>27, <1>28, <1>29 DEF LInv

-----------------------------------------------------------------------------
(* std:bootstrap and the entry script begin. *)
LEMMA ExecOK == ASSUME LInv, Exec PROVE LInv'
<1> SUFFICES ASSUME NEW path, path = IF phase = "bootstrap" THEN Bootstrap ELSE Entry PROVE LInv' OBVIOUS
<1>1. /\ stack = <<>> /\ phase \in {"bootstrap", "script"} /\ promise' = promise
      /\ rejected_promises' = rejected_promises /\ files' = files /\ imports' = imports
  BY DEF Exec, Busy, Alive, errorVars, counts
<1>2. /\ Shape /\ Tables /\ Graph /\ Settlements /\ Answers /\ PendingExact
      /\ Beginning /\ EntryRuns /\ imports \in Nat
  BY DEF LInv, Shape
<1>3. path \in Paths BY <1>2, Disk DEF Shape
<1>4. PICK std \in SUBSET Paths : Standard(files, std) /\ \A i \in DOMAIN v8 : v8[i].path \in std
  BY <1>1, <1>2 DEF Beginning
<1>5. fromCache(path) = {}
  <2>1. CASE phase = "bootstrap"
    <3>1. v8 = <<>> BY <1>1, <1>2, <2>1 DEF Beginning
    <3>2. DOMAIN v8 = {} BY <3>1
    <3> QED BY <1>1, <1>2, <1>3, <3>2, CacheIs
  <2>2. CASE phase = "script"
    <3>1. \A i \in DOMAIN v8 : v8[i].path # path BY <1>4, <2>2 DEF Standard
    <3> QED BY <1>1, <1>2, <1>3, <3>1, CacheIs
  <2> QED BY <1>1, <2>1, <2>2
<1>6. CASE CanInit(path)
  <2>1. /\ v8' = Append(v8, Unlinked(path)) /\ Compiled(path)
        /\ stack' = <<LoadFrame("exec", NextId, path, <<>>)>> /\ phase' = phase /\ status' = status
    BY <1>6 DEF Exec
  <2>2. /\ v8' \in Seq(Modules) /\ NewModule(path) /\ Later /\ SameStatus /\ RootsKept /\ StaysSettled
        /\ NextId \in DOMAIN v8' /\ NextId \notin DOMAIN v8 /\ NextId \in Nat
        /\ v8'[NextId] = Unlinked(path) /\ v8'[NextId].path = path
        /\ DOMAIN v8' = DOMAIN v8 \cup {NextId}
        /\ Root(NextId) \notin DOMAIN promise /\ \A q \in DOMAIN promise : promise[q].of # NextId
    BY <1>2, <1>3, <2>1, Compiles
  <2> SUFFICES ASSUME NEW id, id = NextId, NEW x, x = LoadFrame("exec", id, path, <<>>) PROVE LInv'
    OBVIOUS
  <2>3. /\ x \in Frames /\ x.f = "exec" /\ x.id = id /\ x.at = "link"
        /\ x.seen = {id} /\ x.todo = {id} \X files[path].deps
    <3>1. "exec" \in Loads /\ files \in FileSystems /\ <<>> \in ImportKeys \cup {<<>>} /\ id \in Nat
      BY <1>2, <2>2 DEF Shape, Loads
    <3>2. Starting(LoadFrame("exec", id, path, <<>>), "exec", id, path, <<>>)
      BY ONLY <1>3, <3>1, LoadFrameType
    <3>3. Starting(x, "exec", id, path, <<>>) BY <3>2
    <3> QED BY <3>3 DEF Starting
  <2>4. stack' = <<x>> BY <2>1
  <2>5. /\ stack' \in Seq(Frames) /\ Len(stack') = 1 /\ DOMAIN stack' = {1}
        /\ stack'[1] = x /\ stack' # <<>> /\ Last(stack') = x
    BY ONLY <2>3, <2>4 DEF Last
  <2>6. status' = "none" BY <1>1, <1>2, <2>1 DEF Shape, Alive
  <2>7. Shape'
    <3>1. phase' \in {"bootstrap", "script", "loop", "exit", "gone"} BY <1>1, <2>1
    <3> QED BY <1>1, <1>2, <2>2, <2>5, <2>6, <3>1, ShapeNext
  <2>8. Tables' BY <1>1, <1>2, <1>3, <1>5, <1>6, <2>1, <2>2, TablesCompiled
  <2>9. Graph'
    <3>1. \A i \in DOMAIN v8' : i \notin DOMAIN v8 => v8'[i].requests = {} /\ v8'[i].status = "unlinked"
      BY <2>2 DEF Unlinked
    <3>2. \A i \in DOMAIN v8 : v8'[i] = v8[i] BY <1>2, <1>3, <2>1, Compiles
    <3> QED BY <1>1, <1>2, <2>2, <3>1, <3>2, GraphKept
  <2>10. Nesting' /\ Bodies'
    <3>1. Nested(stack', DOMAIN v8', DOMAIN promise', imports') BY <2>2, <2>3, <2>5 DEF Nested
    <3>2. Running(stack', v8', DOMAIN promise') BY <2>3, <2>5 DEF Running
    <3> QED BY <1>1, <3>1, <3>2, NextCalls
  <2>11. Links'
    <3>1. Top' = x BY <2>5 DEF Top
    <3>2. v8'[id].status = "unlinked" BY <2>2 DEF Unlinked
    <3>3. \A z \in x.todo : z[1] \in x.seen /\ z[2] \in files'[v8'[z[1]].path].deps BY <1>1, <2>2, <2>3
    <3>4. Root(x.id) \notin DOMAIN promise' /\ \A q \in DOMAIN promise' : promise'[q].of # x.id
      BY <1>1, <2>2, <2>3
    <3> QED BY <2>2, <2>3, <3>1, <3>2, <3>3, <3>4 DEF Links, Root
  <2>12. Settlements' BY <1>1, <1>2, <2>2, SettlementsKept
  <2>13. Answers' BY <1>1, <1>2, <2>2, AnswersKept
  <2>14. PendingExact' BY <1>1, <1>2, PendingKept
  <2>15. Beginning'
    <3>1. Paths' = Paths /\ \A s : Standard(files, s)' = Standard(files, s) BY <1>1 DEF Paths, Standard
    <3>2. ASSUME phase = "bootstrap"
          PROVE  \E s \in SUBSET Paths : Standard(files, s) /\ \A i \in DOMAIN v8' : v8'[i].path \in s
      <4>1. v8'[id].path \in std BY <1>4, <2>2, <3>2 DEF Standard
      <4>2. \A i \in DOMAIN v8' : v8'[i].path \in std BY <1>4, <2>2, <4>1 DEF Later
      <4> QED BY <1>4, <4>2
    <3>3. phase = "script" => v8'[stack'[1].id].path = Entry BY <2>2, <2>3, <2>5
    <3> QED BY <1>1, <2>1, <2>3, <2>5, <3>1, <3>2, <3>3 DEF Beginning
  <2>16. EntryRuns' BY <1>1, <2>1, <2>3, <2>5 DEF EntryRuns
  <2>17. ExitStatus' /\ Cleaned' BY <1>1, <2>1, <2>6, NoExit
  <2> QED BY <2>7, <2>8, <2>9, <2>10, <2>11, <2>12, <2>13, <2>14, <2>15, <2>16, <2>17 DEF LInv
<1>7. CASE ~CanInit(path)
  <2>1. Destroyed(path) /\ Raise("critical") /\ v8' = v8 BY <1>7 DEF Exec
  <2>2. v8' \in Seq(Modules) BY <1>2, <2>1 DEF Shape
  <2>3. Later /\ SameStatus /\ SamePaths /\ RootsKept /\ StaysSettled BY <1>2, <2>1, SameV8
  <2>4. Shape' /\ Nesting' /\ Bodies' /\ Links' /\ Beginning' /\ EntryRuns' /\ ExitStatus' /\ Cleaned'
    BY <1>1, <2>1, <2>2, Raised
  <2>5. Tables' BY <1>1, <1>2, <1>3, <1>7, <2>1, <2>3, TablesDestroyed
  <2>6. Graph' BY <1>1, <1>2, <2>1, <2>3, GraphKept DEF SameStatus
  <2>7. Settlements' BY <1>1, <1>2, <2>3, SettlementsKept
  <2>8. Answers' BY <1>1, <1>2, <2>3, AnswersKept
  <2>9. PendingExact' BY <1>1, <1>2, PendingKept
  <2> QED BY <2>4, <2>5, <2>6, <2>7, <2>8, <2>9 DEF LInv
<1> QED BY <1>6, <1>7

-----------------------------------------------------------------------------
LEMMA InitOK == Init => LInv
<1> SUFFICES ASSUME Init PROVE LInv OBVIOUS
<1>1. /\ promise = <<>> /\ rejected_promises = {} /\ files \in FileSystems /\ modules = <<>>
      /\ resolve_cache = <<>> /\ v8 = <<>> /\ stack = <<>> /\ imports = 0
      /\ phase = "bootstrap" /\ status = "none"
  BY DEF Init, ErrorsInit
<1>2. DOMAIN promise = {} /\ DOMAIN modules = {} /\ DOMAIN resolve_cache = {} /\ DOMAIN v8 = {}
  BY <1>1
<1>3. Shape BY <1>1 DEF Shape
<1>4. Tables /\ Graph /\ Answers BY <1>2 DEF Tables, Graph, Answers
<1>5. Nesting /\ Bodies /\ Links BY <1>1, NoCalls DEF Nesting, Bodies, Links
<1>6. Settlements
  <2>1. OwnUsed = {"own"} \X (1 .. 0) BY <1>2 DEF OwnUsed
  <2>2. 0 \in 0 .. MaxRejects BY MaxRejectsAssumption
  <2> QED BY <1>2, <2>1, <2>2 DEF Settlements
<1>7. Beginning BY <1>1, <1>2, Disk DEF Beginning
<1>8. EntryRuns BY <1>1 DEF EntryRuns
<1>9. PendingExact /\ ExitStatus /\ Cleaned BY <1>1, <1>2 DEF PendingExact, ExitStatus, Cleaned
<1> QED BY <1>3, <1>4, <1>5, <1>6, <1>7, <1>8, <1>9 DEF LInv

(* Nothing happens. *)
LEMMA StutterOK == ASSUME LInv, UNCHANGED vars PROVE LInv'
<1>1. /\ promise' = promise /\ rejected_promises' = rejected_promises /\ files' = files
      /\ modules' = modules /\ resolve_cache' = resolve_cache /\ v8' = v8 /\ stack' = stack
      /\ imports' = imports /\ phase' = phase /\ status' = status
  BY DEF vars, errorVars
<1>2. /\ Shape /\ Nesting /\ Links /\ Beginning /\ EntryRuns /\ ExitStatus /\ Cleaned
  BY DEF LInv
<1>3. /\ v8' \in Seq(Modules) /\ imports' \in Nat /\ imports <= imports' /\ stack' \in Seq(Frames)
      /\ phase' \in {"bootstrap", "script", "loop", "exit", "gone"} /\ (Alive' => status' = "none")
  BY <1>1, <1>2 DEF Shape, Alive
<1>4. Shape' BY <1>1, <1>2, <1>3, ShapeNext
<1>5. /\ Tables' /\ Graph' /\ Settlements' /\ Answers' /\ PendingExact' /\ Later
  BY <1>1, <1>3, Quiet
<1>6. Nesting' /\ Bodies'
  <2>1. \A k \in DOMAIN stack : stack[k].f = "import" => stack[k].p \notin DOMAIN promise'
    BY <1>1, <1>2 DEF Nesting, Nested
  <2> QED BY <1>1, <1>3, <2>1, SameCalls
<1>7. Links' BY <1>1, <1>2 DEF Links, Top, Loads, Root
<1>8. Beginning'
  <2>1. CASE phase = "exit" BY <1>1, <1>2, <2>1 DEF Beginning
  <2>2. CASE phase # "exit" BY <1>1, <1>2, <1>5, <2>2, BeginningKept
  <2> QED BY <2>1, <2>2
<1>9. EntryRuns' BY <1>1, <1>2 DEF EntryRuns, Root
<1>10. ExitStatus' BY <1>1, <1>2 DEF ExitStatus, Rethrown
<1>11. Cleaned' BY <1>1, <1>2 DEF Cleaned, CleanExit
<1> QED BY <1>4, <1>5, <1>6, <1>7, <1>8, <1>9, <1>10, <1>11 DEF LInv

LEMMA StepOK == LInv /\ [Next]_vars => LInv'
<1> SUFFICES ASSUME LInv, [Next]_vars PROVE LInv' OBVIOUS
<1>1. CASE Exec BY <1>1, ExecOK
<1>2. CASE load BY <1>2, loadOK
<1>3. CASE Evaluate BY <1>3, EvaluateOK
<1>4. CASE EnterDep BY <1>4, EnterDepOK
<1>5. CASE LeaveBody BY <1>5, LeaveBodyOK
<1>6. CASE ExecEnd BY <1>6, ExecEndOK
<1>7. CASE dynamicImport BY <1>7, dynamicImportOK
<1>8. CASE ImportEnd BY <1>8, ImportEndOK
<1>9. CASE AwaitEnd BY <1>9, AwaitEndOK
<1>10. CASE Promises BY <1>10, PromisesOK
<1>11. CASE ExitCall BY <1>11, ExitCallOK
<1>12. CASE makeCallback BY <1>12, makeCallbackOK
<1>13. CASE CallbackEnd BY <1>13, CallbackEndOK
<1>14. CASE Turn BY <1>14, TurnOK
<1>15. CASE Destroy BY <1>15, DestroyOK
<1>16. CASE UNCHANGED vars BY <1>16, StutterOK
<1> QED
  BY <1>1, <1>2, <1>3, <1>4, <1>5, <1>6, <1>7, <1>8, <1>9, <1>10, <1>11, <1>12, <1>13, <1>14, <1>15, <1>16
  DEF Next, Stopped

(* LInv holds at every moment of a program's life, however many imports,
   callbacks and rejections there are, for every file system that
   FileSystemsAssumption allows: no path has a character that merges its url with
   another, no module that awaits is requested statically, and the modules of the
   binary request only each other. *)
THEOREM LoaderInvariant == Spec => []LInv
BY InitOK, StepOK, PTL DEF Spec

-----------------------------------------------------------------------------
(* On these file systems the two tables of loader.cc stay in step with each other
   and with V8: each module has one entry in either, so that no path is loaded
   twice. *)
THEOREM LoaderCachesAgree == Spec => []CachesAgree
<1>1. LInv => CachesAgree
  <2> SUFFICES ASSUME LInv PROVE CachesAgree OBVIOUS
  <2>1. Shape /\ Tables /\ Settlements /\ PendingExact /\ Cleaned BY DEF LInv
  <2>2. \A i \in DOMAIN v8 : v8[i].path \in Paths BY <2>1, V8Type
  <2>3. \A p \in DOMAIN promise : promise[p].state \in States /\ promise[p].of \in 0 .. Len(v8)
    BY <2>1 DEF Settlements, Recorded
  <2>4. rejected_promises \subseteq DOMAIN promise
    <3>1. CASE phase # "gone" BY <2>1, <3>1 DEF PendingExact
    <3>2. CASE phase = "gone" BY <2>1, <3>2 DEF Cleaned
    <3> QED BY <3>1, <3>2
  <2>5. DOMAIN modules \subseteq DOMAIN v8
    <3>1. CASE phase # "gone" BY <2>1, <3>1 DEF Tables
    <3>2. CASE phase = "gone"
      <4>1. modules = <<>> BY <2>1, <3>2 DEF Cleaned
      <4> QED BY <4>1
    <3> QED BY <3>1, <3>2
  <2>6. TypeOK BY <2>2, <2>3, <2>4, <2>5 DEF TypeOK
  <2>7. ASSUME phase # "gone"
        PROVE  /\ \A i \in DOMAIN modules : fromCache(modules[i]) = {i}
               /\ \A u \in DOMAIN resolve_cache : resolve_cache[u] \in DOMAIN modules
    BY <2>1, <2>7 DEF Tables, fromCache
  <2> QED BY <2>6, <2>7 DEF CachesAgree
<1> QED BY <1>1, LoaderInvariant, PTL

(* loader.cc keeps its modules under their url and V8 asks for them by path: on
   these file systems, where no two paths have one url, the module a request gets
   is the one of the path it names, and what import() fulfils was evaluated, or
   waits in a top-level await. *)
THEOREM LoaderRightModule == Spec => []RightModule
<1>1. LInv => RightModule
  <2> SUFFICES ASSUME LInv PROVE RightModule OBVIOUS
  <2>1. Graph /\ Answers BY DEF LInv
  <2> QED BY <2>1 DEF Graph, Answers, RightModule
<1> QED BY <1>1, LoaderInvariant, PTL

(* errors.cc holds each rejected promise that nobody handles and no other: the
   rejection that dynamicImport takes back for a module is always one that the
   promise of an import() answers for. *)
THEOREM LoaderPendingExact == Spec => []PendingExact
<1>1. LInv => PendingExact BY DEF LInv
<1> QED BY <1>1, LoaderInvariant, PTL

(* main() returns success only when the entry script was evaluated and the last
   checkPendingErrors found no rejection, and "promise" only if there is one. *)
THEOREM LoaderExitStatus == Spec => []ExitStatus
<1>1. LInv => ExitStatus BY DEF LInv
<1> QED BY <1>1, LoaderInvariant, PTL

(* If the program does not exit() while a script is evaluated, ~Pand leaves no
   handle of V8 behind in the cache or among the rejected promises. *)
THEOREM LoaderCleanExit == ASSUME Careful PROVE Spec => []CleanExit
<1>1. LInv => CleanExit BY DEF LInv, Cleaned, CleanExit
<1> QED BY <1>1, LoaderInvariant, PTL
=============================================================================
