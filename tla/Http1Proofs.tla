---------------------------- MODULE Http1Proofs ----------------------------
(* Proofs about Http1, for any messages that keep the framing that their    *)
(* heads announce (Http1Assumption) and any cutting of them into reads.     *)
EXTENDS Http1, SequenceTheorems, WellFoundedInduction, TLAPS

-----------------------------------------------------------------------------
(* Recursion over a sequence, from its end or from its beginning.           *)

\* Among natural numbers one is the least.
LEMMA Least ==
  ASSUME NEW T, T \subseteq Nat, T # {}
  PROVE  \E m \in T : \A k \in T : m <= k
<1>1. PICK R : R = OpToRel(<, Nat)
  OBVIOUS
<1>2. IsWellFoundedOn(R, Nat)
  BY <1>1, NatLessThanWellFounded
<1>3. PICK x \in T : \A y \in T : ~ (<<y, x>> \in R)
  BY <1>2, WFMin
<1>4. ASSUME NEW k \in T PROVE x <= k
  <2>1. k \in Nat /\ x \in Nat
    OBVIOUS
  <2>2. ASSUME k < x PROVE <<k, x>> \in R
    <3>1. <<k, x>> \in Nat \X Nat /\ <<k, x>>[1] = k /\ <<k, x>>[2] = x
      BY <2>1
    <3> QED BY <3>1, <2>2, <1>1 DEF OpToRel
  <2> QED BY <2>1, <2>2, <1>3
<1> QED BY <1>4

\* What holds at the end and before every place after which it holds, holds anywhere.
LEMMA Backwards ==
  ASSUME NEW n \in Nat, NEW S, \A p \in 1 .. n : p + 1 .. n \subseteq S => p \in S
  PROVE  1 .. n \subseteq S
<1>a. PICK T : T = {k \in 0 .. n : n - k \in 1 .. n /\ n - k \notin S}
  OBVIOUS
<1>1. ASSUME T # {} PROVE FALSE
  <2>0. T \subseteq Nat
    BY <1>a
  <2>1. PICK k \in T : \A j \in T : k <= j
    BY <2>0, <1>1, Least
  <2>2. PICK p \in 1 .. n : p = n - k /\ p \notin S
    BY <1>a, <2>1
  <2>3. ASSUME NEW q \in p + 1 .. n PROVE q \in S
    <3>1. n - q \in 0 .. n /\ n - (n - q) = q /\ n - q < k
      BY <1>a, <2>2
    <3> QED BY <3>1, <1>a, <2>1
  <2> QED BY <2>2, <2>3
<1>2. ASSUME NEW p \in 1 .. n PROVE p \in S
  <2>1. n - p \in 0 .. n /\ n - (n - p) = p
    OBVIOUS
  <2> QED BY <2>1, <1>a, <1>1
<1> QED BY <1>2

\* A function may be defined by its values at the places after each place. G gives
\* the value at a place, for functions with values in V.
DependsOnLater(n, V, G) ==
  /\ \E v : v \in V
  /\ \A f \in [1 .. n -> V] : \A p \in 1 .. n : G[<<f, p>>] \in V
  /\ \A f, g \in [1 .. n -> V] : \A p \in 1 .. n :
       (\A q \in p + 1 .. n : f[q] = g[q]) => G[<<f, p>>] = G[<<g, p>>]

LEMMA RecursionExists ==
  ASSUME NEW n \in Nat, NEW V, NEW G, DependsOnLater(n, V, G)
  PROVE  \E f \in [1 .. n -> V] : \A p \in 1 .. n : f[p] = G[<<f, p>>]
<1>1. \E v : v \in V
  BY DEF DependsOnLater
<1>2. ASSUME NEW f \in [1 .. n -> V], NEW p \in 1 .. n PROVE G[<<f, p>>] \in V
  BY DEF DependsOnLater
<1>3. ASSUME NEW f \in [1 .. n -> V], NEW g \in [1 .. n -> V], NEW p \in 1 .. n,
             \A q \in p + 1 .. n : f[q] = g[q]
      PROVE  G[<<f, p>>] = G[<<g, p>>]
  BY <1>3 DEF DependsOnLater
<1>a. PICK S : S = {k \in 0 .. n : \E f \in [1 .. n -> V] :
                      \A p \in n + 1 - k .. n : f[p] = G[<<f, p>>]}
  OBVIOUS
<1>b. PICK T : T = (0 .. n) \ S
  OBVIOUS
<1>4. 0 \in S
  <2>1. PICK v \in V : TRUE
    BY <1>1
  <2>2. PICK f : f = [p \in 1 .. n |-> v]
    OBVIOUS
  <2>3. f \in [1 .. n -> V]
    BY <2>1, <2>2
  <2>4. n + 1 - 0 = n + 1 /\ n + 1 .. n = {} /\ 0 \in 0 .. n
    OBVIOUS
  <2> QED BY <2>3, <2>4, <1>a
<1>5. ASSUME NEW k \in 1 .. n, k - 1 \in S PROVE k \in S
  <2>1. PICK f \in [1 .. n -> V] : \A p \in n + 1 - (k - 1) .. n : f[p] = G[<<f, p>>]
    BY <1>a, <1>5
  <2>a. PICK x \in 1 .. n : x = n + 1 - k
    OBVIOUS
  <2>2. n + 1 - (k - 1) = x + 1
    BY <2>a
  <2>3. PICK g : g = [f EXCEPT ![x] = G[<<f, x>>]]
    OBVIOUS
  <2>4. g \in [1 .. n -> V] /\ g[x] = G[<<f, x>>] /\ \A q \in x + 1 .. n : g[q] = f[q]
    BY <2>3, <2>a, <1>2
  <2>5. ASSUME NEW p \in x .. n PROVE g[p] = G[<<g, p>>]
    <3>1. p \in 1 .. n /\ \A q \in p + 1 .. n : q \in x + 1 .. n
      BY <2>a
    <3>2. G[<<f, p>>] = G[<<g, p>>]
      BY <3>1, <2>4, <1>3
    <3>3. CASE p = x
      BY <3>2, <3>3, <2>4
    <3>4. CASE p \in x + 1 .. n
      BY <3>2, <3>4, <2>1, <2>2, <2>4
    <3> QED BY <3>3, <3>4
  <2> QED BY <2>4, <2>5, <2>a, <1>a
<1>6. T = {}
  <2> SUFFICES ASSUME T # {} PROVE FALSE
    OBVIOUS
  <2>0. T \subseteq Nat
    BY <1>b
  <2>1. PICK m \in T : \A k \in T : m <= k
    BY <2>0, Least
  <2>2. m \in 1 .. n /\ m \notin S /\ m - 1 \in 0 .. n
    BY <1>b, <2>1, <1>4
  <2>3. m - 1 \in S
    BY <1>b, <2>1, <2>2
  <2> QED BY <2>2, <2>3, <1>5
<1>7. n \in S /\ n + 1 - n = 1
  BY <1>6, <1>b
<1> QED BY <1>7, <1>a

\* What holds of 0 and of the successor of whatever it holds of holds up to any bound.
LEMMA UpTo ==
  ASSUME NEW n \in Nat, NEW S, 0 \in S, \A k \in 1 .. n : k - 1 \in S => k \in S
  PROVE  0 .. n \subseteq S
<1>a. PICK T : T = (0 .. n) \ S
  OBVIOUS
<1>1. ASSUME T # {} PROVE FALSE
  <2>0. T \subseteq Nat
    BY <1>a
  <2>1. PICK m \in T : \A k \in T : m <= k
    BY <2>0, <1>1, Least
  <2>2. m \in 1 .. n /\ m \notin S
    BY <1>a, <2>1
  <2>3. m - 1 \in 0 .. n /\ m - 1 \notin T
    BY <2>1, <2>2, <1>a
  <2> QED BY <2>2, <2>3, <1>a
<1> QED BY <1>a, <1>1

-----------------------------------------------------------------------------
(* FlattenSeq: f holds the concatenation of the first j of the sequences s. *)

Conc(u, s, t) == u = s \o t
Listed(s, T) == s \in Seq(Seq(T))

Joins(f, T, s) ==
  /\ f \in [0 .. Len(s) -> Seq(T)] /\ f[0] = <<>>
  /\ \A j \in 1 .. Len(s) : Conc(f[j], f[j - 1], s[j])

\* u is s of n elements and then t of m elements.
Glued(u, s, t, n, m) ==
  /\ n \in Nat /\ m \in Nat /\ Len(s) = n /\ Len(t) = m /\ Len(u) = n + m
  /\ \A i \in 1 .. n : u[i] = s[i]
  /\ \A i \in 1 .. m : u[n + i] = t[i]

LEMMA ConcFacts ==
  ASSUME NEW T, NEW u, NEW s, s \in Seq(T), NEW t, t \in Seq(T), Conc(u, s, t)
  PROVE  u \in Seq(T) /\ Glued(u, s, t, Len(s), Len(t))
BY DEF Conc, Glued

LEMMA JoinedIn ==
  ASSUME NEW T, NEW s, s \in Seq(T), NEW t, t \in Seq(T)
  PROVE  s \o t \in Seq(T)
OBVIOUS

LEMMA EmptyLeft ==
  ASSUME NEW T, NEW t \in Seq(T), NEW u, Conc(u, <<>>, t)
  PROVE  u = t
<1>1. <<>> \o t = t
  OBVIOUS
<1> QED BY <1>1 DEF Conc

LEMMA ListedFacts ==
  ASSUME NEW T, NEW s, Listed(s, T)
  PROVE  /\ Len(s) \in Nat /\ (Len(s) = 0 => s = <<>>)
         /\ \A j \in 1 .. Len(s) : s[j] \in Seq(T)
BY DEF Listed

LEMMA JoinsExist ==
  ASSUME NEW T, NEW s, Listed(s, T)
  PROVE  \E f : Joins(f, T, s)
<1>a. PICK n \in Nat : n = Len(s) /\ \A j \in 1 .. n : s[j] \in Seq(T)
  BY ListedFacts
<1>b. PICK S : S = {m \in 0 .. n : \E f : /\ f \in [0 .. m -> Seq(T)] /\ f[0] = <<>>
                                      /\ \A j \in 1 .. m : Conc(f[j], f[j - 1], s[j])}
  OBVIOUS
<1>1. 0 \in S
  <2>1. PICK f : f = [k \in 0 .. 0 |-> <<>>]
    OBVIOUS
  <2>2. f \in [0 .. 0 -> Seq(T)]
    BY <2>1
  <2>3. f[0] = <<>> /\ 1 .. 0 = {}
    BY <2>1
  <2> QED BY <2>2, <2>3, <1>b
<1>2. ASSUME NEW m \in 1 .. n, m - 1 \in S PROVE m \in S
  <2>1. PICK f : /\ f \in [0 .. m - 1 -> Seq(T)] /\ f[0] = <<>>
                 /\ \A j \in 1 .. m - 1 : Conc(f[j], f[j - 1], s[j])
    BY <1>b, <1>2
  <2>2. PICK x : Conc(x, f[m - 1], s[m])
    BY DEF Conc
  <2>3. x \in Seq(T)
    <3>1. f[m - 1] \in Seq(T)
      BY <2>1
    <3>2. s[m] \in Seq(T)
      BY <1>a
    <3> QED BY <3>1, <3>2, <2>2, ConcFacts
  <2>4. PICK g : g = [k \in 0 .. m |-> IF k = m THEN x ELSE f[k]]
    OBVIOUS
  <2>5. \A k \in 0 .. m - 1 : f[k] \in Seq(T)
    BY <2>1
  <2>6. g \in [0 .. m -> Seq(T)]
    BY <2>3, <2>4, <2>5
  <2>7. g[m] = x /\ \A j \in 0 .. m - 1 : g[j] = f[j]
    BY <2>4
  <2>8. g[0] = <<>>
    BY <2>1, <2>7
  <2>9. ASSUME NEW j \in 1 .. m PROVE Conc(g[j], g[j - 1], s[j])
    <3>1. g[j - 1] = f[j - 1]
      BY <2>7
    <3>2. CASE j = m
      BY <3>1, <3>2, <2>2, <2>7
    <3>3. CASE j \in 1 .. m - 1
      BY <3>1, <3>3, <2>1, <2>7
    <3> QED BY <3>2, <3>3
  <2>10. m \in 0 .. n
    OBVIOUS
  <2> QED BY <2>6, <2>8, <2>9, <2>10, <1>b
<1>3. n \in S
  BY <1>1, <1>2, UpTo
<1> QED BY <1>3, <1>a, <1>b DEF Joins

\* The recursion of FlattenSeq.
Flat(g, s, i) == IF i = 1 THEN s[i] ELSE g[i - 1] \o s[i]

LEMMA JoinsAreFlat ==
  ASSUME NEW T, NEW s, Listed(s, T), NEW f, Joins(f, T, s), NEW g, NEW i \in 1 .. Len(s),
         i # 1 => g[i - 1] = f[i - 1]
  PROVE  f[i] = Flat(g, s, i)
<1>1. Conc(f[i], f[i - 1], s[i])
  BY DEF Joins
<1>2. CASE i = 1
  <2>1. f[0] = <<>> /\ s[1] \in Seq(T)
    BY <1>2, ListedFacts DEF Joins
  <2> QED BY <2>1, <1>1, <1>2, EmptyLeft DEF Flat
<1>3. CASE i # 1
  BY <1>1, <1>3 DEF Conc, Flat
<1> QED BY <1>2, <1>3

LEMMA JoinsIsFlatten ==
  ASSUME NEW T, NEW s, Listed(s, T), NEW f, Joins(f, T, s)
  PROVE  FlattenSeq(s) = f[Len(s)] /\ FlattenSeq(s) \in Seq(T)
<1>a. PICK n \in Nat : n = Len(s) /\ (n = 0 => s = <<>>)
  BY ListedFacts
<1>1. f \in [0 .. n -> Seq(T)] /\ f[0] = <<>>
  BY <1>a DEF Joins
<1>2. f[n] \in Seq(T)
  BY <1>1
<1>3. CASE n = 0
  BY <1>1, <1>2, <1>3, <1>a DEF FlattenSeq
<1>4. CASE n # 0
  <2>1. FlattenSeq(s) = (CHOOSE g : g = [i \in 1 .. n |-> Flat(g, s, i)])[n]
    BY <1>4, <1>a DEF FlattenSeq, Flat
  <2>2. PICK h : h = [i \in 1 .. n |-> f[i]]
    OBVIOUS
  <2>3. \A i \in 1 .. n : f[i] = Flat(h, s, i)
    BY <2>2, <1>a, JoinsAreFlat
  <2>4. h = [i \in 1 .. n |-> Flat(h, s, i)]
    BY <2>2, <2>3
  <2>5. PICK g : /\ g = [i \in 1 .. n |-> Flat(g, s, i)]
                 /\ FlattenSeq(s) = g[n]
    BY <2>1, <2>4
  <2>6. PICK S : S = {k \in 0 .. n : k = 0 \/ g[k] = f[k]}
    OBVIOUS
  <2>7. 0 \in S
    BY <2>6
  <2>8. ASSUME NEW k \in 1 .. n, k - 1 \in S PROVE k \in S
    <3>1. g[k] = Flat(g, s, k)
      BY <2>5
    <3>2. k # 1 => g[k - 1] = f[k - 1]
      BY <2>6, <2>8
    <3>3. f[k] = Flat(g, s, k)
      BY <3>2, <1>a, JoinsAreFlat
    <3> QED BY <3>1, <3>3, <2>6
  <2>9. n \in S
    BY <2>7, <2>8, UpTo
  <2> QED BY <2>5, <2>6, <2>9, <1>2, <1>4, <1>a
<1> QED BY <1>3, <1>4

\* A concatenation begins with each shorter one.
LEMMA JoinsPrefix ==
  ASSUME NEW T, NEW s, Listed(s, T), NEW f, Joins(f, T, s),
         NEW j \in 0 .. Len(s), NEW k \in j .. Len(s)
  PROVE  /\ f[j] \in Seq(T) /\ f[k] \in Seq(T) /\ Len(f[j]) <= Len(f[k])
         /\ \A i \in 1 .. Len(f[j]) : f[k][i] = f[j][i]
<1>a. PICK n \in Nat : n = Len(s) /\ \A x \in 1 .. n : s[x] \in Seq(T)
  BY ListedFacts
<1>1. f \in [0 .. n -> Seq(T)]
  BY <1>a DEF Joins
<1>2. \A x \in 0 .. n : f[x] \in Seq(T)
  BY <1>1
<1>b. PICK S : S = {x \in 0 .. n - j : /\ Len(f[j]) <= Len(f[j + x])
                                       /\ \A i \in 1 .. Len(f[j]) : f[j + x][i] = f[j][i]}
  OBVIOUS
<1>3. 0 \in S
  <2>1. j + 0 = j /\ Len(f[j]) \in Nat /\ 0 \in 0 .. n - j
    BY <1>2, <1>a
  <2> QED BY <2>1, <1>b
<1>4. ASSUME NEW x \in 1 .. n - j, x - 1 \in S PROVE x \in S
  <2>1. PICK y \in 1 .. n : y = j + x /\ y - 1 = j + (x - 1) /\ y - 1 \in 0 .. n
    BY <1>a
  <2>2. Conc(f[y], f[y - 1], s[y])
    BY <1>a DEF Joins
  <2>3. f[y - 1] \in Seq(T) /\ s[y] \in Seq(T)
    BY <2>1, <1>2, <1>a
  <2>a. PICK u, v, w : u = f[y] /\ v = f[y - 1] /\ w = s[y]
    OBVIOUS
  <2>4. Glued(u, v, w, Len(v), Len(w))
    <3>1. Conc(u, v, w) /\ v \in Seq(T) /\ w \in Seq(T)
      BY <2>2, <2>3, <2>a
    <3> QED BY <3>1, ConcFacts
  <2>5. PICK a, b, c : a = Len(f[j]) /\ b = Len(v) /\ c = Len(u)
    OBVIOUS
  <2>6. a <= b /\ \A i \in 1 .. a : v[i] = f[j][i]
    BY <2>1, <2>5, <2>a, <1>4, <1>b
  <2>b. a \in Nat
    BY <2>5, <1>2, <1>a
  <2>7. b \in Nat /\ c \in Nat /\ b <= c /\ \A i \in 1 .. b : u[i] = v[i]
    BY <2>4, <2>5 DEF Glued
  <2>8. a <= c /\ \A i \in 1 .. a : u[i] = f[j][i]
    BY <2>6, <2>7, <2>b
  <2>9. x \in 0 .. n - j
    OBVIOUS
  <2> QED BY <2>1, <2>5, <2>a, <2>8, <2>9, <1>b
<1>5. 0 .. n - j \subseteq S
  <2>1. n - j \in Nat
    BY <1>a
  <2> QED BY <2>1, <1>3, <1>4, UpTo
<1>6. k - j \in 0 .. n - j /\ j + (k - j) = k
  BY <1>a
<1>7. k - j \in S /\ j \in 0 .. n /\ k \in 0 .. n
  BY <1>5, <1>6, <1>a
<1>8. Len(f[j]) <= Len(f[k]) /\ \A i \in 1 .. Len(f[j]) : f[k][i] = f[j][i]
  BY <1>6, <1>7, <1>b
<1> QED BY <1>2, <1>7, <1>8

\* Where the j-th sequence is, in the concatenation of the first n.
Placed(f, s, j, n) ==
  /\ Len(f[j]) = Len(f[j - 1]) + Len(s[j])
  /\ \A i \in 1 .. Len(s[j]) : f[n][Len(f[j - 1]) + i] = s[j][i]

LEMMA JoinsPlace ==
  ASSUME NEW T, NEW s, Listed(s, T), NEW f, Joins(f, T, s),
         NEW j \in 1 .. Len(s), NEW n \in j .. Len(s)
  PROVE  Placed(f, s, j, n)
<1>1. Len(s) \in Nat /\ s[j] \in Seq(T)
  BY ListedFacts
<1>2. j \in 0 .. Len(s) /\ j - 1 \in 0 .. Len(s) /\ j \in j - 1 .. Len(s)
  BY <1>1
<1>3. f[j - 1] \in Seq(T)
  BY <1>2, JoinsPrefix
<1>a. PICK a, b : a = Len(f[j - 1]) /\ b = Len(s[j])
  OBVIOUS
<1>4. Glued(f[j], f[j - 1], s[j], a, b)
  <2>1. Conc(f[j], f[j - 1], s[j])
    BY DEF Joins
  <2>2. Glued(f[j], f[j - 1], s[j], Len(f[j - 1]), Len(s[j]))
    <3>1. PICK u, x, y : u = f[j] /\ x = f[j - 1] /\ y = s[j]
      OBVIOUS
    <3>2. x \in Seq(T) /\ y \in Seq(T) /\ Conc(u, x, y)
      BY <3>1, <2>1, <1>1, <1>3
    <3>3. Glued(u, x, y, Len(x), Len(y))
      BY ONLY <3>2, ConcFacts
    <3> QED BY <3>1, <3>3
  <2> QED BY <2>2, <1>a
<1>5. a \in Nat /\ b \in Nat /\ Len(f[j]) = a + b /\ \A i \in 1 .. b : f[j][a + i] = s[j][i]
  BY <1>4 DEF Glued
<1>6. \A x \in 1 .. a + b : f[n][x] = f[j][x]
  <2>1. Len(f[j]) = a + b
    BY <1>5
  <2>2. \A x \in 1 .. Len(f[j]) : f[n][x] = f[j][x]
    BY <1>2, JoinsPrefix
  <2> QED BY <2>1, <2>2
<1>7. ASSUME NEW i \in 1 .. b PROVE f[n][a + i] = s[j][i]
  <2>1. a + i \in 1 .. a + b
    BY <1>5
  <2> QED BY <2>1, <1>5, <1>6
<1> QED BY <1>5, <1>7, <1>a DEF Placed

\* The first sequences alone.
LEMMA JoinsFirst ==
  ASSUME NEW T, NEW s, Listed(s, T), NEW f, Joins(f, T, s), NEW t, NEW k \in 0 .. Len(s),
         Len(t) = k, \A j \in 1 .. k : t[j] = s[j]
  PROVE  \E g : Joins(g, T, t) /\ \A j \in 0 .. k : g[j] = f[j]
<1>1. PICK g : g = [j \in 0 .. k |-> f[j]]
  OBVIOUS
<1>2. Len(s) \in Nat /\ f \in [0 .. Len(s) -> Seq(T)] /\ f[0] = <<>>
  BY ListedFacts DEF Joins
<1>3. \A j \in 0 .. k : f[j] \in Seq(T)
  BY <1>2
<1>4. g \in [0 .. k -> Seq(T)]
  BY <1>1, <1>3
<1>5. g[0] = <<>> /\ \A j \in 0 .. k : g[j] = f[j]
  BY <1>1, <1>2
<1>6. ASSUME NEW j \in 1 .. k PROVE Conc(g[j], g[j - 1], t[j])
  <2>1. j \in 1 .. Len(s) /\ j \in 0 .. k /\ j - 1 \in 0 .. k
    BY <1>2
  <2>2. Conc(f[j], f[j - 1], s[j])
    BY <2>1 DEF Joins
  <2> QED BY <2>1, <2>2, <1>5
<1> QED BY <1>4, <1>5, <1>6 DEF Joins

-----------------------------------------------------------------------------
(* What the parser takes from any tokens.                                   *)

Heads == {m.head : m \in Requests \cup Responses}
Tokens == Heads \cup BodyTokens \cup {Line} \cup {Size(n) : n \in Nat}

LEMMA TokenFacts ==
  ASSUME NEW t \in Tokens
  PROVE  /\ t.k = "size" => t.n \in Nat
         /\ t.k = "head" => t \in Heads
         /\ t \in Heads => t.k = "head" /\ t.te \in BOOLEAN /\ t.cl \in Nat
BY Http1Assumption DEF Tokens, Heads, BodyTokens, NL, Word, Text, Line, Size

LEMMA FirstFacts ==
  ASSUME NEW S, S \subseteq Nat
  PROVE  IF S = {} THEN First(S) = 0 ELSE First(S) \in S /\ \A y \in S : First(S) <= y
<1>1. CASE S # {}
  <2>1. \E x \in S : \A y \in S : x <= y
    BY <1>1, Least
  <2> QED BY <2>1, <1>1 DEF First, Min
<1> QED BY <1>1 DEF First

\* The line that starts at p ends at x, which is 0 when its end is not there yet.
LineEnds(d, p, x) ==
  \/ x = 0 /\ \A i \in p .. Len(d) : d[i] # NL
  \/ x \in p .. Len(d) /\ d[x] = NL /\ \A i \in p .. x - 1 : d[i] # NL

LEMMA LineEndIs ==
  ASSUME NEW d, Len(d) \in Nat, NEW p \in Nat \ {0}
  PROVE  LineEnds(d, p, lineEnd(d, p))
<1>a. PICK S : S = {i \in p .. Len(d) : d[i] = NL}
  OBVIOUS
<1>b. PICK x : x = First(S)
  OBVIOUS
<1>1. S \subseteq Nat
  BY <1>a
<1>2. IF S = {} THEN x = 0 ELSE x \in S /\ \A y \in S : x <= y
  BY <1>1, <1>b, FirstFacts
<1>3. lineEnd(d, p) = x
  BY <1>a, <1>b DEF lineEnd
<1>4. CASE S = {}
  BY <1>2, <1>3, <1>4, <1>a DEF LineEnds
<1>5. CASE S # {}
  <2>1. x \in p .. Len(d) /\ d[x] = NL
    BY <1>2, <1>5, <1>a
  <2>2. ASSUME NEW i \in p .. x - 1 PROVE d[i] # NL
    <3>1. i \in p .. Len(d) /\ ~(x <= i)
      BY <2>1
    <3> QED BY <3>1, <1>2, <1>5, <1>a
  <2> QED BY <2>1, <2>2, <1>3 DEF LineEnds
<1> QED BY <1>4, <1>5

\* A piece of a sequence, up to place b.
PieceOf(s, d, a, b) ==
  /\ s = SubSeq(d, a + 1, b) /\ Len(s) = b - a
  /\ \A i \in 1 .. b - a : s[i] = d[a + i]

LEMMA PieceFacts ==
  ASSUME NEW T, NEW d \in Seq(T), NEW a \in Nat, NEW b \in Nat, a <= b, b <= Len(d),
         NEW s, s = SubSeq(d, a + 1, b)
  PROVE  s \in Seq(T) /\ PieceOf(s, d, a, b)
<1>1. \A i \in a + 1 .. b : d[i] \in T
  OBVIOUS
<1>2. a + 1 \in Int /\ b \in Int
  OBVIOUS
<1>3. /\ s \in Seq(T) /\ Len(s) = IF a + 1 <= b THEN b - (a + 1) + 1 ELSE 0
      /\ \A i \in 1 .. b - (a + 1) + 1 : s[i] = d[a + 1 + i - 1]
  BY <1>1, <1>2, SubSeqProperties
<1>4. Len(s) = b - a /\ \A i \in 1 .. b - a : s[i] = d[a + i]
  BY <1>3
<1> QED BY <1>3, <1>4 DEF PieceOf

\* The recursion of chunks.
Fail == [end |-> 0, body |-> <<>>]
ChunkStep(d, from, p) ==
  IF lineEnd(d, p) = 0 \/ d[p].k # "size" THEN Fail
  ELSE IF d[p].n = 0 THEN [end |-> p + 2, body |-> <<>>]
  ELSE IF Len(d) < p + 2 + d[p].n THEN Fail
  ELSE [from[nextChunk(p, d[p].n)] EXCEPT !.body = SubSeq(d, p + 2, p + 1 + d[p].n) \o @]

ChunkResults(d) == [end : 0 .. Len(d) + 1, body : Seq(Tokens)]

LEMMA PrependBody ==
  ASSUME NEW V, NEW T, NEW r \in [end : V, body : T], NEW s, NEW z \in T, z = s \o r.body
  PROVE  /\ [r EXCEPT !.body = s \o @] \in [end : V, body : T]
         /\ [r EXCEPT !.body = s \o @].end = r.end
         /\ [r EXCEPT !.body = s \o @].body = z
OBVIOUS

\* A size with the end of its line.
LEMMA SizeLine ==
  ASSUME NEW d \in Seq(Tokens), NEW p \in 1 .. Len(d) + 1, lineEnd(d, p) # 0, d[p].k = "size"
  PROVE  p + 1 \in 1 .. Len(d) /\ d[p].n \in Nat
<1>1. PICK x : x = lineEnd(d, p)
  OBVIOUS
<1>2. x \in p .. Len(d) /\ d[x] = NL
  BY <1>1, LineEndIs DEF LineEnds
<1>3. p \in 1 .. Len(d) /\ d[p] \in Tokens
  BY <1>2
<1>4. x # p
  BY <1>2 DEF NL
<1> QED BY <1>2, <1>3, <1>4, TokenFacts

LEMMA ChunkStepLater ==
  ASSUME NEW d \in Seq(Tokens), NEW p \in 1 .. Len(d) + 1, NEW f, NEW g,
         \A q \in p + 1 .. Len(d) + 1 : f[q] = g[q]
  PROVE  ChunkStep(d, f, p) = ChunkStep(d, g, p)
<1>1. CASE lineEnd(d, p) = 0 \/ d[p].k # "size"
  BY <1>1 DEF ChunkStep
<1>2. CASE ~(lineEnd(d, p) = 0 \/ d[p].k # "size")
  <2>1. PICK n \in Nat : n = d[p].n
    BY <1>2, SizeLine
  <2>2. CASE n = 0 \/ Len(d) < p + 2 + n
    BY <1>2, <2>1, <2>2 DEF ChunkStep
  <2>3. CASE ~(n = 0 \/ Len(d) < p + 2 + n)
    <3>1. nextChunk(p, n) \in p + 1 .. Len(d) + 1
      BY <2>3 DEF nextChunk
    <3>2. f[nextChunk(p, n)] = g[nextChunk(p, n)]
      BY <3>1
    <3> QED BY <1>2, <2>1, <2>3, <3>2 DEF ChunkStep
  <2> QED BY <2>2, <2>3
<1> QED BY <1>1, <1>2

LEMMA ChunkStepType ==
  ASSUME NEW d \in Seq(Tokens), NEW from, NEW p \in 1 .. Len(d) + 1,
         \A q \in p + 1 .. Len(d) + 1 : from[q] \in ChunkResults(d)
  PROVE  ChunkStep(d, from, p) \in ChunkResults(d)
<1>1. Fail \in ChunkResults(d)
  BY DEF Fail, ChunkResults
<1>2. ASSUME lineEnd(d, p) # 0, d[p].k = "size"
      PROVE  p + 1 \in 1 .. Len(d) /\ d[p].n \in Nat
  BY <1>2, SizeLine
<1>3. ASSUME lineEnd(d, p) # 0, d[p].k = "size", d[p].n = 0
      PROVE  [end |-> p + 2, body |-> <<>>] \in ChunkResults(d)
  BY <1>2, <1>3 DEF ChunkResults
<1>4. ASSUME NEW n \in Nat \ {0}, Len(d) >= p + 2 + n
      PROVE  [from[nextChunk(p, n)] EXCEPT !.body = SubSeq(d, p + 2, p + 1 + n) \o @] \in ChunkResults(d)
  <2>1. nextChunk(p, n) \in p + 1 .. Len(d) + 1
    BY <1>4 DEF nextChunk
  <2>2. PICK r \in ChunkResults(d) : r = from[nextChunk(p, n)]
    BY <2>1
  <2>3. PICK piece : piece = SubSeq(d, p + 2, p + 1 + n)
    OBVIOUS
  <2>4. piece \in Seq(Tokens)
    <3>1. p + 1 \in Nat /\ p + 1 + n \in Nat /\ p + 1 <= p + 1 + n /\ p + 1 + n <= Len(d)
      BY <1>4
    <3>2. piece = SubSeq(d, (p + 1) + 1, p + 1 + n)
      BY <2>3
    <3> QED BY <3>1, <3>2, PieceFacts
  <2>5. r.body \in Seq(Tokens) /\ r \in [end : 0 .. Len(d) + 1, body : Seq(Tokens)]
    BY DEF ChunkResults
  <2>6. [r EXCEPT !.body = piece \o @] \in [end : 0 .. Len(d) + 1, body : Seq(Tokens)]
    <3>0. piece \o r.body \in Seq(Tokens)
      BY <2>4, <2>5, JoinedIn
    <3>1. PICK z \in Seq(Tokens) : z = piece \o r.body
      BY <3>0
    <3> QED BY <3>1, <2>5, PrependBody
  <2> QED BY <2>2, <2>3, <2>6 DEF ChunkResults
<1>5. CASE lineEnd(d, p) = 0 \/ d[p].k # "size"
  BY <1>1, <1>5 DEF ChunkStep
<1>6. CASE ~(lineEnd(d, p) = 0 \/ d[p].k # "size")
  <2>1. PICK n \in Nat : n = d[p].n
    BY <1>2, <1>6
  <2>2. CASE n = 0
    BY <1>3, <1>6, <2>1, <2>2 DEF ChunkStep
  <2>3. CASE n # 0 /\ Len(d) < p + 2 + n
    BY <1>1, <1>6, <2>1, <2>3 DEF ChunkStep
  <2>4. CASE n # 0 /\ Len(d) >= p + 2 + n
    <3>1. n \in Nat \ {0}
      BY <2>4
    <3>2. ~(Len(d) < p + 2 + n)
      BY <2>4
    <3> QED BY <1>4, <1>6, <2>1, <2>4, <3>1, <3>2 DEF ChunkStep
  <2> QED BY <2>2, <2>3, <2>4
<1> QED BY <1>5, <1>6

\* The recursion of chunks has a solution, and chunks takes one of them.
ChunksFrom(f, d) ==
  /\ \A p \in 1 .. Len(d) + 1 : f[p] = ChunkStep(d, f, p)
  /\ \A p \in 1 .. Len(d) + 1 : f[p] \in ChunkResults(d)

LEMMA ChunksRecursion ==
  ASSUME NEW d \in Seq(Tokens)
  PROVE  \E f : ChunksFrom(f, d) /\ \A p : chunks(d, p) = f[p]
<1>a. PICK n \in Nat : n = Len(d) + 1
  OBVIOUS
<1>b. PICK V : V = ChunkResults(d)
  OBVIOUS
<1>c. PICK G : G = [x \in [1 .. n -> V] \X (1 .. n) |-> ChunkStep(d, x[1], x[2])]
  OBVIOUS
<1>1. ASSUME NEW f \in [1 .. n -> V], NEW p \in 1 .. n
      PROVE  G[<<f, p>>] = ChunkStep(d, f, p) /\ G[<<f, p>>] \in V
  <2>1. G[<<f, p>>] = ChunkStep(d, f, p)
    <3>1. PICK x : x = <<f, p>>
      OBVIOUS
    <3>2. x \in [1 .. n -> V] \X (1 .. n)
      BY <3>1
    <3>3. x[1] = f /\ x[2] = p
      BY <3>1
    <3> QED BY <3>1, <3>2, <3>3, <1>c
  <2>2. \A q \in p + 1 .. Len(d) + 1 : f[q] \in ChunkResults(d)
    BY <1>a, <1>b
  <2>3. ChunkStep(d, f, p) \in ChunkResults(d)
    BY <2>2, <1>a, ChunkStepType
  <2> QED BY <2>1, <2>3, <1>b
<1>2. ASSUME NEW f \in [1 .. n -> V], NEW g \in [1 .. n -> V], NEW p \in 1 .. n,
             \A q \in p + 1 .. n : f[q] = g[q]
      PROVE  ChunkStep(d, f, p) = ChunkStep(d, g, p)
  BY <1>2, <1>a, ChunkStepLater
<1>3. DependsOnLater(n, V, G)
  <2>1. \E v : v \in V
    <3>1. Fail \in V
      BY <1>b DEF Fail, ChunkResults
    <3> QED BY <3>1
  <2>2. \A f \in [1 .. n -> V] : \A p \in 1 .. n : G[<<f, p>>] \in V
    BY <1>1
  <2>3. ASSUME NEW f \in [1 .. n -> V], NEW g \in [1 .. n -> V], NEW p \in 1 .. n,
               \A q \in p + 1 .. n : f[q] = g[q]
        PROVE  G[<<f, p>>] = G[<<g, p>>]
    <3>1. G[<<f, p>>] = ChunkStep(d, f, p) /\ G[<<g, p>>] = ChunkStep(d, g, p)
      BY <1>1
    <3>2. ChunkStep(d, f, p) = ChunkStep(d, g, p)
      BY <2>3, <1>2
    <3> QED BY <3>1, <3>2
  <2> QED BY ONLY <2>1, <2>2, <2>3 DEF DependsOnLater
<1>4. PICK h \in [1 .. n -> V] : \A p \in 1 .. n : h[p] = ChunkStep(d, h, p)
  <2>1. n \in Nat
    BY <1>a
  <2>2. PICK h \in [1 .. n -> V] : \A p \in 1 .. n : h[p] = G[<<h, p>>]
    BY <2>1, <1>3, RecursionExists
  <2> QED BY <2>2, <1>1
<1>5. h = [p \in 1 .. n |-> ChunkStep(d, h, p)]
  BY <1>4
<1>d. PICK f : f = CHOOSE g : g = [p \in 1 .. n |-> ChunkStep(d, g, p)]
  OBVIOUS
<1>6. f = [p \in 1 .. n |-> ChunkStep(d, f, p)]
  BY <1>5, <1>d
<1>7. \A p \in 1 .. n : f[p] = ChunkStep(d, f, p)
  BY <1>6
<1>8. \A p : chunks(d, p) = f[p]
  BY <1>d, <1>a DEF chunks, ChunkStep, Fail
<1>9. \A p \in 1 .. n : f[p] \in ChunkResults(d)
  <2>1. PICK S : S = {p \in 1 .. n : f[p] \in ChunkResults(d)}
    OBVIOUS
  <2>2. ASSUME NEW p \in 1 .. n, p + 1 .. n \subseteq S PROVE p \in S
    <3>1. \A q \in p + 1 .. Len(d) + 1 : f[q] \in ChunkResults(d)
      BY <2>1, <2>2, <1>a
    <3>2. ChunkStep(d, f, p) \in ChunkResults(d)
      BY <3>1, <1>a, ChunkStepType
    <3> QED BY <3>2, <2>1, <1>7
  <2>3. 1 .. n \subseteq S
    BY <2>2, Backwards
  <2> QED BY <2>1, <2>3
<1> QED BY <1>7, <1>8, <1>9, <1>a DEF ChunksFrom

\* The recursion of trailing.
TrailStep(d, from, p) ==
  IF lineEnd(d, p) = 0 THEN 0
  ELSE IF lineEnd(d, p) = p THEN p + 1
  ELSE from[lineEnd(d, p) + 1]

TrailingFrom(f, d) ==
  /\ \A p \in 1 .. Len(d) + 1 : f[p] = TrailStep(d, f, p)
  /\ \A p \in 1 .. Len(d) + 1 : f[p] \in 0 .. Len(d) + 1

LEMMA TrailStepType ==
  ASSUME NEW d \in Seq(Tokens), NEW from, NEW p \in 1 .. Len(d) + 1,
         \A q \in p + 1 .. Len(d) + 1 : from[q] \in 0 .. Len(d) + 1
  PROVE  TrailStep(d, from, p) \in 0 .. Len(d) + 1
<1>1. PICK x : x = lineEnd(d, p)
  OBVIOUS
<1>2. x = 0 \/ x \in p .. Len(d)
  BY <1>1, LineEndIs DEF LineEnds
<1> QED BY <1>1, <1>2 DEF TrailStep

LEMMA TrailStepLater ==
  ASSUME NEW d \in Seq(Tokens), NEW p \in 1 .. Len(d) + 1, NEW f, NEW g,
         \A q \in p + 1 .. Len(d) + 1 : f[q] = g[q]
  PROVE  TrailStep(d, f, p) = TrailStep(d, g, p)
<1>1. PICK x : x = lineEnd(d, p)
  OBVIOUS
<1>2. x = 0 \/ x \in p .. Len(d)
  BY <1>1, LineEndIs DEF LineEnds
<1> QED BY <1>1, <1>2 DEF TrailStep

LEMMA TrailingRecursion ==
  ASSUME NEW d \in Seq(Tokens)
  PROVE  \E f : TrailingFrom(f, d) /\ \A p : trailing(d, p) = f[p]
<1>a. PICK n \in Nat : n = Len(d) + 1
  OBVIOUS
<1>b. PICK V : V = 0 .. Len(d) + 1
  OBVIOUS
<1>c. PICK G : G = [x \in [1 .. n -> V] \X (1 .. n) |-> TrailStep(d, x[1], x[2])]
  OBVIOUS
<1>1. ASSUME NEW f \in [1 .. n -> V], NEW p \in 1 .. n
      PROVE  G[<<f, p>>] = TrailStep(d, f, p) /\ G[<<f, p>>] \in V
  <2>1. G[<<f, p>>] = TrailStep(d, f, p)
    <3>1. PICK x : x = <<f, p>>
      OBVIOUS
    <3>2. x \in [1 .. n -> V] \X (1 .. n)
      BY <3>1
    <3>3. x[1] = f /\ x[2] = p
      BY <3>1
    <3> QED BY <3>1, <3>2, <3>3, <1>c
  <2>2. \A q \in p + 1 .. Len(d) + 1 : f[q] \in 0 .. Len(d) + 1
    BY <1>a, <1>b
  <2>3. TrailStep(d, f, p) \in 0 .. Len(d) + 1
    BY <2>2, <1>a, TrailStepType
  <2> QED BY <2>1, <2>3, <1>b
<1>2. ASSUME NEW f \in [1 .. n -> V], NEW g \in [1 .. n -> V], NEW p \in 1 .. n,
             \A q \in p + 1 .. n : f[q] = g[q]
      PROVE  TrailStep(d, f, p) = TrailStep(d, g, p)
  BY <1>2, <1>a, TrailStepLater
<1>3. DependsOnLater(n, V, G)
  <2>1. \E v : v \in V
    <3>1. 0 \in V
      BY <1>b 
    <3> QED BY <3>1
  <2>2. \A f \in [1 .. n -> V] : \A p \in 1 .. n : G[<<f, p>>] \in V
    BY <1>1
  <2>3. ASSUME NEW f \in [1 .. n -> V], NEW g \in [1 .. n -> V], NEW p \in 1 .. n,
               \A q \in p + 1 .. n : f[q] = g[q]
        PROVE  G[<<f, p>>] = G[<<g, p>>]
    <3>1. G[<<f, p>>] = TrailStep(d, f, p) /\ G[<<g, p>>] = TrailStep(d, g, p)
      BY <1>1
    <3>2. TrailStep(d, f, p) = TrailStep(d, g, p)
      BY <2>3, <1>2
    <3> QED BY <3>1, <3>2
  <2> QED BY ONLY <2>1, <2>2, <2>3 DEF DependsOnLater
<1>4. PICK h \in [1 .. n -> V] : \A p \in 1 .. n : h[p] = TrailStep(d, h, p)
  <2>1. n \in Nat
    BY <1>a
  <2>2. PICK h \in [1 .. n -> V] : \A p \in 1 .. n : h[p] = G[<<h, p>>]
    BY <2>1, <1>3, RecursionExists
  <2> QED BY <2>2, <1>1
<1>5. h = [p \in 1 .. n |-> TrailStep(d, h, p)]
  BY <1>4
<1>d. PICK f : f = CHOOSE g : g = [p \in 1 .. n |-> TrailStep(d, g, p)]
  OBVIOUS
<1>6. f = [p \in 1 .. n |-> TrailStep(d, f, p)]
  BY <1>5, <1>d
<1>7. \A p \in 1 .. n : f[p] = TrailStep(d, f, p)
  BY <1>6
<1>8. \A p : trailing(d, p) = f[p]
  BY <1>d, <1>a DEF trailing, TrailStep
<1>9. \A p \in 1 .. n : f[p] \in 0 .. Len(d) + 1
  <2>1. PICK S : S = {p \in 1 .. n : f[p] \in 0 .. Len(d) + 1}
    OBVIOUS
  <2>2. ASSUME NEW p \in 1 .. n, p + 1 .. n \subseteq S PROVE p \in S
    <3>1. \A q \in p + 1 .. Len(d) + 1 : f[q] \in 0 .. Len(d) + 1
      BY <2>1, <2>2, <1>a
    <3>2. TrailStep(d, f, p) \in 0 .. Len(d) + 1
      BY <3>1, <1>a, TrailStepType
    <3> QED BY <3>2, <2>1, <1>7
  <2>3. 1 .. n \subseteq S
    BY <2>2, Backwards
  <2> QED BY <2>1, <2>3
<1> QED BY <1>7, <1>8, <1>9, <1>a DEF TrailingFrom

-----------------------------------------------------------------------------
(* What Parse returns for any tokens.                                       *)

ParseResults(d) == [used : 0 .. Len(d), head : Heads \cup {NoHead}, body : Seq(Tokens)]

LEMMA HeadFacts ==
  ASSUME NEW d \in Seq(Tokens), d # <<>>
  PROVE  /\ HeadOf(d) \in Heads \cup {NoHead}
         /\ HeadOf(d).te \in BOOLEAN /\ HeadOf(d).cl \in Nat
<1>1. d[1] \in Tokens
  OBVIOUS
<1>2. NoHead.te \in BOOLEAN /\ NoHead.cl \in Nat
  BY DEF NoHead, NoLength
<1>3. CASE d[1].k = "head"
  <2>1. d[1] \in Heads
    BY <1>1, <1>3, TokenFacts
  <2> QED BY <2>1, <1>1, <1>3, TokenFacts DEF HeadOf
<1>4. CASE d[1].k # "head"
  BY <1>2, <1>4 DEF HeadOf
<1> QED BY <1>3, <1>4

\* A header ends before two line ends, the first such.
HeaderEnds(d, h) ==
  \/ h = -1 /\ \A i \in 1 .. Len(d) - 1 : ~(d[i] = NL /\ d[i + 1] = NL)
  \/ /\ h \in 0 .. Len(d) - 2 /\ d[h + 1] = NL /\ d[h + 2] = NL
     /\ \A i \in 1 .. h : ~(d[i] = NL /\ d[i + 1] = NL)

LEMMA HeaderEndIs ==
  ASSUME NEW d, Len(d) \in Nat
  PROVE  HeaderEnds(d, headerEnd(d))
<1>a. PICK S : S = {i \in 1 .. Len(d) - 1 : d[i] = NL /\ d[i + 1] = NL}
  OBVIOUS
<1>b. PICK x : x = First(S)
  OBVIOUS
<1>1. S \subseteq Nat
  BY <1>a
<1>2. IF S = {} THEN x = 0 ELSE x \in S /\ \A y \in S : x <= y
  BY <1>1, <1>b, FirstFacts
<1>3. headerEnd(d) = x - 1
  BY <1>a, <1>b DEF headerEnd
<1>4. CASE S = {}
  <2>1. headerEnd(d) = -1
    BY <1>2, <1>3, <1>4
  <2> QED BY <2>1, <1>4, <1>a DEF HeaderEnds
<1>5. CASE S # {}
  <2>1. x \in 1 .. Len(d) - 1 /\ d[x] = NL /\ d[x + 1] = NL
    BY <1>2, <1>5, <1>a
  <2>2. PICK h \in 0 .. Len(d) - 2 : h = headerEnd(d) /\ h + 1 = x /\ h + 2 = x + 1
    BY <2>1, <1>3
  <2>3. ASSUME NEW i \in 1 .. h PROVE ~(d[i] = NL /\ d[i + 1] = NL)
    <3>1. i \in 1 .. Len(d) - 1 /\ ~(x <= i)
      BY <2>2
    <3> QED BY <3>1, <1>2, <1>5, <1>a
  <2> QED BY <2>1, <2>2, <2>3 DEF HeaderEnds
<1> QED BY <1>4, <1>5

LEMMA ParsedType ==
  ASSUME NEW d \in Seq(Tokens), d # <<>>, NEW a \in Nat, NEW b \in Nat, a <= b, b <= Len(d),
         NEW u \in 0 .. Len(d)
  PROVE  Parsed(d, u, SubSeq(d, a + 1, b)) \in ParseResults(d)
<1>1. PICK s : s = SubSeq(d, a + 1, b)
  OBVIOUS
<1>2. s \in Seq(Tokens)
  BY <1>1, PieceFacts
<1> QED BY <1>1, <1>2, HeadFacts DEF Parsed, ParseResults

LEMMA NotYetType ==
  ASSUME NEW d \in Seq(Tokens)
  PROVE  NotYet \in ParseResults(d)
<1>1. <<>> \in Seq(Tokens) /\ 0 \in 0 .. Len(d)
  OBVIOUS
<1> QED BY <1>1 DEF NotYet, ParseResults

LEMMA LengthBodyType ==
  ASSUME NEW d \in Seq(Tokens), d # <<>>, headerEnd(d) >= 0, NEW n \in Nat
  PROVE  lengthBody(d, n) \in ParseResults(d)
<1>1. PICK h \in 0 .. Len(d) - 2 : h = headerEnd(d)
  BY HeaderEndIs DEF HeaderEnds
<1>2. CASE Len(d) < h + 2 + n
  BY <1>1, <1>2, NotYetType DEF lengthBody
<1>3. CASE ~(Len(d) < h + 2 + n)
  <2>1. h + 2 \in Nat /\ h + 2 + n \in Nat /\ h + 2 <= h + 2 + n /\ h + 2 + n <= Len(d)
        /\ h + 2 + n \in 0 .. Len(d) /\ h + 2 + 1 = h + 3
    BY <1>1, <1>3
  <2>2. Parsed(d, h + 2 + n, SubSeq(d, h + 2 + 1, h + 2 + n)) \in ParseResults(d)
    BY <2>1, ParsedType
  <2>3. Parsed(d, h + 2 + n, SubSeq(d, h + 3, h + 2 + n)) \in ParseResults(d)
    BY <2>1, <2>2
  <2> QED BY <2>3, <1>1, <1>3 DEF lengthBody
<1> QED BY <1>2, <1>3

LEMMA UntilCloseType ==
  ASSUME NEW d \in Seq(Tokens), d # <<>>, headerEnd(d) >= 0
  PROVE  untilClose(d) \in ParseResults(d)
<1>1. PICK h \in 0 .. Len(d) - 2 : h = headerEnd(d)
  BY HeaderEndIs DEF HeaderEnds
<1>2. h + 2 \in Nat /\ Len(d) \in Nat /\ h + 2 <= Len(d) /\ Len(d) <= Len(d)
      /\ Len(d) \in 0 .. Len(d) /\ h + 2 + 1 = h + 3
  BY <1>1
<1>3. Parsed(d, Len(d), SubSeq(d, h + 2 + 1, Len(d))) \in ParseResults(d)
  BY <1>2, ParsedType
<1> QED BY <1>1, <1>2, <1>3 DEF untilClose

LEMMA ChunkedBodyType ==
  ASSUME NEW d \in Seq(Tokens), d # <<>>, headerEnd(d) >= 0
  PROVE  chunkedBody(d) \in ParseResults(d)
<1>1. PICK h \in 0 .. Len(d) - 2 : h = headerEnd(d)
  BY HeaderEndIs DEF HeaderEnds
<1>2. h + 3 \in 1 .. Len(d) + 1
  BY <1>1
<1>3. PICK c \in ChunkResults(d) : c = chunks(d, h + 3)
  <2>1. PICK f : ChunksFrom(f, d) /\ \A p : chunks(d, p) = f[p]
    BY ChunksRecursion
  <2> QED BY <2>1, <1>2 DEF ChunksFrom
<1>4. c.end \in 0 .. Len(d) + 1 /\ c.body \in Seq(Tokens)
  BY DEF ChunkResults
<1>5. PICK end : end = IF c.end = 0 THEN 0 ELSE trailing(d, c.end)
  OBVIOUS
<1>6. end \in 0 .. Len(d) + 1
  <2>1. PICK f : TrailingFrom(f, d) /\ \A p : trailing(d, p) = f[p]
    BY TrailingRecursion
  <2>2. CASE c.end = 0
    BY <2>2, <1>5
  <2>3. CASE c.end # 0
    <3>1. c.end \in 1 .. Len(d) + 1
      BY <2>3, <1>4
    <3> QED BY <3>1, <2>1, <2>3, <1>5 DEF TrailingFrom
  <2> QED BY <2>2, <2>3
<1>7. chunkedBody(d) = IF end = 0 THEN NotYet ELSE Parsed(d, end - 1, c.body)
  BY <1>1, <1>3, <1>5 DEF chunkedBody
<1>8. CASE end = 0
  BY <1>7, <1>8, NotYetType
<1>9. CASE end # 0
  <2>1. end - 1 \in 0 .. Len(d)
    BY <1>6, <1>9
  <2>2. Parsed(d, end - 1, c.body) \in ParseResults(d)
    BY <2>1, <1>4, HeadFacts DEF Parsed, ParseResults
  <2> QED BY <2>2, <1>7, <1>9
<1> QED BY <1>8, <1>9

LEMMA ParseType ==
  ASSUME NEW d \in Seq(Tokens)
  PROVE  Parse(d) \in ParseResults(d)
<1>1. CASE d = <<>> \/ ~hasHeader(d)
  BY <1>1, NotYetType DEF Parse, ParseRequest, ParseResponse
<1>2. CASE ~(d = <<>> \/ ~hasHeader(d))
  <2>1. d # <<>> /\ headerEnd(d) >= 0
    BY <1>2 DEF hasHeader
  <2>2. PICK n \in Nat : n = HeadOf(d).cl
    BY <2>1, HeadFacts
  <2>3. lengthBody(d, 0) \in ParseResults(d) /\ lengthBody(d, n) \in ParseResults(d)
    BY <2>1, LengthBodyType
  <2>4. chunkedBody(d) \in ParseResults(d) /\ untilClose(d) \in ParseResults(d)
    BY <2>1, ChunkedBodyType, UntilCloseType
  <2>5. ParseRequest(d) \in ParseResults(d)
    BY <1>2, <2>2, <2>3, <2>4 DEF ParseRequest
  <2>6. ParseResponse(d) \in ParseResults(d)
    BY <1>2, <2>2, <2>3, <2>4 DEF ParseResponse
  <2> QED BY <1>2, <2>5, <2>6 DEF Parse
<1> QED BY <1>1, <1>2

-----------------------------------------------------------------------------
(* The recursion of drain.                                                  *)

Handed == [head : Heads \cup {NoHead}, body : Seq(Tokens)]
DrainResults == [out : Seq(Handed), rest : Seq(Tokens)]

DrainStep(d, from, p) ==
  LET r == Parse(SubSeq(d, p, Len(d))) IN
  IF r.used = 0 THEN [out |-> <<>>, rest |-> SubSeq(d, p, Len(d))]
  ELSE [from[p + r.used] EXCEPT !.out = <<[head |-> r.head, body |-> r.body]>> \o @]

DrainFrom(f, d) ==
  /\ \A p \in 1 .. Len(d) + 1 : f[p] = DrainStep(d, f, p)
  /\ \A p \in 1 .. Len(d) + 1 : f[p] \in DrainResults

\* What is left of d from place p on, and what Parse makes of it.
LEMMA RestOf ==
  ASSUME NEW d \in Seq(Tokens), NEW p \in 1 .. Len(d) + 1
  PROVE  \E s \in Seq(Tokens) : \E r \in ParseResults(s) :
           /\ s = SubSeq(d, p, Len(d)) /\ r = Parse(s) /\ PieceOf(s, d, p - 1, Len(d))
           /\ r.used \in 0 .. Len(d) - p + 1
<1>1. p - 1 \in Nat /\ Len(d) \in Nat /\ p - 1 <= Len(d) /\ Len(d) <= Len(d) /\ (p - 1) + 1 = p
  OBVIOUS
<1>2. PICK s : s = SubSeq(d, (p - 1) + 1, Len(d))
  OBVIOUS
<1>a. PICK a \in Nat, b \in Nat : a = p - 1 /\ b = Len(d)
  BY <1>1
<1>3. s \in Seq(Tokens) /\ PieceOf(s, d, p - 1, Len(d))
  <2>1. a <= b /\ b <= Len(d) /\ s = SubSeq(d, a + 1, b)
    BY <1>1, <1>2, <1>a
  <2>2. s \in Seq(Tokens) /\ PieceOf(s, d, a, b)
    BY <2>1, PieceFacts
  <2> QED BY <2>2, <1>a
<1>4. PICK r \in ParseResults(s) : r = Parse(s)
  BY <1>3, ParseType
<1>5. Len(s) = Len(d) - p + 1
  BY <1>1, <1>3 DEF PieceOf
<1>6. r.used \in 0 .. Len(d) - p + 1
  BY <1>4, <1>5 DEF ParseResults
<1> QED BY <1>1, <1>2, <1>3, <1>4, <1>6

LEMMA PrependOut ==
  ASSUME NEW V, NEW T, NEW r \in [out : T, rest : V], NEW s, NEW z \in T, z = s \o r.out
  PROVE  /\ [r EXCEPT !.out = s \o @] \in [out : T, rest : V]
         /\ [r EXCEPT !.out = s \o @].out = z
         /\ [r EXCEPT !.out = s \o @].rest = r.rest
OBVIOUS

LEMMA DrainStepType ==
  ASSUME NEW d \in Seq(Tokens), NEW from, NEW p \in 1 .. Len(d) + 1,
         \A q \in p + 1 .. Len(d) + 1 : from[q] \in DrainResults
  PROVE  DrainStep(d, from, p) \in DrainResults
<1>a. PICK s \in Seq(Tokens) : \E r \in ParseResults(s) :
        s = SubSeq(d, p, Len(d)) /\ r = Parse(s) /\ r.used \in 0 .. Len(d) - p + 1
  BY RestOf
<1>1. PICK r \in ParseResults(s) :
        s = SubSeq(d, p, Len(d)) /\ r = Parse(s) /\ r.used \in 0 .. Len(d) - p + 1
  BY <1>a
<1>2. CASE r.used = 0
  <2>1. [out |-> <<>>, rest |-> s] \in DrainResults
    BY DEF DrainResults
  <2> QED BY <2>1, <1>1, <1>2 DEF DrainStep
<1>3. CASE r.used # 0
  <2>1. p + r.used \in p + 1 .. Len(d) + 1
    BY <1>1, <1>3
  <2>2. PICK t \in DrainResults : t = from[p + r.used]
    BY <2>1
  <2>3. PICK h : h = <<[head |-> r.head, body |-> r.body]>>
    OBVIOUS
  <2>4. h \in Seq(Handed)
    <3>1. [head |-> r.head, body |-> r.body] \in Handed
      BY DEF ParseResults, Handed
    <3> QED BY <3>1, <2>3
  <2>5. t.out \in Seq(Handed) /\ t \in [out : Seq(Handed), rest : Seq(Tokens)]
    BY DEF DrainResults
  <2>6. h \o t.out \in Seq(Handed)
    BY <2>4, <2>5, JoinedIn
  <2>7. [t EXCEPT !.out = h \o @] \in [out : Seq(Handed), rest : Seq(Tokens)]
    BY <2>5, <2>6, PrependOut
  <2> QED BY <1>1, <1>3, <2>2, <2>3, <2>7 DEF DrainStep, DrainResults
<1> QED BY <1>2, <1>3

LEMMA DrainStepLater ==
  ASSUME NEW d \in Seq(Tokens), NEW p \in 1 .. Len(d) + 1, NEW f, NEW g,
         \A q \in p + 1 .. Len(d) + 1 : f[q] = g[q]
  PROVE  DrainStep(d, f, p) = DrainStep(d, g, p)
<1>a. PICK s \in Seq(Tokens) : \E r \in ParseResults(s) :
        s = SubSeq(d, p, Len(d)) /\ r = Parse(s) /\ r.used \in 0 .. Len(d) - p + 1
  BY RestOf
<1>1. PICK r \in ParseResults(s) :
        s = SubSeq(d, p, Len(d)) /\ r = Parse(s) /\ r.used \in 0 .. Len(d) - p + 1
  BY <1>a
<1>2. CASE r.used = 0
  BY <1>1, <1>2 DEF DrainStep
<1>3. CASE r.used # 0
  <2>1. p + r.used \in p + 1 .. Len(d) + 1
    BY <1>1, <1>3
  <2> QED BY <2>1, <1>1, <1>3 DEF DrainStep
<1> QED BY <1>2, <1>3

LEMMA DrainRecursion ==
  ASSUME NEW d \in Seq(Tokens)
  PROVE  \E f : DrainFrom(f, d) /\ drain(d) = f[1]
<1>a. PICK n \in Nat : n = Len(d) + 1
  OBVIOUS
<1>b. PICK V : V = DrainResults
  OBVIOUS
<1>c. PICK G : G = [x \in [1 .. n -> V] \X (1 .. n) |-> DrainStep(d, x[1], x[2])]
  OBVIOUS
<1>1. ASSUME NEW f \in [1 .. n -> V], NEW p \in 1 .. n
      PROVE  G[<<f, p>>] = DrainStep(d, f, p) /\ G[<<f, p>>] \in V
  <2>1. G[<<f, p>>] = DrainStep(d, f, p)
    <3>1. PICK x : x = <<f, p>>
      OBVIOUS
    <3>2. x \in [1 .. n -> V] \X (1 .. n)
      BY <3>1
    <3>3. x[1] = f /\ x[2] = p
      BY <3>1
    <3> QED BY <3>1, <3>2, <3>3, <1>c
  <2>2. \A q \in p + 1 .. Len(d) + 1 : f[q] \in DrainResults
    BY <1>a, <1>b
  <2>3. DrainStep(d, f, p) \in DrainResults
    BY <2>2, <1>a, DrainStepType
  <2> QED BY <2>1, <2>3, <1>b
<1>2. ASSUME NEW f \in [1 .. n -> V], NEW g \in [1 .. n -> V], NEW p \in 1 .. n,
             \A q \in p + 1 .. n : f[q] = g[q]
      PROVE  DrainStep(d, f, p) = DrainStep(d, g, p)
  BY <1>2, <1>a, DrainStepLater
<1>3. DependsOnLater(n, V, G)
  <2>1. \E v : v \in V
    <3>1. [out |-> <<>>, rest |-> <<>>] \in V
      BY <1>b DEF DrainResults
    <3> QED BY <3>1
  <2>2. \A f \in [1 .. n -> V] : \A p \in 1 .. n : G[<<f, p>>] \in V
    BY <1>1
  <2>3. ASSUME NEW f \in [1 .. n -> V], NEW g \in [1 .. n -> V], NEW p \in 1 .. n,
               \A q \in p + 1 .. n : f[q] = g[q]
        PROVE  G[<<f, p>>] = G[<<g, p>>]
    <3>1. G[<<f, p>>] = DrainStep(d, f, p) /\ G[<<g, p>>] = DrainStep(d, g, p)
      BY <1>1
    <3>2. DrainStep(d, f, p) = DrainStep(d, g, p)
      BY <2>3, <1>2
    <3> QED BY <3>1, <3>2
  <2> QED BY ONLY <2>1, <2>2, <2>3 DEF DependsOnLater
<1>4. PICK h \in [1 .. n -> V] : \A p \in 1 .. n : h[p] = DrainStep(d, h, p)
  <2>1. n \in Nat
    BY <1>a
  <2>2. PICK h \in [1 .. n -> V] : \A p \in 1 .. n : h[p] = G[<<h, p>>]
    BY <2>1, <1>3, RecursionExists
  <2> QED BY <2>2, <1>1
<1>5. h = [p \in 1 .. n |-> DrainStep(d, h, p)]
  BY <1>4
<1>d. PICK f : f = CHOOSE g : g = [p \in 1 .. n |-> DrainStep(d, g, p)]
  OBVIOUS
<1>6. f = [p \in 1 .. n |-> DrainStep(d, f, p)]
  BY <1>5, <1>d
<1>7. \A p \in 1 .. n : f[p] = DrainStep(d, f, p)
  BY <1>6
<1>8. drain(d) = f[1]
  BY <1>d, <1>a DEF drain, DrainStep
<1>9. \A p \in 1 .. n : f[p] \in DrainResults
  <2>1. PICK S : S = {p \in 1 .. n : f[p] \in DrainResults}
    OBVIOUS
  <2>2. ASSUME NEW p \in 1 .. n, p + 1 .. n \subseteq S PROVE p \in S
    <3>1. \A q \in p + 1 .. Len(d) + 1 : f[q] \in DrainResults
      BY <2>1, <2>2, <1>a
    <3>2. DrainStep(d, f, p) \in DrainResults
      BY <3>1, <1>a, DrainStepType
    <3> QED BY <3>2, <2>1, <1>7
  <2>3. 1 .. n \subseteq S
    BY <2>2, Backwards
  <2> QED BY <2>1, <2>3
<1> QED BY <1>7, <1>8, <1>9, <1>a DEF DrainFrom

-----------------------------------------------------------------------------
(* Where the parts of an encoded message are.                               *)

Messages == Requests \cup Responses

LEMMA BodiesAreTokens ==
  ASSUME NEW s, s \in Seq(BodyTokens)
  PROVE  s \in Seq(Tokens)
BY DEF Tokens

LEMMA MessageFacts ==
  ASSUME NEW m \in Messages
  PROVE  /\ m.head \in Heads /\ m.head \in Tokens /\ m.head.k = "head"
         /\ m.head.te \in BOOLEAN /\ m.head.cl \in Nat /\ m.trailers \in Nat
         /\ Listed(m.chunks, BodyTokens) /\ Content(m) \in Seq(BodyTokens)
         /\ \A i \in 1 .. Len(m.chunks) : m.chunks[i] \in Seq(BodyTokens) /\ Len(m.chunks[i]) \in Nat \ {0}
<1>1. /\ m.head.k = "head" /\ m.head.te \in BOOLEAN /\ m.head.cl \in Nat /\ m.trailers \in Nat
      /\ Listed(m.chunks, BodyTokens) /\ \A i \in 1 .. Len(m.chunks) : m.chunks[i] # <<>>
  BY Http1Assumption DEF Messages, Listed
<1>2. m.head \in Heads /\ m.head \in Tokens
  BY DEF Messages, Heads, Tokens
<1>3. Content(m) \in Seq(BodyTokens)
  <2>1. PICK f : Joins(f, BodyTokens, m.chunks)
    BY <1>1, JoinsExist
  <2> QED BY <1>1, <2>1, JoinsIsFlatten DEF Content
<1>4. ASSUME NEW i \in 1 .. Len(m.chunks)
      PROVE  m.chunks[i] \in Seq(BodyTokens) /\ Len(m.chunks[i]) \in Nat \ {0}
  <2>1. PICK s : s = m.chunks[i]
    OBVIOUS
  <2>2. s \in Seq(BodyTokens) /\ s # <<>>
    BY <1>1, <2>1, ListedFacts
  <2>3. Len(s) \in Nat \ {0}
    BY ONLY <2>2
  <2> QED BY <2>1, <2>2, <2>3
<1> QED BY <1>1, <1>2, <1>3, <1>4

LEMMA ConcLengths ==
  ASSUME NEW T, NEW u, NEW s, s \in Seq(T), NEW t, t \in Seq(T), Conc(u, s, t),
         NEW n, n = Len(s), NEW k, k = Len(t)
  PROVE  u \in Seq(T) /\ Glued(u, s, t, n, k)
BY ConcFacts

LEMMA OneToken ==
  ASSUME NEW a \in Tokens
  PROVE  <<a>> \in Seq(Tokens) /\ Len(<<a>>) = 1 /\ <<a>>[1] = a
OBVIOUS

LEMMA TwoTokens ==
  ASSUME NEW a \in Tokens, NEW b \in Tokens
  PROVE  <<a, b>> \in Seq(Tokens) /\ Len(<<a, b>>) = 2 /\ <<a, b>>[1] = a /\ <<a, b>>[2] = b
OBVIOUS

\* A message with a body of known length, or with none, or of unknown length.
PlainLayout(e, m) ==
  /\ e \in Seq(Tokens) /\ Len(e) = 3 + Len(Content(m)) /\ e[1] = m.head /\ e[2] = NL /\ e[3] = NL
  /\ \A i \in 1 .. Len(Content(m)) : e[3 + i] = Content(m)[i]

LEMMA HeaderTokens ==
  ASSUME NEW h \in Tokens
  PROVE  /\ <<h, NL, NL>> \in Seq(Tokens) /\ Len(<<h, NL, NL>>) = 3
         /\ <<h, NL, NL>>[1] = h /\ <<h, NL, NL>>[2] = NL /\ <<h, NL, NL>>[3] = NL
<1>1. NL \in Tokens
  BY DEF Tokens, BodyTokens
<1> QED BY <1>1

LEMMA EncodedPlain ==
  ASSUME NEW m \in Messages, ~m.head.te
  PROVE  PlainLayout(Encoded(m), m)
<1>1. PICK h : h = <<m.head, NL, NL>> /\ h \in Seq(Tokens) /\ Len(h) = 3
               /\ h[1] = m.head /\ h[2] = NL /\ h[3] = NL
  BY MessageFacts, HeaderTokens
<1>2. PICK c \in Seq(Tokens) : c = Content(m)
  BY MessageFacts, BodiesAreTokens
<1>3. PICK e : e = Encoded(m)
  OBVIOUS
<1>4. Conc(e, h, c)
  BY <1>1, <1>2, <1>3 DEF Encoded, Conc
<1>5. e \in Seq(Tokens) /\ Glued(e, h, c, 3, Len(c))
  BY <1>1, <1>2, <1>4, ConcLengths
<1> QED BY <1>1, <1>2, <1>3, <1>5 DEF Glued, PlainLayout

\* A chunk with its size before it and a line end after it.
Block(s) == <<Size(Len(s)), NL>> \o s \o <<NL>>

LEMMA BlockFacts ==
  ASSUME NEW s \in Seq(BodyTokens)
  PROVE  /\ Block(s) \in Seq(Tokens) /\ Len(Block(s)) = Len(s) + 3
         /\ Block(s)[1] = Size(Len(s)) /\ Block(s)[2] = NL
         /\ \A i \in 1 .. Len(s) : Block(s)[2 + i] = s[i]
<1>a. PICK n \in Nat : n = Len(s)
  OBVIOUS
<1>1. NL \in Tokens /\ Size(n) \in Tokens
  BY DEF Tokens, BodyTokens
<1>b. PICK t \in Tokens, l \in Tokens : t = Size(n) /\ l = NL
  BY <1>1
<1>c. PICK z : z = <<t, l>>
  OBVIOUS
<1>2. z = <<Size(n), NL>> /\ z \in Seq(Tokens) /\ Len(z) = 2 /\ z[1] = Size(n) /\ z[2] = NL
  BY <1>b, <1>c, TwoTokens
<1>3. PICK y : y = <<NL>> /\ y \in Seq(Tokens) /\ Len(y) = 1
  BY <1>1, OneToken
<1>4. s \in Seq(Tokens)
  BY BodiesAreTokens
<1>5. PICK u : Conc(u, z, s)
  BY DEF Conc
<1>6. PICK b : Conc(b, u, y)
  BY DEF Conc
<1>7. u \in Seq(Tokens) /\ Glued(u, z, s, 2, n)
  BY <1>2, <1>4, <1>5, <1>a, ConcLengths
<1>8. Len(u) = n + 2
  BY <1>7 DEF Glued
<1>9. b \in Seq(Tokens) /\ Glued(b, u, y, n + 2, 1)
  BY <1>3, <1>6, <1>7, <1>8, ConcLengths
<1>10. b = Block(s)
  BY <1>2, <1>3, <1>5, <1>6, <1>a DEF Conc, Block
<1>11. Len(b) = n + 3 /\ \A i \in 1 .. n + 2 : b[i] = u[i]
  BY <1>9 DEF Glued
<1>12. u[1] = Size(n) /\ u[2] = NL /\ \A i \in 1 .. n : u[2 + i] = s[i]
  BY <1>2, <1>7 DEF Glued
<1>13. b[1] = Size(n) /\ b[2] = NL /\ \A i \in 1 .. n : b[2 + i] = s[i]
  <2>1. 1 \in 1 .. n + 2 /\ 2 \in 1 .. n + 2 /\ \A i \in 1 .. n : 2 + i \in 1 .. n + 2
    OBVIOUS
  <2> QED BY ONLY <2>1, <1>11, <1>12
<1> QED BY <1>9, <1>10, <1>11, <1>13, <1>a

\* The chunk j + 1 starts at P[j], or the last, empty one. The trailers follow.
ChunkedLayout(P, e, m) ==
  /\ e \in Seq(Tokens) /\ e[1] = m.head /\ e[2] = NL /\ e[3] = NL
  /\ P \in [0 .. Len(m.chunks) -> Nat] /\ P[0] = 4
  /\ \A j \in 1 .. Len(m.chunks) :
       /\ P[j] = P[j - 1] + 3 + Len(m.chunks[j])
       /\ e[P[j - 1]] = Size(Len(m.chunks[j])) /\ e[P[j - 1] + 1] = NL
       /\ \A i \in 1 .. Len(m.chunks[j]) : e[P[j - 1] + 1 + i] = m.chunks[j][i]
  /\ e[P[Len(m.chunks)]] = Size(0) /\ e[P[Len(m.chunks)] + 1] = NL
  /\ \A i \in 0 .. m.trailers - 1 :
       e[P[Len(m.chunks)] + 2 + 2 * i] = Line /\ e[P[Len(m.chunks)] + 3 + 2 * i] = NL
  /\ Len(e) = P[Len(m.chunks)] + 2 + 2 * m.trailers /\ e[Len(e)] = NL

\* The blocks of all the chunks.
BlocksAt(Q, u, c) ==
  /\ u \in Seq(Tokens) /\ Q \in [0 .. Len(c) -> Nat] /\ Q[0] = 0 /\ Q[Len(c)] = Len(u)
  /\ \A j \in 1 .. Len(c) :
       /\ Q[j] = Q[j - 1] + 3 + Len(c[j]) /\ Q[j] <= Len(u)
       /\ u[Q[j - 1] + 1] = Size(Len(c[j])) /\ u[Q[j - 1] + 2] = NL
       /\ \A i \in 1 .. Len(c[j]) : u[Q[j - 1] + 2 + i] = c[j][i]

LEMMA BlocksPlaced ==
  ASSUME NEW c, Listed(c, BodyTokens)
  PROVE  \E Q : BlocksAt(Q, FlattenSeq([i \in 1 .. Len(c) |-> Block(c[i])]), c)
<1>a. PICK n \in Nat : n = Len(c) /\ \A j \in 1 .. n : c[j] \in Seq(BodyTokens)
  BY ListedFacts
<1>b. PICK s : s = [i \in 1 .. n |-> Block(c[i])]
  OBVIOUS
<1>1. \A i \in 1 .. n : s[i] = Block(c[i]) /\ s[i] \in Seq(Tokens)
  BY <1>a, <1>b, BlockFacts
<1>2. Listed(s, Tokens) /\ Len(s) = n
  BY <1>1, <1>b DEF Listed
<1>3. PICK f : Joins(f, Tokens, s)
  BY <1>2, JoinsExist
<1>c. PICK u : u = FlattenSeq(s)
  OBVIOUS
<1>4. u = f[n] /\ u \in Seq(Tokens)
  BY <1>2, <1>3, <1>c, JoinsIsFlatten
<1>5. ASSUME NEW j \in 0 .. n
      PROVE  Len(f[j]) \in Nat /\ Len(f[j]) <= Len(u)
  <2>1. j \in 0 .. Len(s) /\ n \in j .. Len(s)
    BY <1>2
  <2>2. f[j] \in Seq(Tokens) /\ Len(f[j]) <= Len(f[n])
    BY <2>1, <1>2, <1>3, JoinsPrefix
  <2> QED BY <2>2, <1>4
<1>d. PICK Q : Q = [j \in 0 .. n |-> Len(f[j])]
  OBVIOUS
<1>6. Q \in [0 .. n -> Nat] /\ \A j \in 0 .. n : Q[j] = Len(f[j])
  BY <1>5, <1>d
<1>7. Q[0] = 0 /\ Q[n] = Len(u)
  <2>1. f[0] = <<>>
    BY <1>3 DEF Joins
  <2> QED BY <2>1, <1>6, <1>4
<1>8. ASSUME NEW j \in 1 .. n
      PROVE  /\ Q[j] = Q[j - 1] + 3 + Len(c[j]) /\ Q[j] <= Len(u)
             /\ u[Q[j - 1] + 1] = Size(Len(c[j])) /\ u[Q[j - 1] + 2] = NL
             /\ \A i \in 1 .. Len(c[j]) : u[Q[j - 1] + 2 + i] = c[j][i]
  <2>1. j \in 1 .. Len(s) /\ n \in j .. Len(s) /\ j \in 0 .. n /\ j - 1 \in 0 .. n
    BY <1>2
  <2>2. /\ Len(f[j]) = Len(f[j - 1]) + Len(s[j])
        /\ \A i \in 1 .. Len(s[j]) : f[n][Len(f[j - 1]) + i] = s[j][i]
    <3>1. Listed(s, Tokens) /\ Joins(f, Tokens, s) /\ j \in 1 .. Len(s) /\ n \in j .. Len(s)
      BY <2>1, <1>2, <1>3
    <3>2. Placed(f, s, j, n)
      BY <3>1, JoinsPlace
    <3> QED BY <3>2 DEF Placed
  <2>a. PICK a, x : a = Q[j - 1] /\ x = c[j]
    OBVIOUS
  <2>3. a \in Nat /\ x \in Seq(BodyTokens) /\ Len(x) \in Nat /\ s[j] = Block(x)
    BY <2>1, <2>a, <1>1, <1>6, <1>a
  <2>4. /\ Len(s[j]) = Len(x) + 3 /\ s[j][1] = Size(Len(x)) /\ s[j][2] = NL
        /\ \A i \in 1 .. Len(x) : s[j][2 + i] = x[i]
    BY <2>3, BlockFacts
  <2>5. Q[j] = a + (Len(x) + 3) /\ \A i \in 1 .. Len(x) + 3 : u[a + i] = s[j][i]
    BY <2>1, <2>2, <2>4, <2>a, <1>4, <1>6
  <2>6. u[a + 1] = Size(Len(x)) /\ u[a + 2] = NL
    BY <2>3, <2>4, <2>5
  <2>7. ASSUME NEW i \in 1 .. Len(x) PROVE u[a + 2 + i] = x[i]
    <3>1. 2 + i \in 1 .. Len(x) + 3 /\ a + (2 + i) = a + 2 + i
      BY <2>3
    <3> QED BY <3>1, <2>4, <2>5
  <2>8. Q[j] = a + 3 + Len(x) /\ Q[j] <= Len(u)
    BY <2>3, <2>5, <2>1, <1>5, <1>6
  <2> QED BY <2>6, <2>7, <2>8, <2>a
<1>9. BlocksAt(Q, u, c)
  BY <1>4, <1>6, <1>7, <1>8, <1>a DEF BlocksAt
<1> QED BY <1>9, <1>a, <1>b, <1>c

TrailersAt(t, k) ==
  /\ t \in Seq(Tokens) /\ Len(t) = 2 * k
  /\ \A i \in 0 .. k - 1 : t[2 * i + 1] = Line /\ t[2 * i + 2] = NL

LEMMA TrailersPlaced ==
  ASSUME NEW k \in Nat
  PROVE  TrailersAt(FlattenSeq([i \in 1 .. k |-> <<Line, NL>>]), k)
<1>a. PICK s : s = [i \in 1 .. k |-> <<Line, NL>>]
  OBVIOUS
<1>b. PICK a \in Tokens, b \in Tokens : a = Line /\ b = NL
  BY DEF Tokens, BodyTokens
<1>c. PICK p : p = <<a, b>>
  OBVIOUS
<1>0. p \in Seq(Tokens) /\ Len(p) = 2 /\ p[1] = Line /\ p[2] = NL
  BY <1>b, <1>c, TwoTokens
<1>1. \A i \in 1 .. k : s[i] = p /\ s[i] \in Seq(Tokens)
  BY <1>a, <1>b, <1>c, <1>0
<1>2. Listed(s, Tokens) /\ Len(s) = k
  BY <1>1, <1>a DEF Listed
<1>3. PICK f : Joins(f, Tokens, s)
  BY <1>2, JoinsExist
<1>d. PICK u : u = FlattenSeq(s)
  OBVIOUS
<1>4. u = f[k] /\ u \in Seq(Tokens)
  BY <1>2, <1>3, <1>d, JoinsIsFlatten
<1>5. ASSUME NEW j \in 1 .. k PROVE Placed(f, s, j, k)
  <2>1. Listed(s, Tokens) /\ Joins(f, Tokens, s) /\ j \in 1 .. Len(s) /\ k \in j .. Len(s)
    BY <1>2, <1>3
  <2> QED BY <2>1, JoinsPlace
<1>e. PICK S : S = {j \in 0 .. k : Len(f[j]) = 2 * j}
  OBVIOUS
<1>6. 0 \in S
  <2>1. f[0] = <<>>
    BY <1>3 DEF Joins
  <2> QED BY <2>1, <1>e
<1>7. ASSUME NEW j \in 1 .. k, j - 1 \in S PROVE j \in S
  <2>1. Len(f[j]) = Len(f[j - 1]) + 2
    BY <1>5, <1>1, <1>0 DEF Placed
  <2>2. Len(f[j - 1]) = 2 * (j - 1)
    BY <1>7, <1>e
  <2> QED BY <2>1, <2>2, <1>e
<1>8. \A j \in 0 .. k : Len(f[j]) = 2 * j
  <2>1. 0 .. k \subseteq S
    BY <1>6, <1>7, UpTo
  <2> QED BY <2>1, <1>e
<1>9. ASSUME NEW i \in 0 .. k - 1 PROVE u[2 * i + 1] = Line /\ u[2 * i + 2] = NL
  <2>1. i + 1 \in 1 .. k /\ (i + 1) - 1 = i /\ i \in 0 .. k
    OBVIOUS
  <2>a. PICK j \in 1 .. k : j = i + 1 /\ j - 1 = i /\ i \in 0 .. k
    BY <2>1
  <2>2. Placed(f, s, j, k) /\ s[j] = p /\ Len(f[j - 1]) = 2 * i
    BY <2>a, <1>5, <1>1, <1>8
  <2>3. \A x \in 1 .. 2 : u[2 * i + x] = p[x]
    BY <2>2, <1>0, <1>4 DEF Placed
  <2> QED BY <2>3, <1>0
<1>10. TrailersAt(u, k)
  <2>1. k \in 0 .. k
    OBVIOUS
  <2>2. Len(u) = 2 * k
    BY <2>1, <1>4, <1>8
  <2> QED BY <2>2, <1>4, <1>9 DEF TrailersAt
<1> QED BY <1>10, <1>a, <1>d

LEMMA EncodedChunked ==
  ASSUME NEW m \in Messages, m.head.te
  PROVE  \E P : ChunkedLayout(P, Encoded(m), m)
<1>a. PICK c : c = m.chunks /\ Listed(c, BodyTokens)
  BY MessageFacts
<1>b. PICK k \in Nat : k = m.trailers
  BY MessageFacts
<1>c. PICK n \in Nat : n = Len(c) /\ \A j \in 1 .. n : c[j] \in Seq(BodyTokens) /\ Len(c[j]) \in Nat
  BY <1>a, MessageFacts, ListedFacts
<1>d. PICK u : u = FlattenSeq([i \in 1 .. Len(c) |-> Block(c[i])])
  OBVIOUS
<1>e. PICK t : t = FlattenSeq([i \in 1 .. k |-> <<Line, NL>>])
  OBVIOUS
<1>1. PICK Q : BlocksAt(Q, u, c)
  BY <1>a, <1>d, BlocksPlaced
<1>2. u \in Seq(Tokens)
  BY <1>1 DEF BlocksAt
<1>3. t \in Seq(Tokens) /\ Len(t) = 2 * k
      /\ \A i \in 0 .. k - 1 : t[2 * i + 1] = Line /\ t[2 * i + 2] = NL
  BY <1>e, TrailersPlaced DEF TrailersAt
<1>4. PICK h : h = <<m.head, NL, NL>> /\ h \in Seq(Tokens) /\ Len(h) = 3
               /\ h[1] = m.head /\ h[2] = NL /\ h[3] = NL
  BY MessageFacts, HeaderTokens
<1>f. PICK l \in Tokens, o \in Tokens : l = NL /\ o = Size(0)
  BY DEF Tokens, BodyTokens
<1>g. PICK z, y : z = <<o, l>> /\ y = <<l>>
  OBVIOUS
<1>5. z \in Seq(Tokens) /\ Len(z) = 2 /\ z[1] = Size(0) /\ z[2] = NL
  BY <1>f, <1>g, TwoTokens
<1>6. y \in Seq(Tokens) /\ Len(y) = 1 /\ y[1] = NL
  BY <1>f, <1>g, OneToken
<1>h. PICK x3 : Conc(x3, u, z)
  BY DEF Conc
<1>i. PICK x2 : Conc(x2, x3, t)
  BY DEF Conc
<1>j. PICK x1 : Conc(x1, x2, y)
  BY DEF Conc
<1>k. PICK e : e = Encoded(m)
  OBVIOUS
<1>l. PICK L \in Nat : L = Len(u)
  BY <1>2
<1>7. Conc(e, h, x1)
  <2>1. \A i \in 1 .. Len(c) : Block(c[i]) = <<Size(Len(c[i])), NL>> \o c[i] \o <<NL>>
    BY DEF Block
  <2>2. u = FlattenSeq([i \in 1 .. Len(c) |-> <<Size(Len(c[i])), NL>> \o c[i] \o <<NL>>])
    BY <1>d DEF Block
  <2>3. x1 = u \o <<Size(0), NL>> \o t \o <<NL>>
    BY <1>h, <1>i, <1>j, <1>f, <1>g DEF Conc
  <2>4. Encoded(m) = <<m.head, NL, NL>> \o
          (FlattenSeq([i \in 1 .. Len(m.chunks) |->
                         <<Size(Len(m.chunks[i])), NL>> \o m.chunks[i] \o <<NL>>])
           \o <<Size(0), NL>> \o FlattenSeq([i \in 1 .. m.trailers |-> <<Line, NL>>]) \o <<NL>>)
    BY DEF Encoded
  <2> QED BY <2>2, <2>3, <2>4, <1>4, <1>a, <1>b, <1>e, <1>k DEF Conc
<1>8. x3 \in Seq(Tokens) /\ Glued(x3, u, z, L, 2)
  BY <1>2, <1>5, <1>h, <1>l, ConcLengths
<1>m. PICK L3 \in Nat : L3 = Len(x3) /\ L3 = L + 2
  BY <1>8 DEF Glued
<1>n. PICK k2 \in Nat : k2 = Len(t) /\ k2 = 2 * k
  BY <1>3
<1>9. x2 \in Seq(Tokens) /\ Glued(x2, x3, t, L3, k2)
  BY <1>8, <1>m, <1>3, <1>n, <1>i, ConcLengths
<1>o. PICK L2 \in Nat : L2 = Len(x2) /\ L2 = L + 2 + 2 * k
  BY <1>9, <1>m, <1>n DEF Glued
<1>10. x1 \in Seq(Tokens) /\ Glued(x1, x2, y, L2, 1)
  BY <1>9, <1>o, <1>6, <1>j, ConcLengths
<1>p. PICK L1 \in Nat : L1 = Len(x1) /\ L1 = L + 2 + 2 * k + 1
  BY <1>10, <1>o DEF Glued
<1>11. e \in Seq(Tokens) /\ Glued(e, h, x1, 3, L1)
  BY <1>10, <1>p, <1>4, <1>7, ConcLengths
<1>12. Len(e) = L + 6 + 2 * k /\ e[1] = m.head /\ e[2] = NL /\ e[3] = NL
  BY <1>11, <1>p, <1>4 DEF Glued
<1>13. \A i \in 1 .. L1 : e[3 + i] = x1[i]
  BY <1>11 DEF Glued
<1>14. \A i \in 1 .. L2 : x1[i] = x2[i]
  BY <1>10 DEF Glued
<1>15. x1[L2 + 1] = NL
  BY <1>10, <1>6 DEF Glued
<1>16. \A i \in 1 .. L3 : x2[i] = x3[i]
  BY <1>9 DEF Glued
<1>17. \A i \in 1 .. k2 : x2[L3 + i] = t[i]
  BY <1>9 DEF Glued
<1>18. \A i \in 1 .. L : x3[i] = u[i]
  BY <1>8 DEF Glued
<1>19. x3[L + 1] = Size(0) /\ x3[L + 2] = NL
  BY <1>8, <1>5 DEF Glued
<1>20. \A i \in 1 .. L : e[3 + i] = u[i]
  <2> SUFFICES ASSUME NEW i \in 1 .. L PROVE e[3 + i] = u[i]
    OBVIOUS
  <2>1. i \in 1 .. L1 /\ i \in 1 .. L2 /\ i \in 1 .. L3
    BY <1>m, <1>o, <1>p
  <2> QED BY <2>1, <1>13, <1>14, <1>16, <1>18
<1>21. e[L + 4] = Size(0) /\ e[L + 5] = NL
  <2>1. L + 1 \in 1 .. L1 /\ L + 1 \in 1 .. L2 /\ L + 1 \in 1 .. L3 /\ 3 + (L + 1) = L + 4
    BY <1>m, <1>o, <1>p
  <2>2. L + 2 \in 1 .. L1 /\ L + 2 \in 1 .. L2 /\ L + 2 \in 1 .. L3 /\ 3 + (L + 2) = L + 5
    BY <1>m, <1>o, <1>p
  <2> QED BY <2>1, <2>2, <1>13, <1>14, <1>16, <1>19
<1>22. ASSUME NEW i \in 1 .. k2 PROVE e[L + 5 + i] = t[i]
  <2>1. L3 + i \in 1 .. L1 /\ L3 + i \in 1 .. L2 /\ 3 + (L3 + i) = L + 5 + i
    BY <1>m, <1>n, <1>o, <1>p
  <2> QED BY <2>1, <1>13, <1>14, <1>17
<1>23. e[L + 6 + 2 * k] = NL
  <2>1. L2 + 1 \in 1 .. L1 /\ 3 + (L2 + 1) = L + 6 + 2 * k
    BY <1>o, <1>p
  <2> QED BY <2>1, <1>13, <1>15
<1>q. PICK P : P = [j \in 0 .. n |-> 4 + Q[j]]
  OBVIOUS
<1>24. /\ Q \in [0 .. n -> Nat] /\ Q[0] = 0 /\ Q[n] = L
       /\ \A j \in 1 .. n :
            /\ Q[j] = Q[j - 1] + 3 + Len(c[j]) /\ Q[j] <= L
            /\ u[Q[j - 1] + 1] = Size(Len(c[j])) /\ u[Q[j - 1] + 2] = NL
            /\ \A i \in 1 .. Len(c[j]) : u[Q[j - 1] + 2 + i] = c[j][i]
  BY <1>1, <1>c, <1>l DEF BlocksAt
<1>25. \A j \in 0 .. n : Q[j] \in Nat /\ P[j] = 4 + Q[j]
  BY <1>24, <1>q
<1>26. P \in [0 .. n -> Nat] /\ P[0] = 4 /\ P[n] = L + 4
  BY <1>24, <1>25, <1>q
<1>27. ASSUME NEW j \in 1 .. n
       PROVE  /\ P[j] = P[j - 1] + 3 + Len(c[j])
              /\ e[P[j - 1]] = Size(Len(c[j])) /\ e[P[j - 1] + 1] = NL
              /\ \A i \in 1 .. Len(c[j]) : e[P[j - 1] + 1 + i] = c[j][i]
  <2>0. j - 1 \in 0 .. n /\ j \in 0 .. n /\ Q[j - 1] \in Nat /\ Len(c[j]) \in Nat
    BY <1>c, <1>25
  <2>1. PICK q \in Nat, x \in Nat : q = Q[j - 1] /\ x = Len(c[j]) /\ P[j - 1] = 4 + q
    BY <2>0, <1>25
  <2>2. P[j] = 4 + (q + 3 + x) /\ q + 3 + x <= L
    BY <2>0, <2>1, <1>24, <1>25
  <2>3. u[q + 1] = Size(x) /\ u[q + 2] = NL /\ \A i \in 1 .. x : u[q + 2 + i] = c[j][i]
    BY <2>1, <1>24
  <2>4. q + 1 \in 1 .. L /\ q + 2 \in 1 .. L /\ 3 + (q + 1) = 4 + q /\ 3 + (q + 2) = 4 + q + 1
    <3>1. q \in Nat /\ x \in Nat /\ L \in Nat /\ q + 3 + x <= L
      BY <2>2
    <3> QED BY ONLY <3>1
  <2>5. e[4 + q] = Size(x) /\ e[4 + q + 1] = NL
    BY <2>3, <2>4, <1>20
  <2>6. ASSUME NEW i \in 1 .. x PROVE e[4 + q + 1 + i] = c[j][i]
    <3>0. q \in Nat /\ x \in Nat /\ L \in Nat /\ i \in 1 .. x /\ q + 3 + x <= L
      BY <2>2
    <3>1. q + 2 + i \in 1 .. L /\ 3 + (q + 2 + i) = 4 + q + 1 + i
      BY ONLY <3>0
    <3> QED BY <3>1, <2>3, <1>20
  <2>7. P[j] = 4 + q + 3 + x
    BY <2>2
  <2> QED BY <2>1, <2>5, <2>6, <2>7
<1>28. ASSUME NEW i \in 0 .. k - 1
       PROVE  e[L + 4 + 2 + 2 * i] = Line /\ e[L + 4 + 3 + 2 * i] = NL
  <2>1. 2 * i + 1 \in 1 .. k2 /\ 2 * i + 2 \in 1 .. k2
        /\ L + 5 + (2 * i + 1) = L + 4 + 2 + 2 * i /\ L + 5 + (2 * i + 2) = L + 4 + 3 + 2 * i
    BY <1>n
  <2> QED BY <2>1, <1>3, <1>22
<1>29. Len(e) = L + 4 + 2 + 2 * k /\ e[Len(e)] = NL /\ L + 4 + 1 = L + 5
  BY <1>12, <1>23
<1>30. /\ e[P[n]] = Size(0) /\ e[P[n] + 1] = NL
       /\ \A i \in 0 .. k - 1 : e[P[n] + 2 + 2 * i] = Line /\ e[P[n] + 3 + 2 * i] = NL
       /\ Len(e) = P[n] + 2 + 2 * k /\ e[Len(e)] = NL
  BY <1>21, <1>26, <1>28, <1>29
<1>31. e \in Seq(Tokens) /\ e[1] = m.head /\ e[2] = NL /\ e[3] = NL
  BY <1>11, <1>12
<1>32. P \in [0 .. n -> Nat] /\ P[0] = 4
  BY <1>26
<1>33. n = Len(m.chunks) /\ c = m.chunks /\ k = m.trailers
  BY <1>a, <1>b, <1>c
<1>34. ChunkedLayout(P, e, m)
  BY ONLY <1>27, <1>30, <1>31, <1>32, <1>33 DEF ChunkedLayout
<1> QED BY <1>34, <1>k

-----------------------------------------------------------------------------
(* What Parse makes of a buffer that begins like an encoded message.        *)

\* As far as both go, they are the same.
Agree(d, e) == \A i \in 1 .. Len(d) : i <= Len(e) => d[i] = e[i]

\* The message is taken when all of it is there, and not before.
TakenWhole(r, d, e, m) ==
  IF Len(d) >= Len(e) THEN r = [used |-> Len(e), head |-> m.head, body |-> Content(m)]
  ELSE r.used = 0

IsMessage(m) == m \in IF isRequest THEN Requests ELSE Responses

LEMMA SameSeq ==
  ASSUME NEW T, NEW s, s \in Seq(T), NEW t, t \in Seq(T), Len(s) = Len(t),
         \A i \in 1 .. Len(s) : s[i] = t[i]
  PROVE  s = t
BY SeqEqual

LEMMA NothingIsNoHeader ==
  ASSUME NEW m \in Messages
  PROVE  m.head # NL /\ Size(0) # NL /\ Line # NL /\ \A n : Size(n) # NL
<1>1. m.head.k = "head"
  BY MessageFacts
<1>2. m.head # NL
  BY <1>1 DEF NL
<1> QED BY <1>2 DEF NL, Size, Line

LEMMA HeaderSeen ==
  ASSUME NEW m \in Messages, NEW d \in Seq(Tokens), Len(d) >= 3,
         d[1] = m.head, d[2] = NL, d[3] = NL
  PROVE  headerEnd(d) = 1 /\ hasHeader(d) /\ HeadOf(d) = m.head /\ d # <<>>
<1>0. d[1] # NL /\ d[1].k = "head" /\ Len(d) \in Nat
  BY MessageFacts, NothingIsNoHeader
<1>1. headerEnd(d) = 1
  <2>1. PICK h : h = headerEnd(d) /\ HeaderEnds(d, h)
    BY <1>0, HeaderEndIs
  <2>2. 2 \in 1 .. Len(d) - 1 /\ d[2] = NL /\ d[2 + 1] = NL
    OBVIOUS
  <2>3. h # -1
    BY <2>1, <2>2 DEF HeaderEnds
  <2>4. h \in 0 .. Len(d) - 2 /\ d[h + 1] = NL /\ \A i \in 1 .. h : ~(d[i] = NL /\ d[i + 1] = NL)
    BY <2>1, <2>3 DEF HeaderEnds
  <2>5. h # 0
    BY <2>4, <1>0
  <2>6. ~(2 \in 1 .. h)
    BY <2>4, <2>2
  <2> QED BY <2>1, <2>4, <2>5, <2>6
<1>2. lineEnd(d, 1) = 2
  <2>1. PICK x : x = lineEnd(d, 1) /\ LineEnds(d, 1, x)
    BY <1>0, LineEndIs
  <2>2. x # 0
    BY <2>1 DEF LineEnds
  <2>3. x \in 1 .. Len(d) /\ d[x] = NL /\ \A i \in 1 .. x - 1 : d[i] # NL
    BY <2>1, <2>2 DEF LineEnds
  <2>4. x # 1 /\ ~(2 \in 1 .. x - 1)
    BY <2>3, <1>0
  <2> QED BY <2>1, <2>3, <2>4
<1>3. hasHeader(d)
  <2>1. 1 \in 1 .. lineEnd(d, 1) - 1
    BY <1>2
  <2> QED BY <2>1, <1>0, <1>1 DEF hasHeader
<1>4. HeadOf(d) = m.head
  BY <1>0 DEF HeadOf
<1> QED BY <1>1, <1>3, <1>4

LEMMA HeaderMissing ==
  ASSUME NEW m \in Messages, NEW d \in Seq(Tokens), Len(d) < 3, Len(d) >= 1 => d[1] = m.head
  PROVE  Parse(d).used = 0
<1>0. Len(d) \in Nat
  OBVIOUS
<1>1. CASE d = <<>>
  BY <1>1 DEF Parse, NotYet
<1>2. CASE d # <<>>
  <2>1. Len(d) >= 1 /\ d[1] # NL
    BY <1>2, NothingIsNoHeader
  <2>2. PICK h : h = headerEnd(d) /\ HeaderEnds(d, h)
    BY <1>0, HeaderEndIs
  <2>3. h = -1
    BY <2>1, <2>2 DEF HeaderEnds
  <2>4. ~hasHeader(d)
    BY <2>2, <2>3 DEF hasHeader
  <2> QED BY <2>4, <1>2 DEF Parse, ParseRequest, ParseResponse, NotYet
<1> QED BY <1>1, <1>2

LEMMA PlainIsLength ==
  ASSUME NEW m, IsMessage(m), ~m.head.te, ~UntilClose(m), NEW d \in Seq(Tokens),
         d # <<>>, hasHeader(d), HeadOf(d) = m.head
  PROVE  Parse(d) = lengthBody(d, Len(Content(m)))
<1>a. PICK h, n : h = m.head /\ n = Len(Content(m))
  OBVIOUS
<1>1. CASE isRequest
  <2>1. n = Announced(h)
    BY <1>1, <1>a, Http1Assumption DEF IsMessage
  <2>2. n = IF h.cl = NoLength THEN 0 ELSE h.cl
    BY <2>1 DEF Announced
  <2>3. ParseRequest(d) = lengthBody(d, n)
    BY <2>2, <1>a DEF ParseRequest
  <2> QED BY <2>3, <1>1, <1>a DEF Parse
<1>2. CASE ~isRequest
  <2>1. m \in Responses
    BY <1>2 DEF IsMessage
  <2>2. CASE bodiless(h)
    <3>1. Content(m) = <<>>
      BY <2>1, <2>2, <1>a, Http1Assumption DEF bodiless
    <3>2. n = 0
      BY <3>1, <1>a
    <3>3. ParseResponse(d) = lengthBody(d, n)
      BY <3>2, <2>2, <1>a DEF ParseResponse
    <3> QED BY <3>3, <1>2, <1>a DEF Parse
  <2>3. CASE ~bodiless(h)
    <3>1. h.cl # NoLength \/ isPersistent(h)
      BY <2>3, <1>2, <1>a DEF UntilClose
    <3>2. n = Announced(h)
      BY <3>1, <2>1, <2>3, <1>a, Http1Assumption DEF bodiless
    <3>3. n = IF h.cl = NoLength THEN 0 ELSE h.cl
      BY <3>2 DEF Announced
    <3>4. ParseResponse(d) = lengthBody(d, n)
      BY <3>1, <3>3, <2>3, <1>a DEF ParseResponse
    <3> QED BY <3>4, <1>2, <1>a DEF Parse
  <2> QED BY <2>2, <2>3
<1> QED BY <1>1, <1>2

LEMMA ParsePlain ==
  ASSUME NEW m, IsMessage(m), ~m.head.te, ~UntilClose(m), NEW d \in Seq(Tokens),
         NEW e, e = Encoded(m), Agree(d, e)
  PROVE  TakenWhole(Parse(d), d, e, m)
<1>0. m \in Messages
  BY DEF IsMessage, Messages
<1>1. PlainLayout(e, m)
  BY <1>0, EncodedPlain
<1>a. PICK c \in Seq(BodyTokens) : c = Content(m)
  BY <1>0, MessageFacts
<1>b. PICK n \in Nat : n = Len(c)
  OBVIOUS
<1>2. /\ Len(e) = 3 + n /\ e[1] = m.head /\ e[2] = NL /\ e[3] = NL
      /\ \A i \in 1 .. n : e[3 + i] = c[i]
  BY <1>1, <1>a, <1>b DEF PlainLayout
<1>3. Len(d) \in Nat
  OBVIOUS
<1>4. CASE Len(d) < 3
  <2>1. Len(d) >= 1 => d[1] = m.head
    BY <1>2, <1>3 DEF Agree
  <2>2. Parse(d).used = 0 /\ ~(Len(d) >= Len(e))
    BY <2>1, <1>0, <1>2, <1>3, <1>4, HeaderMissing
  <2> QED BY <2>2 DEF TakenWhole
<1>5. CASE Len(d) >= 3
  <2>1. d[1] = m.head /\ d[2] = NL /\ d[3] = NL
    BY <1>2, <1>3, <1>5 DEF Agree
  <2>2. headerEnd(d) = 1 /\ hasHeader(d) /\ HeadOf(d) = m.head /\ d # <<>>
    BY <2>1, <1>0, <1>5, HeaderSeen
  <2>3. Parse(d) = lengthBody(d, n)
    BY <2>2, <1>a, <1>b, PlainIsLength
  <2>4. CASE Len(d) < 3 + n
    <3>1. lengthBody(d, n) = NotYet
      BY <2>2, <2>4 DEF lengthBody
    <3> QED BY <3>1, <2>3, <2>4, <1>2, <1>3 DEF TakenWhole, NotYet
  <2>5. CASE ~(Len(d) < 3 + n)
    <3>a. PICK b \in Nat, a \in Nat : b = 3 + n /\ a = 3 /\ a <= b /\ b <= Len(d)
      BY <2>5, <1>3
    <3>b. PICK s : s = SubSeq(d, a + 1, b)
      OBVIOUS
    <3>1. s \in Seq(Tokens) /\ PieceOf(s, d, a, b)
      BY <3>a, <3>b, PieceFacts
    <3>2. Len(s) = n /\ \A i \in 1 .. n : s[i] = d[3 + i]
      BY <3>1, <3>a DEF PieceOf
    <3>3. ASSUME NEW i \in 1 .. n PROVE s[i] = c[i]
      <4>1. 3 + i \in 1 .. Len(d) /\ 3 + i <= Len(e)
        BY <3>a, <1>2, <1>3
      <4> QED BY <4>1, <3>2, <1>2 DEF Agree
    <3>4. s = c
      BY <3>1, <3>2, <3>3, <1>b, BodiesAreTokens, SameSeq
    <3>5. lengthBody(d, n) = Parsed(d, 3 + n, SubSeq(d, 4, 3 + n))
      BY <2>2, <2>5 DEF lengthBody
    <3>6. lengthBody(d, n) = Parsed(d, 3 + n, c)
      BY <3>4, <3>5, <3>a, <3>b
    <3> QED BY <3>6, <2>2, <2>3, <2>5, <1>2, <1>3, <1>a DEF TakenWhole, Parsed
  <2> QED BY <2>4, <2>5
<1> QED BY <1>3, <1>4, <1>5

LEMMA LineOfTwo ==
  ASSUME NEW d, Len(d) \in Nat, NEW p \in 1 .. Len(d) + 1,
         p <= Len(d) => d[p] # NL, p + 1 <= Len(d) => d[p + 1] = NL
  PROVE  lineEnd(d, p) = IF p + 1 <= Len(d) THEN p + 1 ELSE 0
<1>1. PICK x : x = lineEnd(d, p) /\ LineEnds(d, p, x)
  BY LineEndIs
<1>2. CASE p + 1 <= Len(d)
  <2>1. p + 1 \in p .. Len(d) /\ d[p + 1] = NL
    BY <1>2
  <2>2. x # 0
    BY <1>1, <2>1 DEF LineEnds
  <2>3. x \in p .. Len(d) /\ d[x] = NL /\ \A i \in p .. x - 1 : d[i] # NL
    BY <1>1, <2>2 DEF LineEnds
  <2>4. x # p /\ ~(p + 1 \in p .. x - 1)
    BY <2>1, <2>3
  <2> QED BY <1>1, <1>2, <2>3, <2>4
<1>3. CASE ~(p + 1 <= Len(d))
  <2>1. \A i \in p .. Len(d) : i = p /\ p <= Len(d)
    BY <1>3
  <2>2. ~(x \in p .. Len(d) /\ d[x] = NL)
    BY <2>1
  <2> QED BY <1>1, <1>3, <2>2 DEF LineEnds
<1> QED BY <1>2, <1>3

\* The places of the chunks are in order.
LEMMA PlacesInOrder ==
  ASSUME NEW m \in Messages, NEW P, NEW e, ChunkedLayout(P, e, m), NEW j \in 0 .. Len(m.chunks)
  PROVE  P[j] \in Nat \ {0} /\ P[j] <= P[Len(m.chunks)]
<1>a. PICK n \in Nat : n = Len(m.chunks) /\ \A i \in 1 .. n : Len(m.chunks[i]) \in Nat
  BY MessageFacts, ListedFacts
<1>1. /\ P \in [0 .. n -> Nat] /\ P[0] = 4
      /\ \A i \in 1 .. n : P[i] = P[i - 1] + 3 + Len(m.chunks[i])
  BY <1>a DEF ChunkedLayout
<1>2. \A i \in 0 .. n : P[i] \in Nat
  BY <1>1
<1>b. PICK S : S = {q \in 1 .. n + 1 : P[q - 1] <= P[n]}
  OBVIOUS
<1>3. ASSUME NEW q \in 1 .. n + 1, q + 1 .. n + 1 \subseteq S PROVE q \in S
  <2>1. CASE q = n + 1
    <3>1. q - 1 = n /\ P[n] \in Nat
      BY <2>1, <1>2, <1>a
    <3> QED BY <3>1, <1>b
  <2>2. CASE q # n + 1
    <3>1. q \in 1 .. n /\ q + 1 \in q + 1 .. n + 1 /\ (q + 1) - 1 = q /\ q - 1 \in 0 .. n /\ q \in 0 .. n
      BY <2>2, <1>a
    <3>2. P[q] <= P[n]
      BY <3>1, <1>3, <1>b
    <3>a. PICK l \in Nat : l = Len(m.chunks[q])
      BY <3>1, <1>a
    <3>b. PICK u \in Nat, v \in Nat, w \in Nat : u = P[q - 1] /\ v = P[q] /\ w = P[n]
      BY <3>1, <1>2
    <3>3. v = u + 3 + l
      BY <3>1, <3>a, <3>b, <1>1
    <3>4. P[q - 1] <= P[n]
      <4>1. v <= w
        BY <3>2, <3>b
      <4>2. u <= w
        BY ONLY <4>1, <3>3
      <4> QED BY <4>2, <3>b
    <3> QED BY <3>4, <1>b
  <2> QED BY <2>1, <2>2
<1>4. 1 .. n + 1 \subseteq S
  <2>1. n + 1 \in Nat
    OBVIOUS
  <2> QED BY <2>1, <1>3, Backwards
<1>5. j + 1 \in 1 .. n + 1 /\ (j + 1) - 1 = j
  BY <1>a
<1>6. P[j] <= P[n]
  BY <1>4, <1>5, <1>b
<1>7. P[j] # 0
  <2>1. CASE j = 0
    BY <2>1, <1>1
  <2>2. CASE j # 0
    <3>1. j \in 1 .. n /\ j - 1 \in 0 .. n
      BY <2>2, <1>a
    <3>2. P[j - 1] \in Nat /\ Len(m.chunks[j]) \in Nat /\ P[j] = P[j - 1] + 3 + Len(m.chunks[j])
      BY <3>1, <1>1, <1>2, <1>a
    <3> QED BY <3>2
  <2> QED BY <2>1, <2>2
<1> QED BY <1>2, <1>6, <1>7, <1>a

\* One chunk, of x tokens, at place p, as far as it is there.
ChunkAt(d, p, c, x) ==
  /\ p <= Len(d) => d[p] = Size(x)
  /\ p + 1 <= Len(d) => d[p + 1] = NL
  /\ \A i \in 1 .. x : p + 1 + i <= Len(d) => d[p + 1 + i] = c[i]

ChunkGives(f, d, p, c, x) ==
  IF p + 2 + x <= Len(d)
  THEN /\ f[p + 3 + x] \in ChunkResults(d)
       /\ f[p].end = f[p + 3 + x].end /\ f[p].body = c \o f[p + 3 + x].body
  ELSE f[p].end = 0

LEMMA OneChunk ==
  ASSUME NEW d \in Seq(Tokens), NEW f, ChunksFrom(f, d), NEW p \in 1 .. Len(d) + 1,
         NEW c \in Seq(BodyTokens), NEW x \in Nat \ {0}, x = Len(c),
         ChunkAt(d, p, c, x)
  PROVE  ChunkGives(f, d, p, c, x)
<1>0. Len(d) \in Nat /\ Size(x) # NL
  BY DEF Size, NL
<1>1. lineEnd(d, p) = IF p + 1 <= Len(d) THEN p + 1 ELSE 0
  <2>1. (p <= Len(d) => d[p] # NL) /\ (p + 1 <= Len(d) => d[p + 1] = NL)
    BY <1>0 DEF ChunkAt
  <2> QED BY <2>1, <1>0, LineOfTwo
<1>2. f[p] = ChunkStep(d, f, p)
  BY DEF ChunksFrom
<1>3. CASE ~(p + 1 <= Len(d))
  <2>1. ~(p + 2 + x <= Len(d))
    BY <1>3, <1>0
  <2> QED BY <2>1, <1>1, <1>2, <1>3 DEF ChunkStep, Fail, ChunkGives
<1>4. CASE p + 1 <= Len(d)
  <2>1. lineEnd(d, p) # 0 /\ d[p].k = "size" /\ d[p].n = x
    <3>1. d[p] = Size(x) /\ lineEnd(d, p) = p + 1
      BY <1>0, <1>1, <1>4 DEF ChunkAt
    <3> QED BY <3>1 DEF Size
  <2>2. CASE ~(p + 2 + x <= Len(d))
    <3>1. Len(d) < p + 2 + x
      BY <2>2, <1>0
    <3> QED BY <3>1, <2>1, <2>2, <1>2 DEF ChunkStep, Fail, ChunkGives
  <2>3. CASE p + 2 + x <= Len(d)
    <3>1. ~(Len(d) < p + 2 + x) /\ nextChunk(p, x) = p + 3 + x /\ p + 3 + x \in 1 .. Len(d) + 1
      BY <2>3, <1>0 DEF nextChunk
    <3>2. f[p] = [f[p + 3 + x] EXCEPT !.body = SubSeq(d, p + 2, p + 1 + x) \o @]
      BY <3>1, <2>1, <1>2 DEF ChunkStep
    <3>a. PICK a \in Nat, b \in Nat : a = p + 1 /\ b = p + 1 + x /\ a <= b /\ b <= Len(d) /\ b - a = x
                                      /\ a + 1 = p + 2
      <4>1. p + 1 \in Nat /\ p + 1 + x \in Nat
        OBVIOUS
      <4>2. p + 1 <= p + 1 + x /\ p + 1 + x <= Len(d) /\ (p + 1 + x) - (p + 1) = x /\ (p + 1) + 1 = p + 2
        BY <2>3, <1>0
      <4> QED BY <4>1, <4>2
    <3>b. PICK s : s = SubSeq(d, a + 1, b)
      OBVIOUS
    <3>3. s \in Seq(Tokens) /\ PieceOf(s, d, a, b)
      BY <3>a, <3>b, PieceFacts
    <3>4. Len(s) = x /\ \A i \in 1 .. x : s[i] = c[i]
      <4>1. Len(s) = x /\ \A i \in 1 .. x : s[i] = d[p + 1 + i]
        BY <3>3, <3>a DEF PieceOf
      <4>2. ASSUME NEW i \in 1 .. x PROVE s[i] = c[i]
        <5>1. p + 1 + i <= Len(d)
          BY <2>3, <1>0
        <5> QED BY <5>1, <4>1 DEF ChunkAt
      <4> QED BY <4>1, <4>2
    <3>5. s = c
      BY <3>3, <3>4, BodiesAreTokens, SameSeq
    <3>6. f[p + 3 + x] \in ChunkResults(d)
      BY <3>1 DEF ChunksFrom
    <3>c. PICK r : r = f[p + 3 + x]
      OBVIOUS
    <3>7. r \in [end : 0 .. Len(d) + 1, body : Seq(Tokens)] /\ r.body \in Seq(Tokens)
      BY <3>6, <3>c DEF ChunkResults
    <3>8. c \o r.body \in Seq(Tokens)
      <4>1. c \in Seq(Tokens)
        BY BodiesAreTokens
      <4> QED BY <4>1, <3>7, JoinedIn
    <3>9. f[p] = [r EXCEPT !.body = c \o @]
      BY <3>2, <3>5, <3>a, <3>b, <3>c
    <3>10. f[p].end = r.end /\ f[p].body = c \o r.body
      BY <3>7, <3>8, <3>9, PrependBody
    <3> QED BY <3>6, <3>10, <3>c, <2>3 DEF ChunkGives
  <2> QED BY <2>2, <2>3
<1> QED BY <1>3, <1>4

\* The last, empty chunk, at place p.
LEMMA LastChunk ==
  ASSUME NEW d \in Seq(Tokens), NEW f, ChunksFrom(f, d), NEW p \in 1 .. Len(d) + 1,
         p <= Len(d) => d[p] = Size(0),
         p + 1 <= Len(d) => d[p + 1] = NL
  PROVE  IF p + 1 <= Len(d) THEN f[p] = [end |-> p + 2, body |-> <<>>] ELSE f[p].end = 0
<1>0. Len(d) \in Nat /\ Size(0) # NL
  BY DEF Size, NL
<1>1. lineEnd(d, p) = IF p + 1 <= Len(d) THEN p + 1 ELSE 0
  BY <1>0, LineOfTwo
<1>2. f[p] = ChunkStep(d, f, p)
  BY DEF ChunksFrom
<1>3. CASE ~(p + 1 <= Len(d))
  BY <1>1, <1>2, <1>3 DEF ChunkStep, Fail
<1>4. CASE p + 1 <= Len(d)
  <2>1. lineEnd(d, p) # 0 /\ d[p].k = "size" /\ d[p].n = 0
    BY <1>0, <1>1, <1>4 DEF Size
  <2> QED BY <2>1, <1>2, <1>4 DEF ChunkStep
<1> QED BY <1>3, <1>4

\* What the chunks from place j on come to, h being the concatenations of chunks.
ChunkKnown(f, h, d, m, P, j) ==
  P[j] <= Len(d) + 1 =>
    IF P[Len(m.chunks)] + 1 <= Len(d)
    THEN /\ f[P[j]].end = P[Len(m.chunks)] + 2
         /\ f[P[j]].body \in Seq(Tokens) /\ Conc(Content(m), h[j], f[P[j]].body)
    ELSE f[P[j]].end = 0

LEMMA Regroup ==
  ASSUME NEW T, NEW a, a \in Seq(T), NEW b, b \in Seq(T), NEW c, c \in Seq(T),
         NEW u, NEW w, Conc(u, a, b), Conc(w, u, c)
  PROVE  Conc(w, a, b \o c)
<1>1. (a \o b) \o c = a \o (b \o c)
  BY ConcatAssociative
<1> QED BY <1>1 DEF Conc

LEMMA LastChunkKnown ==
  ASSUME NEW m \in Messages, NEW P, NEW e, ChunkedLayout(P, e, m), NEW d \in Seq(Tokens),
         Agree(d, e), NEW f, ChunksFrom(f, d), NEW h, Joins(h, Tokens, m.chunks),
         Listed(m.chunks, Tokens)
  PROVE  ChunkKnown(f, h, d, m, P, Len(m.chunks))
<1>a. PICK n \in Nat : n = Len(m.chunks)
  BY ListedFacts
<1>b. PICK p \in Nat \ {0}, k \in Nat, l \in Nat :
        p = P[n] /\ k = m.trailers /\ l = Len(e) /\ l = p + 2 + 2 * k
  <2>1. n \in 0 .. Len(m.chunks) /\ m.trailers \in Nat
    BY <1>a, MessageFacts
  <2>2. P[n] \in Nat \ {0}
    BY <2>1, PlacesInOrder
  <2>4. Len(e) \in Nat
    <3>1. e \in Seq(Tokens)
      BY DEF ChunkedLayout
    <3> QED BY <3>1
  <2>3. Len(e) = P[n] + 2 + 2 * m.trailers
    BY <1>a DEF ChunkedLayout
  <2> QED BY <2>1, <2>2, <2>3, <2>4
<1>1. e[p] = Size(0) /\ e[p + 1] = NL
  BY <1>a, <1>b DEF ChunkedLayout
<1>2. Content(m) = h[n] /\ h[n] \in Seq(Tokens)
  BY <1>a, JoinsIsFlatten DEF Content
<1>3. ASSUME p <= Len(d) + 1
      PROVE  IF p + 1 <= Len(d) THEN f[p] = [end |-> p + 2, body |-> <<>>] ELSE f[p].end = 0
  <2>1. p \in 1 .. Len(d) + 1
    BY <1>3
  <2>2. (p <= Len(d) => d[p] = Size(0)) /\ (p + 1 <= Len(d) => d[p + 1] = NL)
    <3>1. ASSUME p <= Len(d) PROVE d[p] = e[p]
      <4>1. p \in 1 .. Len(d) /\ p <= Len(e)
        <5>1. p <= l
          <6>1. l = p + 2 + 2 * k
            BY <1>b
          <6> QED BY ONLY p \in Nat \ {0}, k \in Nat, l \in Nat, <6>1
        <5>2. Len(d) \in Nat /\ Len(e) = l
          BY <1>b
        <5> QED BY ONLY <5>1, <5>2, <3>1, p \in Nat \ {0}
      <4> QED BY <4>1 DEF Agree
    <3>2. ASSUME p + 1 <= Len(d) PROVE d[p + 1] = e[p + 1]
      <4>0. p + 1 <= l
        <5>1. l = p + 2 + 2 * k
          BY <1>b
        <5> QED BY ONLY p \in Nat \ {0}, k \in Nat, l \in Nat, <5>1
      <4>1. p + 1 \in 1 .. Len(d) /\ p + 1 <= Len(e)
        <5>1. Len(d) \in Nat /\ Len(e) = l
          BY <1>b
        <5> QED BY ONLY <5>1, <4>0, <3>2, p \in Nat \ {0}
      <4> QED BY <4>1 DEF Agree
    <3> QED BY <3>1, <3>2, <1>1
  <2> QED BY <2>1, <2>2, LastChunk
<1>4. CASE p + 1 <= Len(d)
  <2>1. f[p] = [end |-> p + 2, body |-> <<>>]
    BY <1>3, <1>4
  <2>2. <<>> \in Seq(Tokens) /\ Conc(Content(m), h[n], <<>>)
    <3>1. h[n] \o <<>> = h[n]
      BY <1>2, ConcatEmptySeq
    <3> QED BY <3>1, <1>2 DEF Conc
  <2>3. f[p].end = p + 2 /\ f[p].body \in Seq(Tokens) /\ Conc(Content(m), h[n], f[p].body)
    BY <2>1, <2>2
  <2> QED BY ONLY <2>3, <1>4, <1>a, <1>b DEF ChunkKnown
<1>5. CASE ~(p + 1 <= Len(d))
  BY <1>3, <1>5, <1>a, <1>b DEF ChunkKnown
<1> QED BY <1>4, <1>5

LEMMA ChunkBefore ==
  ASSUME NEW m \in Messages, NEW P, NEW e, ChunkedLayout(P, e, m), NEW d \in Seq(Tokens),
         Agree(d, e), NEW f, ChunksFrom(f, d), NEW h, Joins(h, Tokens, m.chunks),
         Listed(m.chunks, Tokens), NEW j \in 1 .. Len(m.chunks),
         ChunkKnown(f, h, d, m, P, j)
  PROVE  ChunkKnown(f, h, d, m, P, j - 1)
<1>a. PICK n \in Nat : n = Len(m.chunks)
  BY ListedFacts
<1>b. PICK c \in Seq(BodyTokens) : c = m.chunks[j]
  BY MessageFacts
<1>c. PICK x \in Nat \ {0} : x = Len(c)
  BY <1>b, MessageFacts
<1>0. j \in 0 .. n /\ j - 1 \in 0 .. n /\ n \in 0 .. n
  BY <1>a
<1>d. PICK p \in Nat \ {0}, q \in Nat \ {0}, z \in Nat \ {0} :
        p = P[j - 1] /\ q = P[j] /\ z = P[n] /\ q <= z
  BY <1>0, <1>a, PlacesInOrder
<1>e. PICK l \in Nat : l = Len(e) /\ z + 2 <= l
  <2>1. PICK k \in Nat : k = m.trailers
    BY MessageFacts
  <2>2. Len(e) = z + 2 + 2 * k
    BY <2>1, <1>a, <1>d DEF ChunkedLayout
  <2> QED BY <2>1, <2>2
<1>1. q = p + 3 + x /\ e[p] = Size(x) /\ e[p + 1] = NL /\ \A i \in 1 .. x : e[p + 1 + i] = c[i]
  BY <1>a, <1>b, <1>c, <1>d DEF ChunkedLayout
<1>2. Conc(h[j], h[j - 1], c) /\ h[j - 1] \in Seq(Tokens)
  <2>1. Conc(h[j], h[j - 1], c)
    BY <1>b DEF Joins
  <2>2. h \in [0 .. n -> Seq(Tokens)]
    BY <1>a DEF Joins
  <2> QED BY <2>1, <2>2, <1>0
<1>3. SUFFICES ASSUME p <= Len(d) + 1
               PROVE  IF z + 1 <= Len(d)
                      THEN /\ f[p].end = z + 2
                           /\ f[p].body \in Seq(Tokens) /\ Conc(Content(m), h[j - 1], f[p].body)
                      ELSE f[p].end = 0
  BY <1>a, <1>d DEF ChunkKnown
<1>f. PICK g \in Nat : g = Len(d)
  OBVIOUS
<1>g. /\ p \in Nat /\ q \in Nat /\ z \in Nat /\ x \in Nat /\ l \in Nat /\ g \in Nat
      /\ p # 0 /\ x # 0 /\ q = p + 3 + x /\ q <= z /\ z + 2 <= l
  BY <1>1, <1>d, <1>e
<1>h. \A i \in 1 .. g : i <= l => d[i] = e[i]
  BY <1>e, <1>f DEF Agree
<1>4. IF p + 2 + x <= Len(d)
      THEN /\ f[p + 3 + x] \in ChunkResults(d)
           /\ f[p].end = f[p + 3 + x].end /\ f[p].body = c \o f[p + 3 + x].body
      ELSE f[p].end = 0
  <2>1. p \in 1 .. Len(d) + 1
    BY <1>3
  <2>2. ASSUME NEW i \in 0 .. x + 1, p + i <= g PROVE d[p + i] = e[p + i]
    <3>1. p + i \in 1 .. g /\ p + i <= l
      BY ONLY <1>g, <2>2, i \in 0 .. x + 1
    <3> QED BY <3>1, <1>h
  <2>3. (p <= g => d[p] = Size(x)) /\ (p + 1 <= g => d[p + 1] = NL)
    <3>1. 0 \in 0 .. x + 1 /\ 1 \in 0 .. x + 1 /\ p + 0 = p
      BY ONLY <1>g
    <3> QED BY <3>1, <2>2, <1>1
  <2>4. ASSUME NEW i \in 1 .. x, p + 1 + i <= g PROVE d[p + 1 + i] = c[i]
    <3>1. 1 + i \in 0 .. x + 1 /\ p + (1 + i) = p + 1 + i
      BY ONLY <1>g, i \in 1 .. x
    <3>2. d[p + 1 + i] = e[p + 1 + i]
      BY <3>1, <2>2, <2>4
    <3> QED BY <3>2, <1>1
  <2>5. ChunkAt(d, p, c, x)
    BY <2>3, <2>4, <1>f DEF ChunkAt
  <2>6. ChunkGives(f, d, p, c, x)
    BY <2>1, <2>5, <1>c, OneChunk
  <2> QED BY <2>6 DEF ChunkGives
<1>5. CASE ~(p + 2 + x <= g)
  <2>1. ~(z + 1 <= g)
    BY ONLY <1>5, <1>g
  <2> QED BY <2>1, <1>4, <1>5, <1>f
<1>6. CASE p + 2 + x <= g
  <2>a. PICK r : r = f[q]
    OBVIOUS
  <2>1. r \in ChunkResults(d) /\ f[p].end = r.end /\ f[p].body = c \o r.body
    BY <1>1, <1>4, <1>6, <1>f, <2>a
  <2>2. r.body \in Seq(Tokens)
    BY <2>1 DEF ChunkResults
  <2>3. q <= Len(d) + 1
    BY <1>1, <1>6, <1>f
  <2>4. IF z + 1 <= Len(d) THEN r.end = z + 2 /\ Conc(Content(m), h[j], r.body) ELSE r.end = 0
    BY <2>3, <2>a, <1>a, <1>d DEF ChunkKnown
  <2>5. c \in Seq(Tokens) /\ c \o r.body \in Seq(Tokens)
    BY <2>2, BodiesAreTokens, JoinedIn
  <2>6. Conc(Content(m), h[j], r.body) => Conc(Content(m), h[j - 1], c \o r.body)
    <3>1. SUFFICES ASSUME Conc(Content(m), h[j], r.body)
                   PROVE  Conc(Content(m), h[j - 1], c \o r.body)
      OBVIOUS
    <3>a. PICK a, u, w, v : a = h[j - 1] /\ u = h[j] /\ w = Content(m) /\ v = r.body
      OBVIOUS
    <3>2. a \in Seq(Tokens) /\ c \in Seq(Tokens) /\ v \in Seq(Tokens) /\ Conc(u, a, c) /\ Conc(w, u, v)
      BY <3>1, <3>a, <1>2, <2>2, <2>5
    <3>3. Conc(w, a, c \o v)
      BY ONLY <3>2, Regroup
    <3> QED BY <3>3, <3>a
  <2> QED BY <2>1, <2>4, <2>5, <2>6
<1> QED BY <1>5, <1>6, <1>f

LEMMA ChunksKnown ==
  ASSUME NEW m \in Messages, NEW P, NEW e, ChunkedLayout(P, e, m), NEW d \in Seq(Tokens),
         Agree(d, e), NEW f, ChunksFrom(f, d), Len(d) >= 3
  PROVE  LET z == P[Len(m.chunks)] IN
         IF z + 1 <= Len(d) THEN f[4] = [end |-> z + 2, body |-> Content(m)] ELSE f[4].end = 0
<1>0. Listed(m.chunks, Tokens)
  <2>1. Listed(m.chunks, BodyTokens)
    BY MessageFacts
  <2> QED BY <2>1 DEF Listed, Tokens
<1>a. PICK n \in Nat : n = Len(m.chunks)
  BY <1>0, ListedFacts
<1>1. PICK h : Joins(h, Tokens, m.chunks)
  BY <1>0, JoinsExist
<1>b. PICK S : S = {q \in 1 .. n + 1 : ChunkKnown(f, h, d, m, P, q - 1)}
  OBVIOUS
<1>2. ASSUME NEW q \in 1 .. n + 1, q + 1 .. n + 1 \subseteq S PROVE q \in S
  <2>1. CASE q = n + 1
    <3>1. q - 1 = Len(m.chunks)
      BY <2>1, <1>a
    <3>2. ChunkKnown(f, h, d, m, P, Len(m.chunks))
      BY <1>0, <1>1, LastChunkKnown
    <3> QED BY <3>1, <3>2, <1>b
  <2>2. CASE q # n + 1
    <3>1. q \in 1 .. Len(m.chunks) /\ q + 1 \in q + 1 .. n + 1 /\ (q + 1) - 1 = q
      BY <2>2, <1>a
    <3>2. ChunkKnown(f, h, d, m, P, q)
      BY <3>1, <1>2, <1>b
    <3>3. ChunkKnown(f, h, d, m, P, q - 1)
      BY <3>1, <3>2, <1>0, <1>1, ChunkBefore
    <3> QED BY <3>3, <1>b
  <2> QED BY <2>1, <2>2
<1>3. 1 .. n + 1 \subseteq S
  <2>1. n + 1 \in Nat
    OBVIOUS
  <2> QED BY <2>1, <1>2, Backwards
<1>4. ChunkKnown(f, h, d, m, P, 0)
  <2>1. 1 \in 1 .. n + 1 /\ 1 - 1 = 0
    OBVIOUS
  <2> QED BY <2>1, <1>3, <1>b
<1>c. PICK z : z = P[Len(m.chunks)]
  OBVIOUS
<1>5. P[0] = 4 /\ 4 <= Len(d) + 1 /\ h[0] = <<>>
  BY <1>1 DEF ChunkedLayout, Joins
<1>6. IF z + 1 <= Len(d)
      THEN f[4].end = z + 2 /\ f[4].body \in Seq(Tokens) /\ Conc(Content(m), <<>>, f[4].body)
      ELSE f[4].end = 0
  BY <1>4, <1>5, <1>c DEF ChunkKnown
<1>7. f[4] \in [end : 0 .. Len(d) + 1, body : Seq(Tokens)]
  <2>1. 4 \in 1 .. Len(d) + 1
    BY <1>5
  <2> QED BY <2>1 DEF ChunksFrom, ChunkResults
<1>8. CASE z + 1 <= Len(d)
  <2>1. f[4].body = Content(m) /\ f[4].end = z + 2
    BY <1>6, <1>8, EmptyLeft
  <2> QED BY <2>1, <1>7, <1>8, <1>c
<1>9. CASE ~(z + 1 <= Len(d))
  BY <1>6, <1>9, <1>c
<1> QED BY <1>8, <1>9

\* What the trailers from the i-th on come to, the first of them being at place a.
TrailKnown(t, d, l, a, i) ==
  a + 2 * i <= Len(d) + 1 => t[a + 2 * i] = IF l <= Len(d) THEN l + 1 ELSE 0

\* Trailers at place a, as far as they are there, and the empty line at place l.
TrailAt(d, l, a, k) ==
  /\ l = a + 2 * k /\ (l <= Len(d) => d[l] = NL)
  /\ \A i \in 0 .. k - 1 : /\ a + 2 * i <= Len(d) => d[a + 2 * i] = Line
                           /\ a + 2 * i + 1 <= Len(d) => d[a + 2 * i + 1] = NL

LEMMA TrailEnd ==
  ASSUME NEW d \in Seq(Tokens), NEW t, TrailingFrom(t, d), NEW a \in Nat \ {0}, NEW k \in Nat,
         NEW l, TrailAt(d, l, a, k)
  PROVE  TrailKnown(t, d, l, a, k)
<1>a. PICK g \in Nat : g = Len(d)
  OBVIOUS
<1>1. l = a + 2 * k /\ l \in Nat \ {0} /\ (l <= g => d[l] = NL)
  BY <1>a DEF TrailAt
<1>2. SUFFICES ASSUME l <= g + 1 PROVE t[l] = IF l <= g THEN l + 1 ELSE 0
  BY <1>1, <1>a DEF TrailKnown
<1>3. l \in 1 .. Len(d) + 1
  BY <1>1, <1>2, <1>a
<1>4. t[l] = TrailStep(d, t, l)
  BY <1>3 DEF TrailingFrom
<1>b. PICK x : x = lineEnd(d, l)
  OBVIOUS
<1>5. LineEnds(d, l, x)
  BY <1>1, <1>b, LineEndIs
<1>6. CASE l <= g
  <2>1. l \in l .. Len(d) /\ d[l] = NL
    BY <1>1, <1>6, <1>a
  <2>2. x # 0
    <3>1. l \in Nat \ {0} /\ Len(d) \in Nat
      BY <1>1
    <3> QED BY ONLY <3>1, <1>5, <2>1 DEF LineEnds
  <2>c. x \in l .. Len(d) /\ \A i \in l .. x - 1 : d[i] # NL
    BY <1>5, <2>2 DEF LineEnds
  <2>3. x \in l .. Len(d) /\ ~(l \in l .. x - 1)
    BY <2>c, <2>1
  <2>4. x = l
    BY <2>3, <1>1
  <2> QED BY <2>2, <2>4, <1>4, <1>6, <1>b DEF TrailStep
<1>7. CASE ~(l <= g)
  <2>1. ~(x \in l .. Len(d))
    BY <1>1, <1>7, <1>a
  <2>2. x = 0
    BY <1>5, <2>1 DEF LineEnds
  <2> QED BY <2>2, <1>4, <1>7, <1>b DEF TrailStep
<1> QED BY <1>6, <1>7

LEMMA TrailBefore ==
  ASSUME NEW d \in Seq(Tokens), NEW t, TrailingFrom(t, d), NEW a \in Nat \ {0}, NEW k \in Nat,
         NEW l, TrailAt(d, l, a, k), NEW i \in 1 .. k, TrailKnown(t, d, l, a, i)
  PROVE  TrailKnown(t, d, l, a, i - 1)
<1>a. PICK g \in Nat : g = Len(d)
  OBVIOUS
<1>b. PICK p \in Nat \ {0} : p = a + 2 * (i - 1) /\ p + 2 = a + 2 * i /\ p + 2 <= a + 2 * k
  OBVIOUS
<1>1. l = a + 2 * k /\ (p <= g => d[p] = Line) /\ (p + 1 <= g => d[p + 1] = NL)
  <2>1. i - 1 \in 0 .. k - 1
    OBVIOUS
  <2> QED BY <2>1, <1>a, <1>b DEF TrailAt
<1>2. SUFFICES ASSUME p <= g + 1 PROVE t[p] = IF l <= g THEN l + 1 ELSE 0
  BY <1>a, <1>b DEF TrailKnown
<1>3. p \in 1 .. Len(d) + 1
  BY <1>2, <1>a
<1>4. t[p] = TrailStep(d, t, p)
  BY <1>3 DEF TrailingFrom
<1>5. lineEnd(d, p) = IF p + 1 <= g THEN p + 1 ELSE 0
  <2>1. Line # NL
    BY DEF Line, NL
  <2> QED BY <2>1, <1>1, <1>3, <1>a, LineOfTwo
<1>6. CASE p + 1 <= g
  <2>1. p + 2 <= g + 1 /\ p + 1 + 1 = p + 2
    BY <1>6
  <2>2. t[p + 2] = IF l <= g THEN l + 1 ELSE 0
    BY <2>1, <1>a, <1>b DEF TrailKnown
  <2>3. t[p] = t[p + 2]
    BY <2>1, <1>4, <1>5, <1>6 DEF TrailStep
  <2> QED BY <2>2, <2>3
<1>7. CASE ~(p + 1 <= g)
  <2>1. ~(l <= g)
    BY <1>1, <1>7, <1>b
  <2> QED BY <2>1, <1>4, <1>5, <1>7 DEF TrailStep
<1> QED BY <1>6, <1>7

LEMMA TrailersKnown ==
  ASSUME NEW d \in Seq(Tokens), NEW t, TrailingFrom(t, d), NEW a \in Nat \ {0}, NEW k \in Nat,
         NEW l, TrailAt(d, l, a, k), a <= Len(d) + 1
  PROVE  t[a] = IF l <= Len(d) THEN l + 1 ELSE 0
<1>b. PICK S : S = {q \in 1 .. k + 1 : TrailKnown(t, d, l, a, q - 1)}
  OBVIOUS
<1>2. ASSUME NEW q \in 1 .. k + 1, q + 1 .. k + 1 \subseteq S PROVE q \in S
  <2>1. CASE q = k + 1
    <3>1. q - 1 = k /\ TrailKnown(t, d, l, a, k)
      BY <2>1, TrailEnd
    <3> QED BY <3>1, <1>b
  <2>2. CASE q # k + 1
    <3>1. q \in 1 .. k /\ q + 1 \in q + 1 .. k + 1 /\ (q + 1) - 1 = q
      BY <2>2
    <3>2. TrailKnown(t, d, l, a, q)
      BY <3>1, <1>2, <1>b
    <3>3. TrailKnown(t, d, l, a, q - 1)
      BY <3>1, <3>2, TrailBefore
    <3> QED BY <3>3, <1>b
  <2> QED BY <2>1, <2>2
<1>3. 1 .. k + 1 \subseteq S
  <2>1. k + 1 \in Nat
    OBVIOUS
  <2> QED BY <2>1, <1>2, Backwards
<1>4. TrailKnown(t, d, l, a, 0)
  <2>1. 1 \in 1 .. k + 1 /\ 1 - 1 = 0
    OBVIOUS
  <2> QED BY <2>1, <1>3, <1>b
<1>5. a + 2 * 0 = a
  OBVIOUS
<1> QED BY <1>4, <1>5 DEF TrailKnown

\* The trailers of an encoded message in what there is of it.
LEMMA TrailersThere ==
  ASSUME NEW m \in Messages, NEW P, NEW e, ChunkedLayout(P, e, m), NEW d \in Seq(Tokens),
         Agree(d, e)
  PROVE  TrailAt(d, Len(e), P[Len(m.chunks)] + 2, m.trailers)
<1>a. PICK z \in Nat, k \in Nat : z = P[Len(m.chunks)] /\ k = m.trailers
  <2>1. Len(m.chunks) \in 0 .. Len(m.chunks) /\ m.trailers \in Nat
    BY MessageFacts, ListedFacts
  <2> QED BY <2>1, PlacesInOrder
<1>b. PICK l \in Nat, g \in Nat : l = Len(e) /\ g = Len(d)
  <2>1. e \in Seq(Tokens)
    BY DEF ChunkedLayout
  <2> QED BY <2>1
<1>1. l = z + 2 + 2 * k /\ e[l] = NL
      /\ \A i \in 0 .. k - 1 : e[z + 2 + 2 * i] = Line /\ e[z + 3 + 2 * i] = NL
  BY <1>a, <1>b DEF ChunkedLayout
<1>2. \A x \in 1 .. g : x <= l => d[x] = e[x]
  BY <1>b DEF Agree
<1>3. l <= g => d[l] = NL
  <2>1. l \in Nat \ {0}
    BY <1>1
  <2> QED BY <2>1, <1>1, <1>2
<1>4. ASSUME NEW i \in 0 .. k - 1
      PROVE  /\ z + 2 + 2 * i <= g => d[z + 2 + 2 * i] = Line
             /\ z + 2 + 2 * i + 1 <= g => d[z + 2 + 2 * i + 1] = NL
  <2>1. PICK x \in Nat \ {0} : x = z + 2 + 2 * i /\ x + 1 <= l /\ x + 1 = z + 3 + 2 * i
    BY <1>1
  <2>2. e[x] = Line /\ e[x + 1] = NL
    BY <2>1, <1>1
  <2>3. x <= l
    BY <2>1
  <2> QED BY <2>1, <2>2, <2>3, <1>2
<1> QED BY <1>1, <1>3, <1>4, <1>a, <1>b DEF TrailAt

LEMMA ParseChunked ==
  ASSUME NEW m, IsMessage(m), m.head.te, NEW d \in Seq(Tokens), NEW e, e = Encoded(m), Agree(d, e)
  PROVE  TakenWhole(Parse(d), d, e, m)
<1>0. m \in Messages
  BY DEF IsMessage, Messages
<1>1. PICK P : ChunkedLayout(P, e, m)
  BY <1>0, EncodedChunked
<1>a. PICK z \in Nat \ {0}, k \in Nat : z = P[Len(m.chunks)] /\ k = m.trailers
  <2>1. Len(m.chunks) \in 0 .. Len(m.chunks) /\ m.trailers \in Nat
    BY <1>0, MessageFacts, ListedFacts
  <2> QED BY <2>1, <1>0, <1>1, PlacesInOrder
<1>b. PICK l \in Nat, g \in Nat : l = Len(e) /\ g = Len(d)
  <2>1. e \in Seq(Tokens)
    BY <1>1 DEF ChunkedLayout
  <2> QED BY <2>1
<1>2. l = z + 2 + 2 * k /\ e[1] = m.head /\ e[2] = NL /\ e[3] = NL
  BY <1>1, <1>a, <1>b DEF ChunkedLayout
<1>3. 4 <= z /\ 3 <= l
  <2>1. 0 \in 0 .. Len(m.chunks) /\ P[0] = 4
    BY <1>0, <1>1, MessageFacts, ListedFacts DEF ChunkedLayout
  <2>2. P[0] <= z
    BY <2>1, <1>0, <1>1, <1>a, PlacesInOrder
  <2> QED BY <2>1, <2>2, <1>2
<1>4. \A x \in 1 .. g : x <= l => d[x] = e[x]
  BY <1>b DEF Agree
<1>5. CASE g < 3
  <2>1. Len(d) >= 1 => d[1] = m.head
    BY <1>2, <1>3, <1>4, <1>b
  <2>2. Parse(d).used = 0
    BY <2>1, <1>0, <1>5, <1>b, HeaderMissing
  <2>3. ~(Len(d) >= Len(e))
    BY <1>3, <1>5, <1>b
  <2> QED BY <2>2, <2>3 DEF TakenWhole
<1>6. CASE g >= 3
  <2>1. d[1] = m.head /\ d[2] = NL /\ d[3] = NL
    BY <1>2, <1>3, <1>4, <1>6
  <2>2. headerEnd(d) = 1 /\ hasHeader(d) /\ HeadOf(d) = m.head /\ d # <<>>
    BY <2>1, <1>0, <1>6, <1>b, HeaderSeen
  <2>3. Parse(d) = chunkedBody(d)
    <3>1. CASE isRequest
      BY <3>1, <2>2 DEF Parse, ParseRequest
    <3>2. CASE ~isRequest
      <4>1. ~bodiless(m.head)
        BY <3>2, Http1Assumption DEF IsMessage, bodiless
      <4> QED BY <3>2, <4>1, <2>2 DEF Parse, ParseResponse
    <3> QED BY <3>1, <3>2
  <2>4. PICK f : ChunksFrom(f, d) /\ \A p : chunks(d, p) = f[p]
    BY ChunksRecursion
  <2>5. PICK t : TrailingFrom(t, d) /\ \A p : trailing(d, p) = t[p]
    BY TrailingRecursion
  <2>6. IF z + 1 <= Len(d) THEN f[4] = [end |-> z + 2, body |-> Content(m)] ELSE f[4].end = 0
    BY <2>4, <1>0, <1>1, <1>6, <1>a, <1>b, ChunksKnown
  <2>a. PICK c : c = chunks(d, 4) /\ c = f[4]
    BY <2>4
  <2>b. PICK end : end = IF c.end = 0 THEN 0 ELSE trailing(d, c.end)
    OBVIOUS
  <2>7. chunkedBody(d) = IF end = 0 THEN NotYet ELSE Parsed(d, end - 1, c.body)
    BY <2>2, <2>a, <2>b DEF chunkedBody
  <2>8. CASE z + 1 <= g
    <3>1. c.end = z + 2 /\ c.body = Content(m)
      BY <2>6, <2>8, <2>a, <1>b
    <3>2. end = t[z + 2]
      BY <3>1, <2>5, <2>b
    <3>a. PICK a \in Nat \ {0} : a = z + 2 /\ a <= Len(d) + 1
      BY <2>8, <1>b
    <3>3. TrailAt(d, l, a, k)
      BY <3>a, <1>0, <1>1, <1>a, <1>b, TrailersThere
    <3>4. t[a] = IF l <= Len(d) THEN l + 1 ELSE 0
      BY <3>a, <3>3, <2>5, TrailersKnown
    <3>5. CASE l <= g
      <4>1. end = l + 1 /\ end # 0 /\ end - 1 = l
        BY <3>2, <3>4, <3>5, <3>a, <1>b
      <4>2. Parse(d) = Parsed(d, l, Content(m))
        BY <4>1, <3>1, <2>3, <2>7
      <4> QED BY <4>2, <3>5, <2>2, <1>b DEF TakenWhole, Parsed
    <3>6. CASE ~(l <= g)
      <4>1. end = 0
        BY <3>2, <3>4, <3>6, <3>a, <1>b
      <4>2. Parse(d) = NotYet /\ ~(Len(d) >= Len(e))
        BY <4>1, <3>6, <2>3, <2>7, <1>b
      <4> QED BY <4>2 DEF TakenWhole, NotYet
    <3> QED BY <3>5, <3>6
  <2>9. CASE ~(z + 1 <= g)
    <3>1. c.end = 0
      BY <2>6, <2>9, <2>a, <1>b
    <3>2. end = 0
      BY <3>1, <2>b
    <3>3. Parse(d) = NotYet
      BY <3>2, <2>3, <2>7
    <3>4. ~(Len(d) >= Len(e))
      BY <2>9, <1>2, <1>b
    <3> QED BY <3>3, <3>4 DEF TakenWhole, NotYet
  <2> QED BY <2>8, <2>9
<1> QED BY <1>5, <1>6

\* A message whose end can be told is taken when it is whole, and not before.
LEMMA ParseMessage ==
  ASSUME NEW m, IsMessage(m), ~UntilClose(m), NEW d \in Seq(Tokens), NEW e, e = Encoded(m),
         Agree(d, e)
  PROVE  TakenWhole(Parse(d), d, e, m)
<1>1. m.head.te \in BOOLEAN
  BY MessageFacts DEF IsMessage, Messages
<1>2. CASE m.head.te
  BY <1>2, ParseChunked
<1>3. CASE ~m.head.te
  BY <1>3, ParsePlain
<1> QED BY <1>1, <1>2, <1>3

LEMMA ParseClose ==
  ASSUME NEW m, IsMessage(m), UntilClose(m), NEW d \in Seq(Tokens), Len(d) >= 3,
         d[1] = m.head, d[2] = NL, d[3] = NL
  PROVE  Parse(d) = [used |-> Len(d), head |-> m.head, body |-> SubSeq(d, 4, Len(d))]
<1>1. headerEnd(d) = 1 /\ hasHeader(d) /\ HeadOf(d) = m.head /\ d # <<>>
  BY HeaderSeen DEF IsMessage, Messages
<1>2. Parse(d) = untilClose(d)
  BY <1>1 DEF UntilClose, Parse, ParseResponse
<1>3. 1 + 3 = 4
  OBVIOUS
<1> QED BY <1>1, <1>2, <1>3 DEF untilClose, Parsed

\* Body tokens alone are no message, or one that goes on to the end of what there is.
LEMMA ParseBodyOnly ==
  ASSUME ~isRequest, NEW d \in Seq(BodyTokens)
  PROVE  Parse(d).used = 0 \/ Parse(d).used = Len(d)
<1>1. CASE d = <<>> \/ ~hasHeader(d)
  BY <1>1 DEF Parse, ParseResponse, NotYet
<1>2. CASE ~(d = <<>> \/ ~hasHeader(d))
  <2>1. d[1] \in BodyTokens
    BY <1>2
  <2>2. d[1].k # "head"
    BY <2>1 DEF BodyTokens, NL, Word, Text
  <2>3. HeadOf(d) = NoHead
    BY <2>2 DEF HeadOf
  <2>4. ~bodiless(NoHead) /\ ~NoHead.te /\ NoHead.cl = NoLength /\ ~isPersistent(NoHead)
    BY DEF NoHead, bodiless, isPersistent
  <2>5. Parse(d) = untilClose(d)
    BY <1>2, <2>3, <2>4 DEF Parse, ParseResponse
  <2> QED BY <2>5 DEF untilClose, Parsed
<1> QED BY <1>1, <1>2

-----------------------------------------------------------------------------
(* The messages on the wire.                                                *)

Conversation ==
  /\ Len(msgs) \in Nat \ {0}
  /\ \A i \in 1 .. Len(msgs) : IsMessage(msgs[i])
  /\ \A i \in 1 .. Len(msgs) - 1 : ~UntilClose(msgs[i])

\* D is all that the peer sends, and L[n] the length of the first n messages.
WireIs(D, L) ==
  /\ D \in Seq(Tokens) /\ D = Wire(Len(msgs))
  /\ L \in [0 .. Len(msgs) -> Nat] /\ L[0] = 0 /\ L[Len(msgs)] = Len(D)
  /\ \A n \in 0 .. Len(msgs) : Len(Wire(n)) = L[n]
  /\ \A j \in 0 .. Len(msgs) : \A k \in j .. Len(msgs) : L[j] <= L[k]
  /\ \A j \in 1 .. Len(msgs) :
       /\ L[j] = L[j - 1] + Len(Encoded(msgs[j]))
       /\ \A i \in 1 .. Len(Encoded(msgs[j])) : D[L[j - 1] + i] = Encoded(msgs[j])[i]

LEMMA EncodedFacts ==
  ASSUME NEW m \in Messages
  PROVE  /\ Encoded(m) \in Seq(Tokens) /\ Len(Encoded(m)) \in Nat /\ 3 <= Len(Encoded(m))
         /\ Encoded(m)[1] = m.head /\ Encoded(m)[2] = NL /\ Encoded(m)[3] = NL
<1>a. PICK e : e = Encoded(m)
  OBVIOUS
<1>1. m.head.te \in BOOLEAN
  BY MessageFacts
<1>2. CASE m.head.te
  <2>1. PICK P : ChunkedLayout(P, e, m)
    BY <1>2, <1>a, EncodedChunked
  <2>2. PICK z \in Nat \ {0}, k \in Nat : z = P[Len(m.chunks)] /\ k = m.trailers
    <3>1. Len(m.chunks) \in 0 .. Len(m.chunks) /\ m.trailers \in Nat
      BY MessageFacts, ListedFacts
    <3> QED BY <3>1, <2>1, PlacesInOrder
  <2>3. e \in Seq(Tokens) /\ Len(e) = z + 2 + 2 * k /\ e[1] = m.head /\ e[2] = NL /\ e[3] = NL
    BY <2>1, <2>2 DEF ChunkedLayout
  <2>4. 3 <= z + 2 + 2 * k
    <3>1. z \in Nat \ {0} /\ k \in Nat
      OBVIOUS
    <3> QED BY ONLY <3>1
  <2> QED BY <2>3, <2>4, <1>a
<1>3. CASE ~m.head.te
  <2>1. PlainLayout(e, m)
    BY <1>3, <1>a, EncodedPlain
  <2>2. PICK c \in Seq(BodyTokens) : c = Content(m)
    BY MessageFacts
  <2>3. e \in Seq(Tokens) /\ Len(e) = 3 + Len(c) /\ e[1] = m.head /\ e[2] = NL /\ e[3] = NL
    BY <2>1, <2>2 DEF PlainLayout
  <2>4. Len(c) \in Nat /\ 3 <= 3 + Len(c)
    OBVIOUS
  <2> QED BY <2>3, <2>4, <1>a
<1> QED BY <1>1, <1>2, <1>3

LEMMA WireExists ==
  ASSUME Conversation
  PROVE  \E D, L : WireIs(D, L)
<1>a. PICK n \in Nat \ {0} : n = Len(msgs) /\ \A i \in 1 .. n : msgs[i] \in Messages
  BY DEF Conversation, IsMessage, Messages
<1>b. PICK s : s = [i \in 1 .. n |-> Encoded(msgs[i])]
  OBVIOUS
<1>1. \A i \in 1 .. n : s[i] = Encoded(msgs[i]) /\ s[i] \in Seq(Tokens)
  BY <1>a, <1>b, EncodedFacts
<1>2. Listed(s, Tokens) /\ Len(s) = n
  BY <1>1, <1>b DEF Listed
<1>3. PICK f : Joins(f, Tokens, s)
  BY <1>2, JoinsExist
<1>4. ASSUME NEW k \in 0 .. n PROVE Wire(k) = f[k]
  <2>a. PICK t : t = [i \in 1 .. k |-> Encoded(msgs[i])]
    OBVIOUS
  <2>1. Len(t) = k /\ \A j \in 1 .. k : t[j] = s[j] /\ t[j] \in Seq(Tokens)
    BY <2>a, <1>1
  <2>2. Listed(t, Tokens)
    BY <2>1, <2>a DEF Listed
  <2>3. PICK g : Joins(g, Tokens, t) /\ \A j \in 0 .. k : g[j] = f[j]
    BY <2>1, <1>2, <1>3, JoinsFirst
  <2>4. FlattenSeq(t) = g[k]
    BY <2>1, <2>2, <2>3, JoinsIsFlatten
  <2> QED BY <2>3, <2>4, <2>a DEF Wire
<1>5. ASSUME NEW j \in 0 .. n, NEW k \in j .. n
      PROVE  f[j] \in Seq(Tokens) /\ Len(f[j]) <= Len(f[k])
  BY <1>2, <1>3, JoinsPrefix
<1>c. PICK L : L = [k \in 0 .. n |-> Len(f[k])]
  OBVIOUS
<1>d. PICK D : D = f[n]
  OBVIOUS
<1>6. \A k \in 0 .. n : L[k] = Len(f[k]) /\ L[k] \in Nat
  <2> SUFFICES ASSUME NEW k \in 0 .. n PROVE L[k] = Len(f[k]) /\ L[k] \in Nat
    OBVIOUS
  <2>1. f[k] \in Seq(Tokens)
    BY <1>5
  <2> QED BY <2>1, <1>c
<1>7. L \in [0 .. n -> Nat] /\ D \in Seq(Tokens) /\ D = Wire(n)
  <2>1. n \in 0 .. n
    OBVIOUS
  <2> QED BY <2>1, <1>4, <1>5, <1>6, <1>c, <1>d
<1>8. L[0] = 0 /\ L[n] = Len(D)
  <2>1. f[0] = <<>>
    BY <1>3 DEF Joins
  <2> QED BY <2>1, <1>6, <1>d
<1>9. \A k \in 0 .. n : Len(Wire(k)) = L[k]
  BY <1>4, <1>6
<1>10. \A j \in 0 .. n : \A k \in j .. n : L[j] <= L[k]
  BY <1>5, <1>6
<1>11. ASSUME NEW j \in 1 .. n
       PROVE  /\ L[j] = L[j - 1] + Len(Encoded(msgs[j]))
              /\ \A i \in 1 .. Len(Encoded(msgs[j])) : D[L[j - 1] + i] = Encoded(msgs[j])[i]
  <2>1. Listed(s, Tokens) /\ Joins(f, Tokens, s) /\ j \in 1 .. Len(s) /\ n \in j .. Len(s)
    BY <1>2, <1>3
  <2>2. Placed(f, s, j, n)
    BY <2>1, JoinsPlace
  <2>3. j \in 0 .. n /\ j - 1 \in 0 .. n
    OBVIOUS
  <2> QED BY <2>2, <2>3, <1>1, <1>6, <1>d DEF Placed
<1>12. WireIs(D, L)
  BY <1>7, <1>8, <1>9, <1>10, <1>11, <1>a DEF WireIs
<1> QED BY <1>12

\* The number of messages in the first r tokens, of those whose end can be told.
WholeAt(L, r, w) ==
  /\ w \in 0 .. Framed /\ L[w] <= r
  /\ \A i \in 0 .. Framed : L[i] <= r => i <= w

\* A response that the end of the connection ends has begun: its header is there.
Begun(L, r) == Framed < Len(msgs) /\ L[Len(msgs) - 1] + 3 <= r

LEMMA FramedFacts ==
  ASSUME Conversation
  PROVE  /\ Framed \in Nat /\ Framed <= Len(msgs) /\ Len(msgs) - 1 <= Framed
         /\ Framed < Len(msgs) <=> UntilClose(msgs[Len(msgs)])
         /\ \A i \in 1 .. Framed : ~UntilClose(msgs[i])
<1>a. PICK n \in Nat \ {0} : n = Len(msgs) /\ \A i \in 1 .. n - 1 : ~UntilClose(msgs[i])
  BY DEF Conversation
<1>1. Framed = IF UntilClose(msgs[n]) THEN n - 1 ELSE n
  BY <1>a DEF Framed
<1>2. CASE UntilClose(msgs[n])
  BY <1>1, <1>2, <1>a
<1>3. CASE ~UntilClose(msgs[n])
  <2>1. ASSUME NEW i \in 1 .. n PROVE ~UntilClose(msgs[i])
    <3>1. CASE i = n
      BY <3>1, <1>3
    <3>2. CASE i # n
      BY <3>2, <1>a
    <3> QED BY <3>1, <3>2
  <2> QED BY <2>1, <1>1, <1>3, <1>a
<1> QED BY <1>2, <1>3

\* A set of numbers up to n has a greatest.
LEMMA Greatest ==
  ASSUME NEW n \in Nat, NEW S, S \subseteq 0 .. n, S # {}
  PROVE  Max(S) \in S /\ \A y \in S : Max(S) >= y
<1>a. PICK T : T = {k \in 0 .. n : n - k \in S}
  OBVIOUS
<1>1. T # {} /\ T \subseteq Nat
  <2>1. PICK x \in S : TRUE
    OBVIOUS
  <2>2. n - x \in 0 .. n /\ n - (n - x) = x
    BY <2>1
  <2>3. n - x \in T
    BY <2>1, <2>2, <1>a
  <2> QED BY <2>3, <1>a
<1>2. PICK k \in T : \A j \in T : k <= j
  BY <1>1, Least
<1>3. n - k \in S
  BY <1>2, <1>a
<1>4. ASSUME NEW y \in S PROVE n - k >= y
  <2>1. y \in 0 .. n /\ n - y \in 0 .. n /\ n - (n - y) = y
    OBVIOUS
  <2>2. k <= n - y /\ k \in 0 .. n
    BY <2>1, <1>2, <1>a
  <2> QED BY <2>1, <2>2
<1> QED BY <1>3, <1>4 DEF Max

LEMMA WholeIs ==
  ASSUME Conversation, NEW D, NEW L, WireIs(D, L), read \in Nat
  PROVE  WholeAt(L, read, Whole)
<1>a. PICK n \in Nat : n = Framed /\ n <= Len(msgs) /\ Len(msgs) \in Nat
  BY FramedFacts DEF Conversation
<1>1. \A i \in 0 .. n : Len(Wire(i)) = L[i]
  BY <1>a DEF WireIs
<1>b. PICK S : S = {i \in 0 .. n : L[i] <= read}
  OBVIOUS
<1>2. Whole = Max(S)
  BY <1>1, <1>a, <1>b DEF Whole
<1>3. 0 \in S
  BY <1>a, <1>b DEF WireIs
<1>4. Max(S) \in S /\ \A y \in S : Max(S) >= y
  BY <1>3, <1>b, Greatest
<1>5. \A y \in S : y <= Max(S)
  BY <1>4, <1>b
<1> QED BY <1>2, <1>4, <1>5, <1>a, <1>b DEF WholeAt

LEMMA WholeExists ==
  ASSUME Conversation, NEW D, NEW L, WireIs(D, L), NEW r \in Nat
  PROVE  \E w : WholeAt(L, r, w)
<1>a. PICK n \in Nat : n = Framed /\ n <= Len(msgs) /\ Len(msgs) \in Nat
  BY FramedFacts DEF Conversation
<1>b. PICK S : S = {i \in 0 .. n : L[i] <= r}
  OBVIOUS
<1>3. 0 \in S
  BY <1>a, <1>b DEF WireIs
<1>4. Max(S) \in S /\ \A y \in S : Max(S) >= y
  BY <1>3, <1>b, Greatest
<1>5. \A y \in S : y <= Max(S)
  BY <1>4, <1>b
<1> QED BY <1>4, <1>5, <1>a, <1>b DEF WholeAt

LEMMA WholeFacts ==
  ASSUME Conversation, NEW D, NEW L, WireIs(D, L), NEW r \in Nat, NEW w, WholeAt(L, r, w)
  PROVE  /\ w \in 0 .. Len(msgs) /\ w <= Framed
         /\ \A j \in 0 .. Len(msgs) : L[j] \in Nat
         /\ \A j \in 0 .. w : L[j] <= L[w] /\ L[j] <= r
         /\ w < Framed => w + 1 \in 1 .. Framed /\ r < L[w + 1]
         /\ Begun(L, r) => w = Len(msgs) - 1 /\ w = Framed
<1>a. PICK n \in Nat \ {0} : n = Len(msgs)
  BY DEF Conversation
<1>b. PICK g \in Nat : g = Framed /\ g <= n /\ n - 1 <= g
  BY <1>a, FramedFacts
<1>0. w \in 0 .. g /\ L[w] <= r /\ \A i \in 0 .. g : L[i] <= r => i <= w
  BY <1>b DEF WholeAt
<1>1. (\A j \in 0 .. n : L[j] \in Nat) /\ \A j \in 0 .. n : \A k \in j .. n : L[j] <= L[k]
  BY <1>a DEF WireIs
<1>2. w \in 0 .. n
  BY <1>0, <1>b
<1>3. ASSUME NEW j \in 0 .. w PROVE L[j] <= L[w] /\ L[j] <= r
  <2>1. j \in 0 .. n /\ w \in j .. n
    BY <1>2
  <2>2. L[j] <= L[w]
    BY <2>1, <1>1
  <2>3. L[j] \in Nat /\ L[w] \in Nat
    BY <2>1, <1>1, <1>2
  <2> QED BY <2>2, <2>3, <1>0
<1>4. ASSUME w < g PROVE w + 1 \in 1 .. g /\ r < L[w + 1]
  <2>1. w + 1 \in 1 .. g /\ w + 1 \in 0 .. g /\ w + 1 \in 0 .. n /\ ~(w + 1 <= w)
    BY <1>0, <1>4, <1>b
  <2>2. ~(L[w + 1] <= r) /\ L[w + 1] \in Nat
    BY <2>1, <1>0, <1>1
  <2> QED BY <2>1, <2>2
<1>5. ASSUME Begun(L, r) PROVE w = n - 1 /\ w = g
  <2>1. g < n /\ L[n - 1] + 3 <= r
    BY <1>5, <1>a, <1>b DEF Begun
  <2>2. g = n - 1 /\ n - 1 \in 0 .. g /\ n - 1 \in 0 .. n
    BY <2>1, <1>b
  <2>3. L[n - 1] <= r
    BY <2>1, <2>2, <1>1
  <2>4. n - 1 <= w
    BY <2>2, <2>3, <1>0
  <2> QED BY <2>2, <2>4, <1>0
<1> QED BY <1>1, <1>2, <1>3, <1>4, <1>5, <1>0, <1>a, <1>b

\* A piece of a piece, and two pieces one after the other.
LEMMA PieceOfPiece ==
  ASSUME NEW T, NEW d \in Seq(T), NEW a \in Nat, NEW b \in Nat, NEW c \in Nat,
         a <= b, b <= c, c <= Len(d)
  PROVE  SubSeq(SubSeq(d, a + 1, c), b - a + 1, c - a) = SubSeq(d, b + 1, c)
<1>a. PICK s, t, u : s = SubSeq(d, a + 1, c) /\ t = SubSeq(s, b - a + 1, c - a)
                     /\ u = SubSeq(d, b + 1, c)
  OBVIOUS
<1>1. s \in Seq(T) /\ PieceOf(s, d, a, c)
  <2>1. a <= c
    OBVIOUS
  <2> QED BY <2>1, <1>a, PieceFacts
<1>2. u \in Seq(T) /\ PieceOf(u, d, b, c)
  BY <1>a, PieceFacts
<1>b. PICK x \in Nat, y \in Nat : x = b - a /\ y = c - a /\ x <= y
  OBVIOUS
<1>3. Len(s) = y /\ \A i \in 1 .. y : s[i] = d[a + i]
  BY <1>1, <1>b DEF PieceOf
<1>4. t \in Seq(T) /\ PieceOf(t, s, x, y)
  <2>1. x <= y /\ y <= Len(s) /\ t = SubSeq(s, x + 1, y)
    BY <1>a, <1>b, <1>3
  <2> QED BY <2>1, <1>1, PieceFacts
<1>5. Len(t) = c - b /\ \A i \in 1 .. c - b : t[i] = s[x + i]
  <2>1. y - x = c - b
    BY <1>b
  <2> QED BY <2>1, <1>4 DEF PieceOf
<1>6. Len(u) = c - b /\ \A i \in 1 .. c - b : u[i] = d[b + i]
  BY <1>2 DEF PieceOf
<1>7. ASSUME NEW i \in 1 .. c - b PROVE t[i] = u[i]
  <2>1. x + i \in 1 .. y /\ a + (x + i) = b + i
    BY <1>b
  <2> QED BY <2>1, <1>3, <1>5, <1>6
<1>8. t = u
  BY <1>2, <1>4, <1>5, <1>6, <1>7, SameSeq
<1> QED BY <1>8, <1>a, <1>b

LEMMA PiecesJoined ==
  ASSUME NEW T, NEW d \in Seq(T), NEW a \in Nat, NEW b \in Nat, NEW c \in Nat,
         a <= b, b <= c, c <= Len(d)
  PROVE  SubSeq(d, a + 1, b) \o SubSeq(d, b + 1, c) = SubSeq(d, a + 1, c)
<1>a. PICK s, t, u : s = SubSeq(d, a + 1, b) /\ t = SubSeq(d, b + 1, c) /\ u = SubSeq(d, a + 1, c)
  OBVIOUS
<1>1. s \in Seq(T) /\ PieceOf(s, d, a, b)
  <2>1. b <= Len(d)
    OBVIOUS
  <2> QED BY <2>1, <1>a, PieceFacts
<1>2. t \in Seq(T) /\ PieceOf(t, d, b, c)
  BY <1>a, PieceFacts
<1>3. u \in Seq(T) /\ PieceOf(u, d, a, c)
  <2>1. a <= c
    OBVIOUS
  <2> QED BY <2>1, <1>a, PieceFacts
<1>b. PICK x \in Nat, y \in Nat : x = b - a /\ y = c - b /\ x + y = c - a
  OBVIOUS
<1>c. PICK v : Conc(v, s, t)
  BY DEF Conc
<1>4. Len(s) = x /\ Len(t) = y /\ Len(u) = x + y
      /\ (\A i \in 1 .. x : s[i] = d[a + i]) /\ (\A i \in 1 .. y : t[i] = d[b + i])
      /\ (\A i \in 1 .. x + y : u[i] = d[a + i])
  BY <1>1, <1>2, <1>3, <1>b DEF PieceOf
<1>5. v \in Seq(T) /\ Glued(v, s, t, x, y)
  BY <1>1, <1>2, <1>4, <1>c, ConcLengths
<1>6. Len(v) = x + y /\ (\A i \in 1 .. x : v[i] = s[i]) /\ \A i \in 1 .. y : v[x + i] = t[i]
  BY <1>5 DEF Glued
<1>7. ASSUME NEW i \in 1 .. x + y PROVE v[i] = u[i]
  <2>1. CASE i <= x
    <3>1. i \in 1 .. x
      BY <2>1
    <3> QED BY <3>1, <1>4, <1>6
  <2>2. CASE ~(i <= x)
    <3>1. PICK k \in 1 .. y : x + k = i /\ b + k = a + i
      <4>1. i - x \in 1 .. y /\ x + (i - x) = i /\ b + (i - x) = a + i
        BY <2>2, <1>b
      <4> QED BY <4>1
    <3>2. v[x + k] = t[k] /\ t[k] = d[b + k]
      BY <1>4, <1>6
    <3>3. u[i] = d[a + i]
      BY <1>4
    <3> QED BY <3>1, <3>2, <3>3
  <2> QED BY <2>1, <2>2
<1>8. v = u
  BY <1>3, <1>4, <1>5, <1>6, <1>7, SameSeq
<1> QED BY <1>8, <1>a, <1>c DEF Conc

-----------------------------------------------------------------------------
(* What the loop of the sniffer makes of a part of the wire.                *)

\* s is the part of the wire from a to r, which begins like e.
SuffixOf(s, a, r, e) == s \in Seq(Tokens) /\ Len(s) = r - a /\ Agree(s, e)

LEMMA SuffixAgrees ==
  ASSUME Conversation, NEW D, NEW L, WireIs(D, L), NEW j \in 1 .. Len(msgs),
         NEW r \in Nat, L[j - 1] <= r, r <= Len(D), NEW s, s = SubSeq(D, L[j - 1] + 1, r)
  PROVE  SuffixOf(s, L[j - 1], r, Encoded(msgs[j]))
<1>1. D \in Seq(Tokens)
  BY DEF WireIs
<1>a. PICK a \in Nat : a = L[j - 1]
  <2>1. j - 1 \in 0 .. Len(msgs)
    BY DEF Conversation
  <2> QED BY <2>1 DEF WireIs
<1>b. PICK e : e = Encoded(msgs[j])
  OBVIOUS
<1>2. \A i \in 1 .. Len(e) : D[a + i] = e[i]
  BY <1>a, <1>b DEF WireIs
<1>3. s \in Seq(Tokens) /\ PieceOf(s, D, a, r)
  BY <1>1, <1>a, PieceFacts
<1>4. Len(s) = r - a /\ \A i \in 1 .. r - a : s[i] = D[a + i]
  BY <1>3 DEF PieceOf
<1>5. ASSUME NEW i \in 1 .. Len(s), i <= Len(e) PROVE s[i] = e[i]
  <2>1. Len(e) \in Nat
    <3>1. msgs[j] \in Messages
      BY DEF Conversation, IsMessage, Messages
    <3> QED BY <3>1, <1>b, EncodedFacts
  <2>2. i \in 1 .. r - a /\ i \in 1 .. Len(e)
    <3>1. i \in 1 .. r - a
      BY <1>4
    <3>2. i \in 1 .. Len(e)
      BY <3>1, <2>1, <1>5
    <3> QED BY <3>1, <3>2
  <2> QED BY <2>2, <1>2, <1>4
<1>6. Agree(s, e)
  BY <1>5 DEF Agree
<1> QED BY <1>3, <1>4, <1>6, <1>a, <1>b DEF SuffixOf

GivesMessage(s, L, j) ==
  Parse(s) = [used |-> L[j] - L[j - 1], head |-> msgs[j].head, body |-> Content(msgs[j])]

LEMMA ParseBeforeWhole ==
  ASSUME Conversation, NEW D, NEW L, WireIs(D, L), NEW r \in Nat, r <= Len(D),
         NEW w, WholeAt(L, r, w), NEW j \in 1 .. w, NEW s, s = SubSeq(D, L[j - 1] + 1, r)
  PROVE  GivesMessage(s, L, j)
<1>1. /\ w \in 0 .. Len(msgs) /\ w <= Framed /\ \A i \in 0 .. Len(msgs) : L[i] \in Nat
      /\ \A i \in 0 .. w : L[i] <= r
  BY WholeFacts
<1>2. /\ j \in 1 .. Len(msgs) /\ j \in 1 .. Framed /\ j \in 0 .. w /\ j - 1 \in 0 .. w
      /\ j \in 0 .. Len(msgs) /\ j - 1 \in 0 .. Len(msgs)
  <2>1. Len(msgs) \in Nat /\ Framed \in Nat
    BY FramedFacts DEF Conversation
  <2> QED BY <2>1, <1>1
<1>a. PICK a \in Nat, b \in Nat, l \in Nat :
        a = L[j - 1] /\ b = L[j] /\ l = Len(Encoded(msgs[j])) /\ b = a + l
  <2>1. msgs[j] \in Messages
    BY <1>2 DEF Conversation, IsMessage, Messages
  <2>2. Len(Encoded(msgs[j])) \in Nat
    BY <2>1, EncodedFacts
  <2>3. L[j] = L[j - 1] + Len(Encoded(msgs[j]))
    BY <1>2 DEF WireIs
  <2> QED BY <2>2, <2>3, <1>1, <1>2
<1>3. a <= r /\ b <= r
  BY <1>1, <1>2, <1>a
<1>4. s \in Seq(Tokens) /\ Len(s) = r - a /\ Agree(s, Encoded(msgs[j]))
  <2>1. j \in 1 .. Len(msgs) /\ L[j - 1] <= r
    BY <1>2, <1>3, <1>a
  <2>2. SuffixOf(s, L[j - 1], r, Encoded(msgs[j]))
    BY <2>1, SuffixAgrees
  <2> QED BY <2>2, <1>a DEF SuffixOf
<1>5. IsMessage(msgs[j]) /\ ~UntilClose(msgs[j])
  BY <1>2, FramedFacts DEF Conversation
<1>6. TakenWhole(Parse(s), s, Encoded(msgs[j]), msgs[j])
  BY <1>4, <1>5, ParseMessage
<1>7. Len(s) >= Len(Encoded(msgs[j])) /\ Len(Encoded(msgs[j])) = L[j] - L[j - 1]
  <2>1. PICK n : n = Len(s) /\ n = r - a
    BY <1>4
  <2>2. n >= l /\ l = b - a
    <3>1. b = a + l /\ b <= r /\ n = r - a
      BY <2>1, <1>3, <1>a
    <3> QED BY ONLY <3>1, r \in Nat, a \in Nat, b \in Nat, l \in Nat
  <2>3. l = Len(Encoded(msgs[j])) /\ b = L[j] /\ a = L[j - 1]
    BY <1>a
  <2> QED BY ONLY <2>1, <2>2, <2>3
<1> QED BY <1>6, <1>7 DEF TakenWhole, GivesMessage

LEMMA ParseAtWhole ==
  ASSUME Conversation, NEW D, NEW L, WireIs(D, L), NEW r \in Nat, r <= Len(D),
         NEW w, WholeAt(L, r, w), NEW s, s = SubSeq(D, L[w] + 1, r)
  PROVE  IF Begun(L, r)
         THEN /\ Len(s) >= 3
              /\ Parse(s) = [used |-> Len(s), head |-> msgs[Len(msgs)].head,
                             body |-> SubSeq(s, 4, Len(s))]
         ELSE Parse(s).used = 0
<1>a. PICK n \in Nat \ {0} : n = Len(msgs)
  BY DEF Conversation
<1>b. PICK g \in Nat : g = Framed /\ g <= n /\ n - 1 <= g
  BY <1>a, FramedFacts
<1>1. /\ w \in 0 .. n /\ w <= g /\ \A i \in 0 .. n : L[i] \in Nat
      /\ L[w] <= r /\ (w < g => w + 1 \in 1 .. g /\ r < L[w + 1])
      /\ Begun(L, r) => w = n - 1 /\ w = g
  BY <1>a, <1>b, WholeFacts DEF WholeAt
<1>c. PICK a \in Nat : a = L[w] /\ a <= r
  BY <1>1
<1>2. CASE w = n
  <2>1. L[n] = Len(D) /\ D \in Seq(Tokens)
    BY <1>a DEF WireIs
  <2>2. a = r /\ r = Len(D)
    BY <2>1, <1>2, <1>c
  <2>3. s \in Seq(Tokens) /\ PieceOf(s, D, a, r)
    BY <2>1, <2>2, <1>c, PieceFacts
  <2>4. s = <<>>
    BY <2>2, <2>3 DEF PieceOf
  <2>5. ~Begun(L, r)
    BY <1>1, <1>2
  <2> QED BY <2>4, <2>5 DEF Parse, NotYet
<1>3. CASE w # n
  <2>a. PICK j \in 1 .. n : j = w + 1 /\ w = j - 1
    BY <1>1, <1>3
  <2>b. PICK m : m = msgs[j] /\ IsMessage(m) /\ m \in Messages
    BY <1>a DEF Conversation, IsMessage, Messages
  <2>c. PICK l \in Nat : l = Len(Encoded(m)) /\ L[j] = a + l /\ 3 <= l
    <3>1. Len(Encoded(m)) \in Nat /\ 3 <= Len(Encoded(m))
      BY <2>b, EncodedFacts
    <3>2. L[j] = L[j - 1] + Len(Encoded(msgs[j]))
      BY <1>a DEF WireIs
    <3> QED BY <3>1, <3>2, <2>a, <2>b, <1>c
  <2>1. s \in Seq(Tokens) /\ Len(s) = r - a /\ Agree(s, Encoded(m))
    <3>1. j \in 1 .. Len(msgs) /\ L[j - 1] <= r /\ s = SubSeq(D, L[j - 1] + 1, r)
      BY <2>a, <1>a, <1>c
    <3>2. SuffixOf(s, L[j - 1], r, Encoded(msgs[j]))
      BY <3>1, SuffixAgrees
    <3> QED BY <3>2, <2>a, <2>b, <1>c DEF SuffixOf
  <2>d. PICK q \in Nat : q = Len(s) /\ q = r - a
    BY <2>1, <1>c
  <2>2. CASE w < g
    <3>1. j \in 1 .. g /\ ~UntilClose(m) /\ r < a + l
      BY <2>2, <2>a, <2>b, <2>c, <1>1, <1>b, FramedFacts
    <3>2. TakenWhole(Parse(s), s, Encoded(m), m)
      BY <3>1, <2>1, <2>b, ParseMessage
    <3>3. ~(Len(s) >= Len(Encoded(m)))
      <4>1. r < a + l /\ q = r - a
        BY <3>1, <2>d
      <4>2. a \in Nat /\ l \in Nat /\ r \in Nat
        OBVIOUS
      <4>3. ~(q >= l)
        BY ONLY <4>1, <4>2
      <4> QED BY <4>3, <2>c, <2>d
    <3>4. ~Begun(L, r)
      BY <2>2, <1>1
    <3> QED BY <3>2, <3>3, <3>4 DEF TakenWhole
  <2>3. CASE w = g
    <3>1. j = n /\ g < n /\ w = n - 1
      BY <2>3, <2>a, <1>b
    <3>2. UntilClose(m)
      BY <3>1, <2>b, <1>a, <1>b, FramedFacts
    <3>3. Begun(L, r) <=> Len(s) >= 3
      <4>1. Begun(L, r) <=> a + 3 <= r
        BY <3>1, <1>a, <1>b, <1>c DEF Begun
      <4>2. a + 3 <= r <=> q >= 3
        BY ONLY <2>d, a \in Nat, r \in Nat, q \in Nat
      <4> QED BY <4>1, <4>2, <2>d
    <3>4. \A i \in 1 .. q : i <= 3 => s[i] = Encoded(m)[i]
      <4>1. \A i \in 1 .. q : i <= l => s[i] = Encoded(m)[i]
        BY <2>1, <2>c, <2>d DEF Agree
      <4>2. \A i \in 1 .. q : i <= 3 => i <= l
        BY <2>c
      <4> QED BY <4>1, <4>2
    <3>5. Encoded(m)[1] = m.head /\ Encoded(m)[2] = NL /\ Encoded(m)[3] = NL
      BY <2>b, EncodedFacts
    <3>6. CASE q >= 3
      <4>1. s[1] = m.head /\ s[2] = NL /\ s[3] = NL
        <5>1. 1 \in 1 .. q /\ 2 \in 1 .. q /\ 3 \in 1 .. q
          BY ONLY q \in Nat, <3>6
        <5> QED BY ONLY <5>1, <3>4, <3>5
      <4>3. Len(s) >= 3
        BY <3>6, <2>d
      <4>2. Parse(s) = [used |-> Len(s), head |-> m.head, body |-> SubSeq(s, 4, Len(s))]
        BY <4>1, <4>3, <3>2, <2>1, <2>b, ParseClose
      <4> QED BY <4>2, <4>3, <3>1, <3>3, <2>b, <1>a
    <3>7. CASE ~(q >= 3)
      <4>1. Len(s) >= 1 => s[1] = m.head
        <5>1. q >= 1 => 1 \in 1 .. q
          BY ONLY q \in Nat
        <5> QED BY ONLY <5>1, <3>4, <3>5, <2>d
      <4>2. Parse(s).used = 0
        <5>1. Len(s) < 3
          BY ONLY <3>7, <2>d, q \in Nat
        <5> QED BY <4>1, <5>1, <2>1, <2>b, HeaderMissing
      <4> QED BY <4>2, <3>3, <3>7, <2>d
    <3> QED BY <3>6, <3>7
  <2>4. w < g \/ w = g
    BY <1>1
  <2> QED BY <2>2, <2>3, <2>4
<1> QED BY <1>2, <1>3

\* The response that has begun, with what there is of its body.
Closing(L, D, r) == [head |-> msgs[Len(msgs)].head, body |-> SubSeq(D, L[Len(msgs) - 1] + 4, r)]

\* What drain hands on and leaves of what follows the first j messages.
Took(t, D, L, r, w, j) ==
  /\ t \in DrainResults
  /\ \A i \in 1 .. w - j : t.out[i] = Expected(j + i)
  /\ IF Begun(L, r)
     THEN Len(t.out) = w - j + 1 /\ t.out[w - j + 1] = Closing(L, D, r) /\ t.rest = <<>>
     ELSE Len(t.out) = w - j /\ t.rest = SubSeq(D, L[w] + 1, r)

\* drain when Parse finds nothing, and when it finds a message of u tokens.
Stops(f, p, s) == f[p] = [out |-> <<>>, rest |-> s]

LEMMA DrainStops ==
  ASSUME NEW b \in Seq(Tokens), NEW f, DrainFrom(f, b), NEW p \in 1 .. Len(b) + 1,
         NEW s, s = SubSeq(b, p, Len(b)), Parse(s).used = 0
  PROVE  Stops(f, p, s)
<1>1. f[p] = DrainStep(b, f, p)
  BY DEF DrainFrom
<1> QED BY <1>1 DEF DrainStep, Stops

GoesOn(f, p, u, h, c) ==
  /\ f[p] \in DrainResults /\ f[p].rest = f[p + u].rest
  /\ Len(f[p + u].out) \in Nat /\ Len(f[p].out) = Len(f[p + u].out) + 1
  /\ f[p].out[1] = [head |-> h, body |-> c]
  /\ \A i \in 1 .. Len(f[p + u].out) : f[p].out[i + 1] = f[p + u].out[i]

LEMMA DrainGoesOn ==
  ASSUME NEW b \in Seq(Tokens), NEW f, DrainFrom(f, b), NEW p \in 1 .. Len(b) + 1,
         NEW s, s = SubSeq(b, p, Len(b)), NEW u \in Nat \ {0}, p + u \in 1 .. Len(b) + 1,
         NEW h, NEW c, Parse(s) = [used |-> u, head |-> h, body |-> c]
  PROVE  GoesOn(f, p, u, h, c)
<1>1. f[p] = DrainStep(b, f, p) /\ f[p] \in DrainResults /\ f[p + u] \in DrainResults
  BY DEF DrainFrom
<1>a. PICK t : t = f[p + u]
  OBVIOUS
<1>2. t \in [out : Seq(Handed), rest : Seq(Tokens)] /\ t.out \in Seq(Handed)
  BY <1>1, <1>a DEF DrainResults
<1>b. PICK x : x = [head |-> h, body |-> c]
  OBVIOUS
<1>c. PICK y : y = <<x>>
  OBVIOUS
<1>3. f[p] = [t EXCEPT !.out = y \o @]
  <2>1. PICK r : r = Parse(s) /\ r.used = u /\ r.head = h /\ r.body = c
    OBVIOUS
  <2>2. DrainStep(b, f, p) = [f[p + r.used] EXCEPT !.out = <<[head |-> r.head, body |-> r.body]>> \o @]
    BY <2>1 DEF DrainStep
  <2>3. <<[head |-> r.head, body |-> r.body]>> = y
    BY <2>1, <1>b, <1>c
  <2> QED BY <2>1, <2>2, <2>3, <1>1, <1>a
<1>4. x \in Handed
  <2>1. PICK r : r = Parse(s)
    OBVIOUS
  <2>2. s \in Seq(Tokens)
    BY RestOf
  <2>3. r \in ParseResults(s)
    BY <2>1, <2>2, ParseType
  <2>4. r.head = h /\ r.body = c
    BY <2>1
  <2> QED BY <2>3, <2>4, <1>b DEF ParseResults, Handed
<1>5. y \in Seq(Handed) /\ Len(y) = 1 /\ y[1] = x
  BY <1>4, <1>c
<1>6. y \o t.out \in Seq(Handed)
  BY <1>2, <1>5, JoinedIn
<1>d. PICK v : Conc(v, y, t.out)
  BY DEF Conc
<1>7. f[p].out = v /\ f[p].rest = t.rest
  <2>1. PICK z \in Seq(Handed) : z = y \o t.out
    BY <1>6
  <2> QED BY <2>1, <1>2, <1>3, <1>d, PrependOut DEF Conc
<1>e. PICK n \in Nat : n = Len(t.out)
  BY <1>2
<1>8. Glued(v, y, t.out, 1, n)
  BY <1>2, <1>5, <1>d, <1>e, ConcLengths
<1>9. Len(v) = n + 1 /\ v[1] = x /\ \A i \in 1 .. n : v[i + 1] = t.out[i]
  <2>1. Len(v) = 1 + n /\ (\A i \in 1 .. 1 : v[i] = y[i]) /\ \A i \in 1 .. n : v[1 + i] = t.out[i]
    BY <1>8 DEF Glued
  <2>2. v[1] = x
    BY <2>1, <1>5
  <2>3. ASSUME NEW i \in 1 .. n PROVE v[i + 1] = t.out[i]
    <3>1. 1 + i = i + 1
      OBVIOUS
    <3>2. v[1 + i] = t.out[i]
      BY <2>1
    <3> QED BY <3>1, <3>2
  <2>4. 1 + n = n + 1
    OBVIOUS
  <2> QED BY <2>1, <2>2, <2>3, <2>4
<1> QED BY <1>1, <1>7, <1>9, <1>a, <1>b, <1>e DEF GoesOn

\* Where drain is after the first j messages, when it began after the first k.
AtPlace(b, D, L, r, k, j) ==
  /\ b \in Seq(Tokens) /\ Len(b) = r - L[k] /\ L[j] - L[k] + 1 \in 1 .. Len(b) + 1
  /\ SubSeq(b, L[j] - L[k] + 1, Len(b)) = SubSeq(D, L[j] + 1, r)

LEMMA DrainPlace ==
  ASSUME Conversation, NEW D, NEW L, WireIs(D, L), NEW r \in Nat, r <= Len(D),
         NEW w, WholeAt(L, r, w), NEW k \in 0 .. w, NEW b, b = SubSeq(D, L[k] + 1, r),
         NEW j \in k .. w
  PROVE  AtPlace(b, D, L, r, k, j)
<1>1. D \in Seq(Tokens)
  BY DEF WireIs
<1>2. w \in 0 .. Len(msgs) /\ (\A i \in 0 .. Len(msgs) : L[i] \in Nat) /\ \A i \in 0 .. w : L[i] <= r
  BY WholeFacts
<1>3. k \in 0 .. Len(msgs) /\ j \in 0 .. Len(msgs) /\ j \in 0 .. w /\ j \in k .. Len(msgs)
  <2>1. Len(msgs) \in Nat
    BY DEF Conversation
  <2> QED BY <2>1, <1>2
<1>a. PICK x \in Nat, y \in Nat : x = L[k] /\ y = L[j]
  BY <1>2, <1>3
<1>4. x <= y /\ y <= r
  <2>1. x <= y
    BY <1>3, <1>a DEF WireIs
  <2> QED BY <2>1, <1>2, <1>3, <1>a
<1>5. b \in Seq(Tokens) /\ PieceOf(b, D, x, r)
  <2>1. x <= r
    BY <1>4
  <2> QED BY <2>1, <1>1, <1>a, PieceFacts
<1>6. Len(b) = r - x
  BY <1>5 DEF PieceOf
<1>7. y - x + 1 \in 1 .. Len(b) + 1
  <2>1. y - x + 1 \in 1 .. r - x + 1
    BY ONLY <1>4, x \in Nat, y \in Nat, r \in Nat
  <2> QED BY <2>1, <1>6
<1>8. SubSeq(SubSeq(D, x + 1, r), y - x + 1, r - x) = SubSeq(D, y + 1, r)
  BY <1>1, <1>4, PieceOfPiece
<1>9. SubSeq(b, y - x + 1, Len(b)) = SubSeq(D, y + 1, r)
  BY <1>6, <1>8, <1>a
<1> QED BY <1>5, <1>6, <1>7, <1>9, <1>a DEF AtPlace

LEMMA DrainAtWhole ==
  ASSUME Conversation, NEW D, NEW L, WireIs(D, L), NEW r \in Nat, r <= Len(D),
         NEW w, WholeAt(L, r, w), NEW k \in 0 .. w, NEW b, b = SubSeq(D, L[k] + 1, r),
         NEW f, DrainFrom(f, b)
  PROVE  Took(f[L[w] - L[k] + 1], D, L, r, w, w)
<1>a. PICK p, s : p = L[w] - L[k] + 1 /\ s = SubSeq(D, L[w] + 1, r)
  OBVIOUS
<1>0. w \in k .. w /\ w \in 0 .. Len(msgs) /\ L[w] \in Nat /\ L[w] <= r
  <2>1. w \in 0 .. Len(msgs) /\ \A i \in 0 .. Len(msgs) : L[i] \in Nat
    BY WholeFacts
  <2>2. L[w] <= r
    BY DEF WholeAt
  <2> QED BY <2>1, <2>2
<1>1. b \in Seq(Tokens) /\ Len(b) = r - L[k] /\ p \in 1 .. Len(b) + 1 /\ SubSeq(b, p, Len(b)) = s
  <2>1. AtPlace(b, D, L, r, k, w)
    BY <1>0, DrainPlace
  <2> QED BY <2>1, <1>a DEF AtPlace
<1>b. DrainFrom(f, b)
  OBVIOUS
<1>2. IF Begun(L, r)
      THEN /\ Len(s) >= 3
           /\ Parse(s) = [used |-> Len(s), head |-> msgs[Len(msgs)].head, body |-> SubSeq(s, 4, Len(s))]
      ELSE Parse(s).used = 0
  BY <1>a, ParseAtWhole
<1>3. f[p] \in DrainResults
  BY <1>1 DEF DrainFrom
<1>4. w - w = 0 /\ 1 .. 0 = {} /\ 0 + 1 = 1
  BY <1>0
<1>5. CASE ~Begun(L, r)
  <2>1. f[p] = [out |-> <<>>, rest |-> s]
    <3>1. Parse(s).used = 0
      BY <1>2, <1>5
    <3>2. Stops(f, p, s)
      BY ONLY <3>1, <1>1, <1>b, DrainStops
    <3> QED BY <3>2 DEF Stops
  <2>2. Len(f[p].out) = 0 /\ f[p].rest = s
    BY <2>1
  <2> QED BY <2>2, <1>3, <1>4, <1>5, <1>a DEF Took
<1>6. CASE Begun(L, r)
  <2>b. PICK u \in Nat \ {0} : u = Len(s) /\ u >= 3 /\ u = r - L[w] /\ p + u = Len(b) + 1
    <3>1. D \in Seq(Tokens)
      BY DEF WireIs
    <3>2. PICK a \in Nat : a = L[w] /\ a <= r
      BY <1>0
    <3>3. PieceOf(s, D, a, r)
      BY <3>1, <3>2, <1>a, PieceFacts
    <3>4. Len(s) = r - a
      BY <3>3 DEF PieceOf
    <3>5. PICK x \in Nat : x = L[k]
      <4>1. k \in 0 .. Len(msgs)
        BY <1>0, Len(msgs) \in Nat DEF Conversation
      <4> QED BY <4>1, WholeFacts
    <3>6. p = a - x + 1 /\ Len(b) = r - x /\ Len(s) >= 3
      BY <3>2, <3>5, <1>1, <1>2, <1>6, <1>a
    <3>7. Len(s) \in Nat \ {0} /\ Len(s) >= 3 /\ Len(s) = r - a /\ p + Len(s) = r - x + 1
      <4>1. PICK v, y : v = Len(s) /\ y = p
        OBVIOUS
      <4>2. v = r - a /\ v >= 3 /\ y = a - x + 1 /\ a <= r
        BY <4>1, <3>2, <3>4, <3>6
      <4>3. v \in Nat \ {0} /\ v >= 3 /\ v = r - a /\ y + v = r - x + 1
        BY ONLY <4>2, r \in Nat, a \in Nat, x \in Nat
      <4> QED BY <4>1, <4>3
    <3> QED BY <3>2, <3>6, <3>7
  <2>c. PICK h, c : h = msgs[Len(msgs)].head /\ c = SubSeq(s, 4, u)
    OBVIOUS
  <2>1. Parse(s) = [used |-> u, head |-> h, body |-> c]
    BY <1>2, <1>6, <2>b, <2>c
  <2>2. p + u \in 1 .. Len(b) + 1
    <3>1. PICK n \in Nat : n = Len(b) + 1 /\ p + u = n /\ p \in Nat /\ 1 <= p
      <4>1. b \in Seq(Tokens) /\ p \in 1 .. Len(b) + 1
        BY <1>1
      <4>2. Len(b) \in Nat
        BY <4>1
      <4>3. Len(b) + 1 \in Nat /\ p \in Nat /\ 1 <= p
        BY ONLY <4>1, <4>2
      <4> QED BY <4>3, <2>b
    <3>2. 1 <= n
      BY ONLY <3>1, <2>b
    <3> QED BY ONLY <3>1, <3>2
  <2>3. /\ f[p].rest = f[p + u].rest
        /\ Len(f[p].out) = Len(f[p + u].out) + 1
        /\ f[p].out[1] = [head |-> h, body |-> c]
    <3>1. GoesOn(f, p, u, h, c)
      BY <2>1, <2>2, <1>1, DrainGoesOn
    <3> QED BY <3>1 DEF GoesOn
  <2>4. f[p + u] = [out |-> <<>>, rest |-> <<>>]
    <3>1. PICK z : z = SubSeq(b, p + u, Len(b))
      OBVIOUS
    <3>2. z = <<>>
      BY <3>1, <2>b, <1>1
    <3>3. Parse(z).used = 0
      BY <3>2 DEF Parse, NotYet
    <3>a. PICK q \in 1 .. Len(b) + 1 : q = p + u
      BY <2>2
    <3>b. z = SubSeq(b, q, Len(b))
      BY <3>1, <3>a
    <3>4. f[q] = [out |-> <<>>, rest |-> z]
      <4>1. b \in Seq(Tokens) /\ DrainFrom(f, b) /\ q \in 1 .. Len(b) + 1
            /\ z = SubSeq(b, q, Len(b)) /\ Parse(z).used = 0
        BY <3>b, <3>3, <1>1, <1>b
      <4>2. Stops(f, q, z)
        BY ONLY <4>1, DrainStops
      <4> QED BY <4>2 DEF Stops
    <3> QED BY <3>2, <3>4, <3>a
  <2>5. Len(f[p].out) = 1 /\ f[p].rest = <<>>
    BY <2>3, <2>4
  <2>6. [head |-> h, body |-> c] = Closing(L, D, r)
    <3>1. w = Len(msgs) - 1
      BY <1>6, WholeFacts
    <3>2. c = SubSeq(D, L[w] + 4, r)
      <4>1. D \in Seq(Tokens)
        BY DEF WireIs
      <4>2. PICK a \in Nat, e \in Nat : a = L[w] /\ e = a + 3 /\ a <= e /\ e <= r /\ e - a + 1 = 4
                                        /\ e + 1 = a + 4 /\ r - a = u
        <5>1. PICK a \in Nat : a = L[w] /\ u = r - a /\ u >= 3
          BY <1>0, <2>b
        <5>2. a + 3 \in Nat /\ a <= a + 3 /\ a + 3 <= r /\ (a + 3) - a + 1 = 4
              /\ (a + 3) + 1 = a + 4 /\ r - a = u
          BY ONLY <5>1, a \in Nat, r \in Nat, u \in Nat \ {0}
        <5> QED BY <5>1, <5>2
      <4>3. SubSeq(SubSeq(D, a + 1, r), e - a + 1, r - a) = SubSeq(D, e + 1, r)
        <5>1. r <= Len(D) /\ r \in Nat /\ a \in Nat /\ e \in Nat
          OBVIOUS
        <5>2. a <= e /\ e <= r
          BY <4>2
        <5> QED BY ONLY <5>1, <5>2, <4>1, PieceOfPiece
      <4> QED BY <4>2, <4>3, <2>c, <1>a
    <3> QED BY <3>1, <3>2, <2>c DEF Closing
  <2> QED BY <2>3, <2>5, <2>6, <1>3, <1>4, <1>6, <1>a DEF Took
<1> QED BY <1>5, <1>6

LEMMA DrainBefore ==
  ASSUME Conversation, NEW D, NEW L, WireIs(D, L), NEW r \in Nat, r <= Len(D),
         NEW w, WholeAt(L, r, w), NEW k \in 0 .. w, NEW b, b = SubSeq(D, L[k] + 1, r),
         NEW f, DrainFrom(f, b), NEW j \in k + 1 .. w,
         Took(f[L[j] - L[k] + 1], D, L, r, w, j)
  PROVE  Took(f[L[j - 1] - L[k] + 1], D, L, r, w, j - 1)
<1>0. w \in 0 .. Len(msgs) /\ \A i \in 0 .. Len(msgs) : L[i] \in Nat
  BY WholeFacts
<1>1. /\ j - 1 \in k .. w /\ j \in k .. w /\ j \in 1 .. w /\ j \in 1 .. Len(msgs)
      /\ j - 1 \in 0 .. Len(msgs) /\ j \in 0 .. Len(msgs) /\ k \in 0 .. Len(msgs)
  <2>1. Len(msgs) \in Nat
    BY DEF Conversation
  <2> QED BY <2>1, <1>0
<1>a. PICK x \in Nat, y \in Nat, z \in Nat : x = L[k] /\ y = L[j - 1] /\ z = L[j]
  BY <1>0, <1>1
<1>b. PICK u \in Nat \ {0} : u = z - y
  <2>1. msgs[j] \in Messages
    BY <1>1 DEF Conversation, IsMessage, Messages
  <2>2. PICK l \in Nat : l = Len(Encoded(msgs[j])) /\ 3 <= l
    BY <2>1, EncodedFacts
  <2>3. z = y + l
    BY <2>2, <1>1, <1>a DEF WireIs
  <2>4. z - y \in Nat \ {0}
    BY <2>2, <2>3
  <2> QED BY <2>4
<1>c. PICK p, q : p = y - x + 1 /\ q = z - x + 1 /\ q = p + u
  <2>1. z - x + 1 = (y - x + 1) + u
    BY <1>b
  <2> QED BY <2>1
<1>d. PICK s : s = SubSeq(D, y + 1, r)
  OBVIOUS
<1>2. b \in Seq(Tokens) /\ p \in 1 .. Len(b) + 1 /\ SubSeq(b, p, Len(b)) = s
  <2>1. AtPlace(b, D, L, r, k, j - 1)
    BY <1>1, DrainPlace
  <2> QED BY <2>1, <1>a, <1>c, <1>d DEF AtPlace
<1>3. q \in 1 .. Len(b) + 1
  <2>1. AtPlace(b, D, L, r, k, j)
    BY <1>1, DrainPlace
  <2> QED BY <2>1, <1>a, <1>c DEF AtPlace
<1>e. PICK h, c : h = msgs[j].head /\ c = Content(msgs[j])
  OBVIOUS
<1>4. Parse(s) = [used |-> u, head |-> h, body |-> c]
  <2>1. s = SubSeq(D, L[j - 1] + 1, r)
    BY <1>a, <1>d
  <2>2. Parse(s) = [used |-> L[j] - L[j - 1], head |-> msgs[j].head, body |-> Content(msgs[j])]
    <3>1. GivesMessage(s, L, j)
      BY <2>1, <1>1, ParseBeforeWhole
    <3> QED BY <3>1 DEF GivesMessage
  <2> QED BY <2>2, <1>a, <1>b, <1>e
<1>5. GoesOn(f, p, u, h, c)
  <2>1. DrainFrom(f, b) /\ p + u \in 1 .. Len(b) + 1 /\ s = SubSeq(b, p, Len(b))
    BY <1>2, <1>3, <1>c
  <2> QED BY <2>1, <1>2, <1>4, DrainGoesOn
<1>f. PICK R, T : R = f[p] /\ T = f[q]
  OBVIOUS
<1>g. PICK n : n = Len(T.out)
  OBVIOUS
<1>6. /\ R \in DrainResults /\ R.rest = T.rest /\ n \in Nat /\ Len(R.out) = n + 1
      /\ R.out[1] = Expected(j) /\ \A i \in 1 .. n : R.out[i + 1] = T.out[i]
  BY <1>5, <1>c, <1>e, <1>f, <1>g DEF GoesOn, Expected
<1>7. /\ \A i \in 1 .. w - j : T.out[i] = Expected(j + i)
      /\ IF Begun(L, r)
         THEN n = w - j + 1 /\ T.out[w - j + 1] = Closing(L, D, r) /\ T.rest = <<>>
         ELSE n = w - j /\ T.rest = SubSeq(D, L[w] + 1, r)
  BY <1>a, <1>c, <1>f, <1>g DEF Took
<1>8. w \in Nat /\ j \in 1 .. w /\ w - (j - 1) = w - j + 1 /\ w - j \in Nat /\ w - j <= n
  <2>1. w \in Nat /\ j \in 1 .. w
    BY <1>0, <1>1
  <2>2. n = w - j + 1 \/ n = w - j
    BY <1>7
  <2> QED BY ONLY <2>1, <2>2
<1>9. ASSUME NEW i \in 1 .. w - j + 1 PROVE R.out[i] = Expected((j - 1) + i)
  <2>1. CASE i = 1
    <3>1. (j - 1) + i = j
      BY <2>1, <1>8
    <3> QED BY <3>1, <2>1, <1>6
  <2>2. CASE i # 1
    <3>1. PICK a \in 1 .. w - j : i = a + 1 /\ a \in 1 .. n /\ (j - 1) + i = j + a
      <4>1. i - 1 \in 1 .. w - j /\ i = (i - 1) + 1 /\ i - 1 \in 1 .. n /\ (j - 1) + i = j + (i - 1)
        BY <2>2, <1>6, <1>8
      <4> QED BY <4>1
    <3>2. R.out[a + 1] = T.out[a] /\ T.out[a] = Expected(j + a)
      BY <3>1, <1>6, <1>7
    <3> QED BY <3>1, <3>2
  <2> QED BY <2>1, <2>2
<1>10. IF Begun(L, r)
       THEN Len(R.out) = w - (j - 1) + 1 /\ R.out[w - (j - 1) + 1] = Closing(L, D, r) /\ R.rest = <<>>
       ELSE Len(R.out) = w - (j - 1) /\ R.rest = SubSeq(D, L[w] + 1, r)
  <2>1. CASE Begun(L, r)
    <3>1. n = w - j + 1 /\ T.out[n] = Closing(L, D, r) /\ T.rest = <<>> /\ n \in 1 .. n
      BY <2>1, <1>7, <1>8
    <3>2. R.out[n + 1] = Closing(L, D, r) /\ w - (j - 1) + 1 = n + 1
      BY <3>1, <1>6, <1>8
    <3> QED BY <3>1, <3>2, <2>1, <1>6
  <2>2. CASE ~Begun(L, r)
    BY <2>2, <1>6, <1>7, <1>8
  <2> QED BY <2>1, <2>2
<1>11. Took(R, D, L, r, w, j - 1)
  BY <1>6, <1>8, <1>9, <1>10 DEF Took
<1> QED BY <1>11, <1>a, <1>c, <1>f

LEMMA DrainIs ==
  ASSUME Conversation, NEW D, NEW L, WireIs(D, L), NEW r \in Nat, r <= Len(D),
         NEW w, WholeAt(L, r, w), NEW k \in 0 .. w, NEW b, b = SubSeq(D, L[k] + 1, r)
  PROVE  Took(drain(b), D, L, r, w, k)
<1>0. w \in Nat /\ k \in k .. w /\ L[k] \in Nat
  <2>1. w \in 0 .. Len(msgs) /\ (\A i \in 0 .. Len(msgs) : L[i] \in Nat) /\ Len(msgs) \in Nat
    BY WholeFacts DEF Conversation
  <2>2. k \in 0 .. Len(msgs)
    BY <2>1
  <2> QED BY <2>1, <2>2
<1>1. b \in Seq(Tokens)
  <2>1. AtPlace(b, D, L, r, k, k)
    BY <1>0, DrainPlace
  <2> QED BY <2>1 DEF AtPlace
<1>2. PICK f : DrainFrom(f, b) /\ drain(b) = f[1]
  BY <1>1, DrainRecursion
<1>a. PICK n \in Nat : n = w - k + 1 /\ k + n = w + 1
  <2>1. w - k + 1 \in Nat /\ k + (w - k + 1) = w + 1
    BY <1>0
  <2> QED BY <2>1
<1>b. PICK S : S = {q \in 1 .. n : Took(f[L[k + q - 1] - L[k] + 1], D, L, r, w, k + q - 1)}
  OBVIOUS
<1>3. ASSUME NEW q \in 1 .. n, q + 1 .. n \subseteq S PROVE q \in S
  <2>1. CASE q = n
    <3>1. k + q - 1 = w
      BY <2>1, <1>a, <1>0
    <3>2. Took(f[L[w] - L[k] + 1], D, L, r, w, w)
      BY <1>2, DrainAtWhole
    <3> QED BY <3>1, <3>2, <1>b
  <2>2. CASE q # n
    <3>1. PICK j \in k + 1 .. w : j = k + q /\ j = k + (q + 1) - 1 /\ k + q - 1 = j - 1
      <4>1. k + q \in k + 1 .. w /\ k + q = k + (q + 1) - 1 /\ k + q - 1 = (k + q) - 1
        BY <2>2, <1>a, <1>0
      <4> QED BY <4>1
    <3>2. q + 1 \in S
      <4>1. q + 1 \in q + 1 .. n
        BY <2>2
      <4> QED BY <4>1, <1>3
    <3>3. Took(f[L[j] - L[k] + 1], D, L, r, w, j)
      BY <3>1, <3>2, <1>b
    <3>4. Took(f[L[j - 1] - L[k] + 1], D, L, r, w, j - 1)
      BY <3>3, <1>2, DrainBefore
    <3> QED BY <3>1, <3>4, <1>b
  <2> QED BY <2>1, <2>2
<1>4. 1 .. n \subseteq S
  BY <1>3, Backwards
<1>5. 1 \in S /\ k + 1 - 1 = k /\ L[k] - L[k] + 1 = 1
  <2>1. 1 \in 1 .. n
    BY <1>a, <1>0
  <2> QED BY <2>1, <1>4, <1>0
<1> QED BY <1>2, <1>5, <1>b

\* After the beginning of a response that the end of the connection ends only its body
\* comes, and nothing of it is kept but what is no header.
LEMMA DrainBodyOnly ==
  ASSUME ~isRequest, NEW b \in Seq(BodyTokens)
  PROVE  drain(b) \in DrainResults /\ drain(b).rest \in Seq(BodyTokens)
<1>1. b \in Seq(Tokens)
  BY BodiesAreTokens
<1>2. PICK f : DrainFrom(f, b) /\ drain(b) = f[1]
  BY <1>1, DrainRecursion
<1>a. PICK n \in Nat : n = Len(b)
  OBVIOUS
<1>3. SubSeq(b, 1, n) = b
  <2>1. 0 \in Nat /\ 0 <= n /\ n <= Len(b) /\ 0 + 1 = 1
    BY <1>a
  <2>2. PICK s : s = SubSeq(b, 0 + 1, n)
    OBVIOUS
  <2>3. s \in Seq(Tokens) /\ PieceOf(s, b, 0, n)
    BY <2>1, <2>2, <1>1, PieceFacts
  <2>4. Len(s) = n /\ \A i \in 1 .. n : s[i] = b[i]
    BY <2>3 DEF PieceOf
  <2>5. s = b
    BY <2>3, <2>4, <1>1, <1>a, SameSeq
  <2> QED BY <2>1, <2>2, <2>5
<1>4. f[1] \in DrainResults
  BY <1>2, <1>a DEF DrainFrom
<1>5. Parse(b).used = 0 \/ Parse(b).used = n
  BY <1>a, ParseBodyOnly
<1>6. CASE Parse(b).used = 0
  <2>1. Stops(f, 1, b)
    <3>1. 1 \in 1 .. Len(b) + 1 /\ b = SubSeq(b, 1, Len(b))
      BY <1>3, <1>a
    <3> QED BY <3>1, <1>1, <1>2, <1>6, DrainStops
  <2> QED BY <2>1, <1>2, <1>4 DEF Stops
<1>7. CASE Parse(b).used # 0
  <2>1. n \in Nat \ {0} /\ Parse(b).used = n
    BY <1>5, <1>7
  <2>2. f[1] = DrainStep(b, f, 1)
    BY <1>2, <1>a DEF DrainFrom
  <2>3. PICK t : t = f[1 + n]
    OBVIOUS
  <2>4. PICK z : z = SubSeq(b, 1 + n, Len(b))
    OBVIOUS
  <2>5. z = <<>>
    BY <2>4, <1>a
  <2>6. Parse(z).used = 0
    BY <2>5 DEF Parse, NotYet
  <2>7. Stops(f, 1 + n, z)
    <3>1. 1 + n \in 1 .. Len(b) + 1
      BY <1>a
    <3> QED BY <3>1, <2>4, <2>6, <1>1, <1>2, DrainStops
  <2>8. t = [out |-> <<>>, rest |-> <<>>] /\ t \in [out : Seq(Handed), rest : Seq(Tokens)]
    BY <2>3, <2>5, <2>7 DEF Stops
  <2>9. PICK r : r = Parse(b) /\ r.used = n
    BY <2>1
  <2>10. PICK h : h = <<[head |-> r.head, body |-> r.body]>>
    OBVIOUS
  <2>11. f[1] = [t EXCEPT !.out = h \o @]
    BY <2>1, <2>2, <2>3, <2>9, <2>10, <1>3, <1>a DEF DrainStep
  <2>12. f[1].rest = t.rest
    BY <2>8, <2>11
  <2>13. f[1].rest = <<>> /\ <<>> \in Seq(BodyTokens)
    BY <2>8, <2>12
  <2> QED BY <2>13, <1>2, <1>4
<1> QED BY <1>6, <1>7

-----------------------------------------------------------------------------
(* The inductive invariant. After r tokens o has been handed on and b is in *)
(* the buffer.                                                              *)

\* So far each message had an end that can be told, and the buffer has what follows.
Between(D, L, r, o, b) ==
  /\ ~Begun(L, r)
  /\ \E k : /\ WholeAt(L, r, k) /\ Len(o) = k /\ b = SubSeq(D, L[k] + 1, r)
            /\ \A i \in 1 .. k : o[i] = Expected(i)

\* A response that the end of the connection ends was handed on with what there was of
\* its body, and what is left can only be body.
Within(D, L, r, o, b) ==
  /\ Begun(L, r) /\ Len(o) >= Len(msgs) /\ b \in Seq(BodyTokens)
  /\ \A i \in 1 .. Len(msgs) - 1 : o[i] = Expected(i)
  /\ o[Len(msgs)].head = msgs[Len(msgs)].head
  /\ \E x \in Nat : /\ L[Len(msgs) - 1] + 3 <= x /\ x <= r
                    /\ o[Len(msgs)].body = SubSeq(D, L[Len(msgs) - 1] + 4, x)

Reassembled(D, L, r, o, b) ==
  /\ r \in Nat /\ r <= Len(D) /\ o \in Seq(Handed)
  /\ Between(D, L, r, o, b) \/ Within(D, L, r, o, b)

Http1Inv ==
  /\ isRequest \in BOOLEAN /\ Conversation
  /\ \E D, L : WireIs(D, L) /\ Reassembled(D, L, read, out, buf)

LEMMA BeginningEmpty ==
  ASSUME Conversation, NEW D, NEW L, WireIs(D, L)
  PROVE  Reassembled(D, L, 0, <<>>, <<>>)
<1>a. PICK n \in Nat \ {0} : n = Len(msgs)
  BY DEF Conversation
<1>0. D \in Seq(Tokens) /\ Len(D) \in Nat /\ 0 <= Len(D) /\ 0 \in Nat
  BY DEF WireIs
<1>1. PICK w : WholeAt(L, 0, w)
  BY <1>0, WholeExists
<1>2. /\ w \in 0 .. n /\ (\A j \in 0 .. n : L[j] \in Nat) /\ \A j \in 0 .. w : L[j] <= 0
  BY <1>0, <1>1, <1>a, WholeFacts
<1>3. w = 0
  <2>1. SUFFICES ASSUME w # 0 PROVE FALSE
    OBVIOUS
  <2>2. 1 \in 0 .. w /\ 1 \in 1 .. n /\ 1 - 1 = 0
    BY <2>1, <1>2
  <2>3. L[1] = L[0] + Len(Encoded(msgs[1])) /\ L[0] = 0
    BY <2>2, <1>a DEF WireIs
  <2>4. Len(Encoded(msgs[1])) \in Nat /\ 3 <= Len(Encoded(msgs[1]))
    <3>1. msgs[1] \in Messages
      BY <2>2, <1>a DEF Conversation, IsMessage, Messages
    <3> QED BY <3>1, EncodedFacts
  <2>5. L[1] <= 0
    BY <2>2, <1>2
  <2> QED BY <2>3, <2>4, <2>5
<1>4. ~Begun(L, 0)
  <2>1. L[n - 1] \in Nat
    <3>1. n - 1 \in 0 .. n
      OBVIOUS
    <3> QED BY <3>1, <1>2
  <2> QED BY <2>1, <1>a DEF Begun
<1>5. SubSeq(D, L[0] + 1, 0) = <<>>
  <2>1. L[0] = 0
    BY DEF WireIs
  <2> QED BY <2>1, <1>0
<1>6. Between(D, L, 0, <<>>, <<>>)
  <2>1. PICK o : o = <<>> /\ Len(o) = 0 /\ \A i \in 1 .. 0 : o[i] = Expected(i)
    OBVIOUS
  <2>2. WholeAt(L, 0, 0) /\ o = SubSeq(D, L[0] + 1, 0)
    BY <2>1, <1>1, <1>3, <1>5
  <2>3. Between(D, L, 0, o, o)
    BY ONLY <2>1, <2>2, <1>4 DEF Between
  <2> QED BY <2>1, <2>3
<1> QED BY <1>0, <1>6 DEF Reassembled

\* Only one number of messages is the number of the whole ones.
LEMMA WholeUnique ==
  ASSUME Conversation, NEW L, NEW r, NEW v, WholeAt(L, r, v), NEW w, WholeAt(L, r, w)
  PROVE  v = w
<1>1. Framed \in Nat
  BY FramedFacts
<1>2. v \in 0 .. Framed /\ w \in 0 .. Framed /\ v <= w /\ w <= v
  BY DEF WholeAt
<1> QED BY <1>1, <1>2

\* What is handed on is added to what was handed on before.
HandedAfter(u, o, x, k, n) ==
  /\ u \in Seq(Handed) /\ k \in Nat /\ n \in Nat /\ Len(u) = k + n
  /\ \A i \in 1 .. k : u[i] = o[i]
  /\ \A i \in 1 .. n : u[k + i] = x[i]

LEMMA MoreHanded ==
  ASSUME NEW o \in Seq(Handed), NEW x \in Seq(Handed), NEW k, k = Len(o), NEW n, n = Len(x)
  PROVE  HandedAfter(o \o x, o, x, k, n)
<1>1. PICK u : Conc(u, o, x)
  BY DEF Conc
<1>2. u \in Seq(Handed) /\ Glued(u, o, x, k, n)
  BY <1>1, ConcLengths
<1> QED BY <1>1, <1>2 DEF Glued, Conc, HandedAfter

LEMMA CapturedBetween ==
  ASSUME Conversation, NEW D, NEW L, WireIs(D, L), NEW r \in Nat, NEW o, NEW b, r <= Len(D),
         o \in Seq(Handed), Between(D, L, r, o, b),
         NEW n \in Nat, r + n <= Len(D), NEW t, t = drain(b \o SubSeq(D, r + 1, r + n))
  PROVE  Reassembled(D, L, r + n, o \o t.out, t.rest)
<1>a. PICK r2 \in Nat : r2 = r + n /\ r <= r2 /\ r2 <= Len(D)
  OBVIOUS
<1>b. PICK N \in Nat \ {0} : N = Len(msgs)
  BY DEF Conversation
<1>c. PICK k : /\ WholeAt(L, r, k) /\ Len(o) = k /\ b = SubSeq(D, L[k] + 1, r)
               /\ \A i \in 1 .. k : o[i] = Expected(i)
  BY DEF Between
<1>d. PICK w : WholeAt(L, r2, w)
  BY WholeExists
<1>0. D \in Seq(Tokens)
  BY DEF WireIs
<1>1. Framed \in Nat /\ k \in 0 .. Framed /\ L[k] <= r /\ L[k] \in Nat /\ w \in 0 .. Framed
      /\ (Begun(L, r2) => w = N - 1)
  <2>1. Framed \in Nat
    BY FramedFacts
  <2>2. k \in 0 .. N /\ \A i \in 0 .. N : L[i] \in Nat
    BY <1>b, <1>c, WholeFacts
  <2>3. Begun(L, r2) => w = N - 1
    BY <1>a, <1>b, <1>d, WholeFacts
  <2> QED BY <2>1, <2>2, <2>3, <1>c, <1>d DEF WholeAt
<1>2. k \in 0 .. w
  <2>1. L[k] <= r2
    BY <1>1, <1>a
  <2>2. k <= w
    BY <2>1, <1>1, <1>d DEF WholeAt
  <2> QED BY <2>2, <1>1
<1>3. b \o SubSeq(D, r + 1, r2) = SubSeq(D, L[k] + 1, r2)
  <2>1. PICK a \in Nat : a = L[k] /\ a <= r
    BY <1>1
  <2>2. SubSeq(D, a + 1, r) \o SubSeq(D, r + 1, r2) = SubSeq(D, a + 1, r2)
    <3>1. D \in Seq(Tokens) /\ a \in Nat /\ r \in Nat /\ r2 \in Nat /\ a <= r /\ r <= r2 /\ r2 <= Len(D)
      BY <2>1, <1>0, <1>a
    <3> QED BY ONLY <3>1, PiecesJoined
  <2> QED BY <2>1, <2>2, <1>c
<1>4. Took(t, D, L, r2, w, k)
  <2>1. PICK x : x = SubSeq(D, L[k] + 1, r2)
    OBVIOUS
  <2>2. t = drain(x)
    BY <2>1, <1>3, <1>a
  <2> QED BY <2>1, <2>2, <1>2, <1>a, <1>d, DrainIs
<1>e. PICK x, m, o2 : x = t.out /\ m = Len(x) /\ o2 = o \o x
  OBVIOUS
<1>5. x \in Seq(Handed) /\ \A i \in 1 .. w - k : x[i] = Expected(k + i)
  BY <1>4, <1>e DEF Took, DrainResults
<1>6. /\ o2 \in Seq(Handed) /\ k \in Nat /\ m \in Nat /\ Len(o2) = k + m
      /\ \A i \in 1 .. k : o2[i] = o[i]
      /\ \A i \in 1 .. m : o2[k + i] = x[i]
  <2>1. HandedAfter(o \o x, o, x, k, m)
    BY <1>5, <1>c, <1>e, MoreHanded
  <2> QED BY <2>1, <1>e DEF HandedAfter
<1>7. w \in Nat /\ k <= w /\ w - k \in Nat /\ (m = w - k \/ m = w - k + 1)
  <2>1. w \in Nat /\ k \in Nat /\ k <= w
    BY <1>1, <1>2
  <2>2. m = w - k \/ m = w - k + 1
    BY <1>4, <1>e DEF Took
  <2> QED BY <2>1, <2>2
<1>8. ASSUME NEW i \in 1 .. w PROVE o2[i] = Expected(i)
  <2>1. CASE i <= k
    <3>1. i \in 1 .. k
      BY <2>1, <1>6
    <3> QED BY <3>1, <1>6, <1>c
  <2>2. CASE ~(i <= k)
    <3>1. PICK j \in 1 .. w - k : k + j = i /\ j \in 1 .. m
      <4>1. i - k \in 1 .. w - k /\ k + (i - k) = i /\ i - k \in 1 .. m
        BY <2>2, <1>6, <1>7
      <4> QED BY <4>1
    <3> QED BY <3>1, <1>5, <1>6
  <2> QED BY <2>1, <2>2
<1>9. CASE Begun(L, r2)
  <2>1. m = w - k + 1 /\ x[m] = Closing(L, D, r2) /\ t.rest = <<>>
    BY <1>4, <1>9, <1>e DEF Took
  <2>2. w = N - 1 /\ k + m = N /\ m \in 1 .. m
    <3>1. w = N - 1
      BY <1>1, <1>9
    <3>2. m = w - k + 1 /\ m \in Nat /\ k \in Nat /\ w \in Nat /\ w - k \in Nat /\ N \in Nat
      BY <2>1, <1>6, <1>7
    <3> QED BY ONLY <3>1, <3>2
  <2>3. o2[N] = Closing(L, D, r2) /\ Len(o2) = N
    BY <2>1, <2>2, <1>6
  <2>4. o2[N].head = msgs[N].head /\ o2[N].body = SubSeq(D, L[N - 1] + 4, r2)
    <3>1. Closing(L, D, r2) = [head |-> msgs[N].head, body |-> SubSeq(D, L[N - 1] + 4, r2)]
      BY <1>b DEF Closing
    <3>2. PICK h, c : h = msgs[N].head /\ c = SubSeq(D, L[N - 1] + 4, r2)
      OBVIOUS
    <3>3. o2[N] = [head |-> h, body |-> c]
      BY <2>3, <3>1, <3>2
    <3>4. o2[N].head = h /\ o2[N].body = c
      BY ONLY <3>3
    <3> QED BY <3>2, <3>4
  <2>5. L[N - 1] + 3 <= r2
    BY <1>9, <1>b DEF Begun
  <2>6. \A i \in 1 .. N - 1 : o2[i] = Expected(i)
    BY <2>2, <1>8
  <2>7. <<>> \in Seq(BodyTokens) /\ Len(o2) >= N /\ r2 <= r2
    BY <2>3
  <2>8. Within(D, L, r2, o2, t.rest)
    BY <2>1, <2>4, <2>5, <2>6, <2>7, <1>9, <1>b DEF Within
  <2> QED BY <2>8, <1>6, <1>a, <1>e DEF Reassembled
<1>10. CASE ~Begun(L, r2)
  <2>1. m = w - k /\ t.rest = SubSeq(D, L[w] + 1, r2)
    BY <1>4, <1>10, <1>e DEF Took
  <2>2. Len(o2) = w
    BY <2>1, <1>6, <1>7
  <2>3. Between(D, L, r2, o2, t.rest)
    BY <2>1, <2>2, <1>8, <1>10, <1>d DEF Between
  <2> QED BY <2>3, <1>6, <1>a, <1>e DEF Reassembled
<1> QED BY <1>9, <1>10

\* What follows the header of a response that the end of the connection ends.
LEMMA OnlyBodyFollows ==
  ASSUME Conversation, NEW D, NEW L, WireIs(D, L), NEW r \in Nat, Begun(L, r),
         NEW r2 \in Nat, r <= r2, r2 <= Len(D)
  PROVE  SubSeq(D, r + 1, r2) \in Seq(BodyTokens)
<1>a. PICK n \in Nat \ {0} : n = Len(msgs)
  BY DEF Conversation
<1>b. PICK m : m = msgs[n] /\ m \in Messages /\ UntilClose(m)
  <2>1. msgs[n] \in Messages
    BY <1>a DEF Conversation, IsMessage, Messages
  <2>2. UntilClose(msgs[n])
    BY <1>a, FramedFacts DEF Begun
  <2> QED BY <2>1, <2>2
<1>c. PICK a \in Nat : a = L[n - 1] /\ a + 3 <= r
  <2>1. n - 1 \in 0 .. n
    OBVIOUS
  <2> QED BY <2>1, <1>a DEF WireIs, Begun
<1>d. PICK c \in Seq(BodyTokens), k \in Nat : c = Content(m) /\ k = Len(c)
  <2>1. Content(m) \in Seq(BodyTokens)
    BY <1>b, MessageFacts
  <2> QED BY <2>1
<1>e. PICK e : e = Encoded(m)
  OBVIOUS
<1>0. D \in Seq(Tokens)
  BY DEF WireIs
<1>1. PlainLayout(e, m)
  BY <1>b, <1>e, EncodedPlain DEF UntilClose
<1>2. Len(e) = 3 + k /\ \A i \in 1 .. k : e[3 + i] = c[i]
  BY <1>1, <1>d DEF PlainLayout
<1>3. Len(D) = a + (3 + k) /\ \A i \in 1 .. 3 + k : D[a + i] = e[i]
  <2>1. n \in 1 .. n /\ L[n] = Len(D)
    BY <1>a DEF WireIs
  <2>2. /\ L[n] = L[n - 1] + Len(Encoded(msgs[n]))
        /\ \A i \in 1 .. Len(Encoded(msgs[n])) : D[L[n - 1] + i] = Encoded(msgs[n])[i]
    BY <2>1, <1>a DEF WireIs
  <2>3. Encoded(msgs[n]) = e /\ L[n - 1] = a /\ Len(e) = 3 + k
    BY <1>b, <1>c, <1>e, <1>2
  <2> QED BY ONLY <2>1, <2>2, <2>3
<1>f. PICK s : s = SubSeq(D, r + 1, r2)
  OBVIOUS
<1>4. s \in Seq(Tokens) /\ PieceOf(s, D, r, r2)
  BY <1>0, <1>f, PieceFacts
<1>5. Len(s) = r2 - r /\ \A i \in 1 .. r2 - r : s[i] = D[r + i]
  BY <1>4 DEF PieceOf
<1>6. ASSUME NEW i \in 1 .. r2 - r PROVE s[i] \in BodyTokens
  <2>1. PICK j \in 1 .. k : r + i = a + (3 + j) /\ 3 + j \in 1 .. 3 + k
    <3>1. r2 <= a + (3 + k)
      BY <1>3
    <3>2. PICK q \in Nat, z \in Nat : q = i /\ z = r2 - r /\ 1 <= q /\ q <= z
      OBVIOUS
    <3>3. PICK j \in Nat : j = r + q - (a + 3) /\ r + q = a + (3 + j)
      <4>0. a \in Nat /\ a + 3 <= r
        BY <1>c
      <4>1. r + q - (a + 3) \in Nat
        BY ONLY <3>2, <4>0, r \in Nat
      <4>2. r + q = a + (3 + (r + q - (a + 3)))
        BY ONLY <4>0, r \in Nat, q \in Nat
      <4> QED BY ONLY <4>1, <4>2
    <3>0. a \in Nat /\ a + 3 <= r /\ k \in Nat
      BY <1>c
    <3>4. 1 <= j /\ j <= k
      <4>1. j = r + q - a - 3 /\ r + q <= r2
        BY ONLY <3>0, <3>2, <3>3, r \in Nat, r2 \in Nat
      <4> QED BY ONLY <4>1, <3>0, <3>1, <3>2, <3>3, r \in Nat, r2 \in Nat
    <3>5. j \in 1 .. k /\ 3 + j \in 1 .. 3 + k
      BY ONLY <3>3, <3>4, k \in Nat
    <3> QED BY <3>2, <3>3, <3>5
  <2>2. D[a + (3 + j)] = e[3 + j] /\ e[3 + j] = c[j]
    BY <2>1, <1>2, <1>3
  <2>3. c[j] \in BodyTokens
    BY <1>d
  <2> QED BY <2>1, <2>2, <2>3, <1>5
<1>7. s \in Seq(BodyTokens)
  <2>1. \A i \in 1 .. Len(s) : s[i] \in BodyTokens
    BY <1>5, <1>6
  <2> QED BY <2>1, <1>4
<1> QED BY <1>7, <1>f

LEMMA CapturedWithin ==
  ASSUME Conversation, NEW D, NEW L, WireIs(D, L), NEW r \in Nat, NEW o, NEW b, r <= Len(D),
         o \in Seq(Handed), Within(D, L, r, o, b),
         NEW n \in Nat, r + n <= Len(D), NEW t, t = drain(b \o SubSeq(D, r + 1, r + n))
  PROVE  Reassembled(D, L, r + n, o \o t.out, t.rest)
<1>a. PICK r2 \in Nat : r2 = r + n /\ r <= r2 /\ r2 <= Len(D)
  OBVIOUS
<1>b. PICK N \in Nat \ {0} : N = Len(msgs)
  BY DEF Conversation
<1>1. /\ Begun(L, r) /\ Len(o) >= N /\ b \in Seq(BodyTokens)
      /\ \A i \in 1 .. N - 1 : o[i] = Expected(i)
      /\ o[N].head = msgs[N].head
  BY <1>b DEF Within
<1>c. PICK x \in Nat : L[N - 1] + 3 <= x /\ x <= r /\ o[N].body = SubSeq(D, L[N - 1] + 4, x)
  BY <1>b DEF Within
<1>d. PICK s : s = SubSeq(D, r + 1, r2)
  OBVIOUS
<1>2. s \in Seq(BodyTokens)
  BY <1>1, <1>a, <1>d, OnlyBodyFollows
<1>3. b \o s \in Seq(BodyTokens)
  BY <1>1, <1>2, JoinedIn
<1>4. ~isRequest
  BY <1>1, FramedFacts DEF Begun, UntilClose
<1>5. t \in DrainResults /\ t.rest \in Seq(BodyTokens)
  BY <1>3, <1>4, <1>a, <1>d, DrainBodyOnly
<1>e. PICK y, k, m, o2 : y = t.out /\ k = Len(o) /\ m = Len(y) /\ o2 = o \o y
  OBVIOUS
<1>6. y \in Seq(Handed)
  BY <1>5, <1>e DEF DrainResults
<1>7. /\ o2 \in Seq(Handed) /\ k \in Nat /\ m \in Nat /\ Len(o2) = k + m
      /\ \A i \in 1 .. k : o2[i] = o[i]
  <2>1. HandedAfter(o \o y, o, y, k, m)
    BY <1>6, <1>e, MoreHanded
  <2> QED BY <2>1, <1>e DEF HandedAfter
<1>8. N <= k /\ Len(o2) >= N
  BY <1>1, <1>7, <1>e
<1>9. \A i \in 1 .. N : o2[i] = o[i]
  <2>1. \A i \in 1 .. N : i \in 1 .. k
    BY <1>8, <1>7
  <2> QED BY <2>1, <1>7
<1>10. N \in 1 .. N /\ \A i \in 1 .. N - 1 : i \in 1 .. N
  OBVIOUS
<1>11. L[N - 1] \in Nat
  <2>1. N - 1 \in 0 .. N
    OBVIOUS
  <2> QED BY <2>1, <1>b DEF WireIs
<1>12. Begun(L, r2)
  <2>1. L[N - 1] + 3 <= r /\ Framed < N
    BY <1>1, <1>b DEF Begun
  <2>2. L[N - 1] + 3 <= r2
    BY <2>1, <1>a, <1>11
  <2> QED BY <2>1, <2>2, <1>b DEF Begun
<1>13. x <= r2
  BY <1>a, <1>c
<1>14. (\A i \in 1 .. N - 1 : o2[i] = Expected(i)) /\ o2[N] = o[N]
  BY <1>1, <1>9, <1>10
<1>15. Within(D, L, r2, o2, t.rest)
  BY <1>1, <1>5, <1>8, <1>12, <1>13, <1>14, <1>b, <1>c DEF Within
<1> QED BY <1>7, <1>15, <1>a, <1>e DEF Reassembled

\* What the messages that were handed on are in full, and one in part.
LEMMA WholeAreHanded ==
  ASSUME Conversation, NEW D, NEW L, WireIs(D, L), Reassembled(D, L, read, out, buf)
  PROVE  HandedOnWhenWhole
<1>a. PICK N \in Nat \ {0} : N = Len(msgs)
  BY DEF Conversation
<1>b. PICK w : w = Whole /\ WholeAt(L, read, w)
  BY WholeIs DEF Reassembled
<1>0. out \in Seq(Handed) /\ read \in Nat
  BY DEF Reassembled
<1>1. Framed \in Nat /\ w \in 0 .. Framed
  BY <1>b, FramedFacts DEF WholeAt
<1>2. /\ Len(out) >= w /\ \A i \in 1 .. w : out[i] = Expected(i)
      /\ Len(out) > w => w = Framed /\ Framed < N
  <2>1. CASE Between(D, L, read, out, buf)
    <3>1. PICK k : WholeAt(L, read, k) /\ Len(out) = k /\ \A i \in 1 .. k : out[i] = Expected(i)
      BY <2>1 DEF Between
    <3>2. k = w
      BY <3>1, <1>b, WholeUnique
    <3> QED BY <3>1, <3>2, <1>1
  <2>2. CASE Within(D, L, read, out, buf)
    <3>1. Begun(L, read) /\ Len(out) >= N /\ \A i \in 1 .. N - 1 : out[i] = Expected(i)
      BY <2>2, <1>a DEF Within
    <3>2. w = N - 1 /\ w = Framed
      BY <3>1, <1>0, <1>a, <1>b, WholeFacts
    <3>3. Framed < N
      BY <3>1, <1>a DEF Begun
    <3> QED BY <3>1, <3>2, <3>3, <1>0
  <2> QED BY <2>1, <2>2 DEF Reassembled
<1>3. SubSeq(out, 1, w) = [i \in 1 .. w |-> Expected(i)]
  <2>a. PICK s, e : s = SubSeq(out, 0 + 1, w) /\ e = [i \in 1 .. w |-> Expected(i)]
    OBVIOUS
  <2>1. w \in Nat /\ 0 \in Nat /\ 0 <= w /\ w <= Len(out)
    BY <1>0, <1>1, <1>2
  <2>2. s \in Seq(Handed) /\ PieceOf(s, out, 0, w)
    BY <2>1, <2>a, <1>0, PieceFacts
  <2>3. Len(s) = w /\ \A i \in 1 .. w : s[i] = out[i]
    BY <2>1, <2>2 DEF PieceOf
  <2>4. \A i \in 1 .. w : out[i] \in Handed
    BY <2>1, <1>0
  <2>5. e \in Seq(Handed) /\ Len(e) = w /\ \A i \in 1 .. w : e[i] = Expected(i)
    BY <2>1, <2>4, <2>a, <1>2
  <2>6. s = e
    BY <2>2, <2>3, <2>5, <1>2, SameSeq
  <2>7. 0 + 1 = 1
    OBVIOUS
  <2> QED BY <2>6, <2>7, <2>a
<1> QED BY <1>2, <1>3, <1>a, <1>b DEF HandedOnWhenWhole

LEMMA BegunIsHanded ==
  ASSUME Conversation, NEW D, NEW L, WireIs(D, L), Reassembled(D, L, read, out, buf)
  PROVE  CloseDelimitedPrefix
<1>a. PICK N \in Nat \ {0} : N = Len(msgs)
  BY DEF Conversation
<1>b. PICK m : m = msgs[N] /\ m \in Messages
  BY <1>a DEF Conversation, IsMessage, Messages
<1>c. PICK a \in Nat : a = L[N - 1] /\ a = Len(Wire(N - 1))
  <2>1. N - 1 \in 0 .. N
    OBVIOUS
  <2> QED BY <2>1, <1>a DEF WireIs
<1>1. SUFFICES ASSUME UntilClose(m), read >= a + 3
               PROVE  Len(out) >= N /\ out[N].head = m.head /\ IsPrefix(out[N].body, Content(m))
  BY <1>a, <1>b, <1>c DEF CloseDelimitedPrefix
<1>0. D \in Seq(Tokens) /\ read \in Nat /\ read <= Len(D)
  BY DEF WireIs, Reassembled
<1>2. Begun(L, read)
  <2>1. Framed < N
    BY <1>1, <1>a, <1>b, FramedFacts
  <2> QED BY <2>1, <1>0, <1>1, <1>a, <1>c DEF Begun
<1>3. Within(D, L, read, out, buf)
  BY <1>2 DEF Reassembled, Between
<1>4. Len(out) >= N /\ out[N].head = m.head
  BY <1>3, <1>a, <1>b DEF Within
<1>d. PICK x \in Nat : a + 3 <= x /\ x <= read /\ out[N].body = SubSeq(D, a + 4, x)
  BY <1>3, <1>a, <1>c DEF Within
<1>e. PICK c \in Seq(BodyTokens), k \in Nat : c = Content(m) /\ k = Len(c)
  <2>1. Content(m) \in Seq(BodyTokens)
    BY <1>b, MessageFacts
  <2> QED BY <2>1
<1>5. Len(D) = a + 3 + k /\ \A i \in 1 .. k : D[a + 3 + i] = c[i]
  <2>1. PlainLayout(Encoded(m), m)
    BY <1>1, <1>b, EncodedPlain DEF UntilClose
  <2>a. PICK e : e = Encoded(m)
    OBVIOUS
  <2>2. Len(e) = 3 + k /\ \A i \in 1 .. k : e[3 + i] = c[i]
    BY <2>1, <2>a, <1>e DEF PlainLayout
  <2>3. Len(D) = a + (3 + k) /\ \A i \in 1 .. 3 + k : D[a + i] = e[i]
    <3>1. N \in 1 .. N /\ L[N] = Len(D)
      BY <1>a DEF WireIs
    <3>2. /\ L[N] = L[N - 1] + Len(Encoded(msgs[N]))
          /\ \A i \in 1 .. Len(Encoded(msgs[N])) : D[L[N - 1] + i] = Encoded(msgs[N])[i]
      BY <3>1, <1>a DEF WireIs
    <3>3. Encoded(msgs[N]) = e /\ L[N - 1] = a /\ Len(e) = 3 + k
      BY <2>a, <2>2, <1>b, <1>c
    <3> QED BY ONLY <3>1, <3>2, <3>3
  <2>4. ASSUME NEW i \in 1 .. k PROVE D[a + 3 + i] = c[i]
    <3>1. 3 + i \in 1 .. 3 + k /\ a + (3 + i) = a + 3 + i
      OBVIOUS
    <3> QED BY <3>1, <2>2, <2>3
  <2>5. a + (3 + k) = a + 3 + k
    OBVIOUS
  <2> QED BY <2>3, <2>4, <2>5
<1>f. PICK p \in Nat, l \in Nat : p = a + 3 /\ l = x - p /\ p <= x /\ x <= Len(D) /\ p + 1 = a + 4 /\ l <= k
  <2>1. x - (a + 3) \in Nat /\ x <= Len(D) /\ (a + 3) + 1 = a + 4 /\ x - (a + 3) <= k
    BY <1>0, <1>5, <1>d
  <2> QED BY <2>1, <1>d
<1>g. PICK s, u : s = SubSeq(D, p + 1, x) /\ u = SubSeq(c, 0 + 1, l)
  OBVIOUS
<1>6. s \in Seq(Tokens) /\ PieceOf(s, D, p, x)
  BY <1>0, <1>f, <1>g, PieceFacts
<1>7. Len(s) = l /\ \A i \in 1 .. l : s[i] = c[i]
  <2>1. Len(s) = l /\ \A i \in 1 .. l : s[i] = D[p + i]
    BY <1>6, <1>f DEF PieceOf
  <2>2. \A i \in 1 .. l : i \in 1 .. k
    BY <1>f
  <2> QED BY <2>1, <2>2, <1>5, <1>f
<1>8. u \in Seq(BodyTokens) /\ PieceOf(u, c, 0, l)
  <2>1. 0 \in Nat /\ 0 <= l /\ l <= Len(c)
    BY <1>e, <1>f
  <2> QED BY <2>1, <1>g, PieceFacts
<1>9. Len(u) = l /\ \A i \in 1 .. l : u[i] = c[i]
  BY <1>8 DEF PieceOf
<1>10. s = u
  BY <1>6, <1>7, <1>8, <1>9, BodiesAreTokens, SameSeq
<1>h. PICK v : v = SubSeq(s, 0 + 1, l)
  OBVIOUS
<1>11. v = s
  <2>1. 0 \in Nat /\ 0 <= l /\ l <= Len(s)
    BY <1>7
  <2>2. v \in Seq(Tokens) /\ PieceOf(v, s, 0, l)
    BY <2>1, <1>6, <1>h, PieceFacts
  <2>3. Len(v) = l /\ \A i \in 1 .. l : v[i] = s[i]
    BY <2>2 DEF PieceOf
  <2> QED BY <2>2, <2>3, <1>6, <1>7, SameSeq
<1>12. IsPrefix(s, c)
  <2>1. SubSeq(s, 1, l) = SubSeq(c, 1, l)
    <3>1. 0 + 1 = 1
      OBVIOUS
    <3> QED BY <3>1, <1>10, <1>11, <1>g, <1>h
  <2>2. l <= Len(c)
    BY <1>e, <1>f
  <2> QED BY <2>1, <2>2, <1>7 DEF IsPrefix
<1> QED BY <1>4, <1>12, <1>d, <1>e, <1>f, <1>g

\* A message, of either kind, is one of the messages.
LEMMA AnyMessage ==
  ASSUME NEW m \in IF isRequest THEN Requests ELSE Responses
  PROVE  IsMessage(m)
BY DEF IsMessage

LEMMA BeginsReassembled == InitHttp1 => Http1Inv
<1> SUFFICES ASSUME InitHttp1 PROVE Http1Inv
  OBVIOUS
<1>1. PICK M : M = IF isRequest THEN Requests ELSE Responses
  OBVIOUS
<1>2. PICK n \in 1 .. MaxMessages : msgs \in [1 .. n -> M]
  BY <1>1 DEF InitHttp1
<1>3. n \in Nat \ {0}
  BY Http1Assumption
<1>4. Len(msgs) = n /\ \A i \in 1 .. n : msgs[i] \in M
  <2>1. msgs \in Seq(M)
    BY <1>2, <1>3
  <2> QED BY <2>1, <1>2, <1>3
<1>5. \A i \in 1 .. n : IsMessage(msgs[i])
  BY <1>4, <1>1 DEF IsMessage
<1>6. Conversation
  BY <1>3, <1>4, <1>5 DEF Conversation, InitHttp1
<1>7. PICK D, L : WireIs(D, L)
  BY <1>6, WireExists
<1>8. Reassembled(D, L, 0, <<>>, <<>>)
  BY <1>6, <1>7, BeginningEmpty
<1>9. Reassembled(D, L, read, out, buf)
  BY <1>8 DEF InitHttp1
<1> QED BY <1>6, <1>7, <1>9 DEF Http1Inv, InitHttp1

\* What is captured and parsed is where the invariant says it is.
LEMMA CapturedReassembled ==
  ASSUME Conversation, NEW D, NEW L, WireIs(D, L), Reassembled(D, L, read, out, buf),
         NEW n \in 1 .. MaxRead, Captured(n)
  PROVE  Reassembled(D, L, read', out', buf')
<1>1. n \in Nat
  BY Http1Assumption
<1>2. D = Wire(Len(msgs))
  BY DEF WireIs
<1>3. PICK t : t = drain(buf \o SubSeq(D, read + 1, read + n))
  OBVIOUS
<1>4. read + n <= Len(D) /\ read' = read + n /\ out' = out \o t.out /\ buf' = t.rest
  BY <1>2, <1>3 DEF Captured
<1>5. read \in Nat /\ read <= Len(D) /\ out \in Seq(Handed)
  BY DEF Reassembled
<1>6. Reassembled(D, L, read + n, out \o t.out, t.rest)
  <2>1. CASE Between(D, L, read, out, buf)
    BY <2>1, <1>1, <1>3, <1>4, <1>5, CapturedBetween
  <2>2. CASE Within(D, L, read, out, buf)
    BY <2>2, <1>1, <1>3, <1>4, <1>5, CapturedWithin
  <2> QED BY <2>1, <2>2 DEF Reassembled
<1> QED BY <1>4, <1>6

\* Nothing that the invariant says of the conversation changes with a step.
LEMMA SameConversation ==
  ASSUME msgs' = msgs, isRequest' = isRequest, Conversation, NEW D, NEW L, WireIs(D, L),
         Reassembled(D, L, read', out', buf')
  PROVE  Conversation' /\ WireIs(D, L)' /\ Reassembled(D, L, read, out, buf)'
<1>1. Conversation'
  BY DEF Conversation, IsMessage, UntilClose
<1>2. WireIs(D, L)'
  BY DEF WireIs, Wire
<1>3. Reassembled(D, L, read, out, buf)'
  BY DEF Reassembled, Between, Within, Begun, WholeAt, Framed, UntilClose, Expected
<1> QED BY <1>1, <1>2, <1>3

LEMMA StaysReassembled == Http1Inv /\ [NextHttp1]_http1Vars => Http1Inv'
<1> SUFFICES ASSUME Http1Inv, [NextHttp1]_http1Vars PROVE Http1Inv'
  OBVIOUS
<1>1. PICK D, L : WireIs(D, L) /\ Reassembled(D, L, read, out, buf)
  BY DEF Http1Inv
<1>2. Conversation /\ isRequest \in BOOLEAN
  BY DEF Http1Inv
<1>3. msgs' = msgs /\ isRequest' = isRequest
  BY DEF NextHttp1, Captured, http1Vars
<1>4. Reassembled(D, L, read', out', buf')
  <2>1. CASE UNCHANGED http1Vars
    BY <2>1, <1>1 DEF http1Vars
  <2>2. ASSUME NEW n \in 1 .. MaxRead, Captured(n) PROVE Reassembled(D, L, read', out', buf')
    BY <2>2, <1>1, <1>2, CapturedReassembled
  <2> QED BY <2>1, <2>2 DEF NextHttp1
<1>5. Conversation' /\ WireIs(D, L)' /\ Reassembled(D, L, read, out, buf)'
  BY <1>1, <1>2, <1>3, <1>4, SameConversation
<1> QED BY <1>2, <1>3, <1>5 DEF Http1Inv

-----------------------------------------------------------------------------
(* What the reassembly promises.                                            *)

\* What has been handed on and what waits in the buffer are, after every read, exactly
\* the messages that have come so far: ParseRequest and ParseResponse
\* (internal/parser/http1.go) keep their place in the stream, however it is cut into reads.
THEOREM Http1Invariant == SpecHttp1 => []Http1Inv
BY BeginsReassembled, StaysReassembled, PTL DEF SpecHttp1

\* ParseRequest and ParseResponse hand on each message when its last byte has been
\* captured, with its own body, and nothing else.
THEOREM WholeMessagesAreHandedOn == SpecHttp1 => []HandedOnWhenWhole
<1>1. Http1Inv => HandedOnWhenWhole
  BY WholeAreHanded DEF Http1Inv
<1> QED BY <1>1, Http1Invariant, PTL

\* The end of ParseResponse hands on a response that the end of the connection ends as soon
\* as its header is there, with a part of its body.
THEOREM CloseDelimitedIsHandedOn == SpecHttp1 => []CloseDelimitedPrefix
<1>1. Http1Inv => CloseDelimitedPrefix
  BY BegunIsHanded DEF Http1Inv
<1> QED BY <1>1, Http1Invariant, PTL

=============================================================================
