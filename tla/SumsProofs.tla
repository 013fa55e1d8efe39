----------------------------- MODULE SumsProofs -----------------------------
(***************************************************************************)
(* Facts about Sum (module Sums), from the theorems about finite sets, and *)
(* induction over the natural numbers.                                     *)
(***************************************************************************)
EXTENDS Sums, FiniteSetTheorems, WellFoundedInduction, TLAPS

\* Induction, for a set instead of a predicate.
LEMMA SetInduction ==
  ASSUME NEW S, 0 \in S, \A n \in Nat : n \in S => n + 1 \in S
  PROVE  Nat \subseteq S
<1> DEFINE R == OpToRel(<, Nat)
           T == Nat \ S
<1>1. \A x, y \in Nat : x < y => <<x, y>> \in R
  BY DEF OpToRel
<1>2. IsWellFoundedOn(R, Nat)
  BY NatLessThanWellFounded, Zenon
<1> HIDE DEF R
<1> SUFFICES ASSUME T # {} PROVE FALSE
  OBVIOUS
<1>3. PICK x \in T : \A y \in T : ~ (<<y, x>> \in R)
  BY <1>2, WFMin
<1>4. x \in Nat /\ x # 0 /\ x - 1 \in Nat /\ x - 1 < x
  OBVIOUS
<1>5. x - 1 \in S
  <2>1. <<x - 1, x>> \in R
    BY <1>1, <1>4
  <2> QED BY <1>3, <1>4, <2>1
<1>6. (x - 1) + 1 \in S
  BY <1>4, <1>5
<1> QED BY <1>4, <1>6

\* The coins of a finite set of purses are finitely many, so a sum over a
\* finite set is a natural number.
LEMMA SumType ==
  ASSUME NEW S, IsFiniteSet(S), NEW f, \A x \in S : f[x] \in Nat
  PROVE  IsFiniteSet(Coins(f, S)) /\ Sum(f, S) \in Nat
<1> DEFINE purses == { 1 .. f[x] : x \in S }
           purse == [x \in S |-> 1 .. f[x]]
<1>1. IsFiniteSet(purses)
  <2>1. purse \in Surjection(S, purses)
    BY DEF Surjection
  <2> QED BY <2>1, FS_Surjection
<1>2. \A T \in purses : IsFiniteSet(T)
  <2> TAKE T \in purses
  <2>1. PICK x \in S : T = 1 .. f[x]
    OBVIOUS
  <2>2. f[x] \in Int /\ 1 \in Int
    OBVIOUS
  <2> QED BY <2>1, <2>2, FS_Interval
<1>3. IsFiniteSet(UNION purses)
  BY <1>1, <1>2, FS_UNION
<1>4. IsFiniteSet(S \X UNION purses)
  BY <1>3, FS_Product
<1>5. IsFiniteSet(Coins(f, S))
  BY <1>4, FS_Subset DEF Coins
<1> QED BY <1>5, FS_CardinalityType DEF Sum

\* Nothing adds up to nothing.
LEMMA SumEmpty ==
  ASSUME NEW f
  PROVE  Sum(f, {}) = 0
<1>1. Coins(f, {}) = {}
  BY DEF Coins
<1> QED BY <1>1, FS_EmptySet DEF Sum

\* A sum depends on the terms only.
LEMMA SumSame ==
  ASSUME NEW S, NEW f, NEW g, \A x \in S : f[x] = g[x]
  PROVE  Sum(f, S) = Sum(g, S)
<1>1. Coins(f, S) = Coins(g, S)
  BY DEF Coins
<1> QED BY <1>1 DEF Sum

\* A coin is a purse and a number of at most what is in it.
LEMMA CoinsAre ==
  ASSUME NEW S, NEW f, \A x \in S : f[x] \in Nat
  PROVE  Coins(f, S) = { c \in S \X Nat : c[2] \in 1 .. f[c[1]] }
<1>1. ASSUME NEW c \in Coins(f, S)
      PROVE  c \in S \X Nat /\ c[2] \in 1 .. f[c[1]]
  <2>1. PICK x \in S : c[2] \in 1 .. f[x]
    BY <1>1 DEF Coins
  <2>2. c \in S \X UNION { 1 .. f[y] : y \in S } /\ c[2] <= f[c[1]]
    BY <1>1 DEF Coins
  <2> QED BY <2>1, <2>2
<1>2. ASSUME NEW c \in S \X Nat, c[2] \in 1 .. f[c[1]]
      PROVE  c \in Coins(f, S)
  <2>1. c[1] \in S /\ f[c[1]] \in Nat
    OBVIOUS
  <2>2. c[2] \in UNION { 1 .. f[y] : y \in S }
    BY <1>2, <2>1
  <2>3. c \in S \X UNION { 1 .. f[y] : y \in S }
    BY <2>2
  <2> QED BY <1>2, <2>1, <2>3 DEF Coins
<1> QED BY <1>1, <1>2

\* The sum of one term is that term.
LEMMA SumOne ==
  ASSUME NEW x, NEW f, f[x] \in Nat
  PROVE  Sum(f, {x}) = f[x]
<1>1. Coins(f, {x}) = {x} \X (1 .. f[x])
  BY DEF Coins
<1>2. IsFiniteSet({x}) /\ Cardinality({x}) = 1
  BY FS_Singleton
<1>3. IsFiniteSet(1 .. f[x]) /\ Cardinality(1 .. f[x]) = f[x]
  <2>1. /\ IsFiniteSet(1 .. f[x])
        /\ Cardinality(1 .. f[x]) = IF 1 > f[x] THEN 0 ELSE f[x] - 1 + 1
    BY FS_Interval
  <2> QED BY <2>1
<1>4. Cardinality({x} \X (1 .. f[x])) = Cardinality({x}) * Cardinality(1 .. f[x])
  BY <1>2, <1>3, FS_Product
<1>5. Cardinality({x} \X (1 .. f[x])) = 1 * f[x]
  BY <1>2, <1>3, <1>4
<1>6. 1 * f[x] = f[x]
  OBVIOUS
<1> QED BY <1>1, <1>5, <1>6 DEF Sum

\* The sum over two disjoint sets is the sum of the two sums.
LEMMA SumUnion ==
  ASSUME NEW S, IsFiniteSet(S), NEW T, IsFiniteSet(T), S \cap T = {},
         NEW f, \A x \in S \cup T : f[x] \in Nat
  PROVE  Sum(f, S \cup T) = Sum(f, S) + Sum(f, T)
<1> DEFINE A == Coins(f, S)
           B == Coins(f, T)
<1>0. /\ A = { c \in S \X Nat : c[2] \in 1 .. f[c[1]] }
      /\ B = { c \in T \X Nat : c[2] \in 1 .. f[c[1]] }
      /\ Coins(f, S \cup T) = { c \in (S \cup T) \X Nat : c[2] \in 1 .. f[c[1]] }
  BY CoinsAre
<1>1. Coins(f, S \cup T) = A \cup B
  BY <1>0
<1>2. A \cap B = {}
  BY <1>0
<1>3. IsFiniteSet(A) /\ IsFiniteSet(B)
  BY SumType
<1>4. Cardinality(A) \in Nat /\ Cardinality(B) \in Nat
  BY <1>3, FS_CardinalityType
<1> HIDE DEF A, B
<1>5. Cardinality(A \cup B) = Cardinality(A) + Cardinality(B) - Cardinality(A \cap B)
  BY <1>3, FS_Union
<1>6. Cardinality(A \cap B) = 0
  BY <1>2, FS_EmptySet
<1>7. Cardinality(A \cup B) = Cardinality(A) + Cardinality(B)
  BY <1>4, <1>5, <1>6
<1> QED BY <1>1, <1>7 DEF Sum, A, B

\* A sum of terms of at most c is at most c times their number.
LEMMA SumBound ==
  ASSUME NEW S, IsFiniteSet(S), NEW c \in Nat,
         NEW f, \A x \in S : f[x] \in 0 .. c
  PROVE  Sum(f, S) <= Cardinality(S) * c
<1>1. Coins(f, S) \subseteq S \X (1 .. c)
  BY CoinsAre
<1>2. IsFiniteSet(1 .. c) /\ Cardinality(1 .. c) = c
  <2>1. /\ IsFiniteSet(1 .. c)
        /\ Cardinality(1 .. c) = IF 1 > c THEN 0 ELSE c - 1 + 1
    BY FS_Interval
  <2> QED BY <2>1
<1>3. /\ IsFiniteSet(S \X (1 .. c))
      /\ Cardinality(S \X (1 .. c)) = Cardinality(S) * Cardinality(1 .. c)
  BY <1>2, FS_Product
<1>4. Cardinality(Coins(f, S)) <= Cardinality(S \X (1 .. c))
  BY <1>1, <1>3, FS_Subset
<1> QED BY <1>2, <1>3, <1>4 DEF Sum

\* Changing one term changes the sum by as much.
LEMMA SumUpdate ==
  ASSUME NEW S, IsFiniteSet(S), NEW x \in S,
         NEW f, \A y \in S : f[y] \in Nat,
         NEW g, g[x] \in Nat, \A y \in S \ {x} : g[y] = f[y]
  PROVE  Sum(g, S) = Sum(f, S) + g[x] - f[x]
<1> DEFINE R == S \ {x}
<1>1. IsFiniteSet(R) /\ IsFiniteSet({x})
  BY FS_RemoveElement, FS_Singleton
<1>2. S = R \cup {x} /\ R \cap {x} = {}
  OBVIOUS
<1>3. (\A y \in R : f[y] \in Nat /\ g[y] \in Nat) /\ f[x] \in Nat
  OBVIOUS
<1> HIDE DEF R
<1>4. Sum(f, R \cup {x}) = Sum(f, R) + Sum(f, {x})
  BY <1>1, <1>2, <1>3, SumUnion
<1>5. Sum(g, R \cup {x}) = Sum(g, R) + Sum(g, {x})
  BY <1>1, <1>2, <1>3, SumUnion
<1>6. Sum(f, R) = Sum(g, R)
  BY <1>2, SumSame DEF R
<1>7. Sum(f, {x}) = f[x] /\ Sum(g, {x}) = g[x]
  BY <1>3, SumOne
<1>8. Sum(f, R) \in Nat
  BY <1>1, <1>3, SumType
<1> QED BY <1>2, <1>3, <1>4, <1>5, <1>6, <1>7, <1>8

\* A sum of smaller terms is smaller.
LEMMA SumMono ==
  ASSUME NEW S, IsFiniteSet(S), NEW f, NEW g,
         \A x \in S : f[x] \in Nat /\ g[x] \in Nat /\ f[x] <= g[x]
  PROVE  Sum(f, S) <= Sum(g, S)
<1>1. /\ Coins(f, S) = { c \in S \X Nat : c[2] \in 1 .. f[c[1]] }
      /\ Coins(g, S) = { c \in S \X Nat : c[2] \in 1 .. g[c[1]] }
  BY CoinsAre
<1>2. Coins(f, S) \subseteq Coins(g, S)
  BY <1>1
<1>3. IsFiniteSet(Coins(g, S))
  BY SumType
<1> QED BY <1>2, <1>3, FS_Subset DEF Sum

\* A part of the terms adds up to no more than all of them.
LEMMA SumPart ==
  ASSUME NEW S, IsFiniteSet(S), NEW T, T \subseteq S, NEW f, \A x \in S : f[x] \in Nat
  PROVE  Sum(f, T) <= Sum(f, S)
<1>1. /\ Coins(f, S) = { c \in S \X Nat : c[2] \in 1 .. f[c[1]] }
      /\ Coins(f, T) = { c \in T \X Nat : c[2] \in 1 .. f[c[1]] }
  BY CoinsAre
<1>2. Coins(f, T) \subseteq Coins(f, S)
  BY <1>1
<1>3. IsFiniteSet(Coins(f, S))
  BY SumType
<1> QED BY <1>2, <1>3, FS_Subset DEF Sum

\* No term exceeds the sum.
LEMMA SumTerm ==
  ASSUME NEW S, IsFiniteSet(S), NEW x \in S, NEW f, \A y \in S : f[y] \in Nat
  PROVE  f[x] <= Sum(f, S)
<1>1. {x} \subseteq S /\ f[x] \in Nat
  OBVIOUS
<1>2. Sum(f, {x}) = f[x]
  BY <1>1, SumOne
<1> QED BY <1>1, <1>2, SumPart

\* The sum of the sums of two terms is the sum of the two sums: the coins of
\* f can be put on top of those of g.
LEMMA SumPlus ==
  ASSUME NEW S, IsFiniteSet(S), NEW f, NEW g, NEW h,
         \A x \in S : f[x] \in Nat /\ g[x] \in Nat /\ h[x] = f[x] + g[x]
  PROVE  Sum(h, S) = Sum(f, S) + Sum(g, S)
<1> DEFINE F == Coins(f, S)
           G == Coins(g, S)
           D == { c \in S \X Nat : c[2] - g[c[1]] \in 1 .. f[c[1]] }
           lift == [c \in F |-> <<c[1], c[2] + g[c[1]]>>]
<1>1. \A x \in S : h[x] \in Nat
  OBVIOUS
<1>2. /\ F = { c \in S \X Nat : c[2] \in 1 .. f[c[1]] }
      /\ G = { c \in S \X Nat : c[2] \in 1 .. g[c[1]] }
      /\ Coins(h, S) = { c \in S \X Nat : c[2] \in 1 .. h[c[1]] }
  BY <1>1, CoinsAre
<1> HIDE DEF F, G
<1>3. Coins(h, S) = G \cup D
  <2> SUFFICES ASSUME NEW x \in S, NEW i \in Nat
               PROVE  i \in 1 .. h[x] <=> i \in 1 .. g[x] \/ i - g[x] \in 1 .. f[x]
    BY <1>2
  <2> QED OBVIOUS
<1>4. G \cap D = {}
  <2> SUFFICES ASSUME NEW x \in S, NEW i \in 1 .. g[x]
               PROVE  ~(i - g[x] \in 1 .. f[x])
    BY <1>2
  <2> QED OBVIOUS
<1>5. lift \in Bijection(F, D)
  <2>1. ASSUME NEW c \in F PROVE lift[c] \in D
    <3>1. c[1] \in S /\ c[2] \in 1 .. f[c[1]] /\ g[c[1]] \in Nat /\ f[c[1]] \in Nat
      BY <1>2
    <3>2. c[2] + g[c[1]] \in Nat /\ (c[2] + g[c[1]]) - g[c[1]] = c[2]
      BY <3>1
    <3> QED BY <3>1, <3>2
  <2>2. ASSUME NEW c \in F, NEW d \in F, lift[c] = lift[d] PROVE c = d
    <3>1. /\ c[1] \in S /\ c[2] \in Nat /\ d[1] \in S /\ d[2] \in Nat
          /\ c = <<c[1], c[2]>> /\ d = <<d[1], d[2]>>
          /\ g[c[1]] \in Nat
      BY <1>2
    <3>2. c[1] = d[1] /\ c[2] + g[c[1]] = d[2] + g[d[1]]
      BY <2>2
    <3>3. c[2] = d[2]
      BY <3>1, <3>2
    <3> QED BY <3>1, <3>2, <3>3
  <2>3. ASSUME NEW e \in D PROVE \E c \in F : lift[c] = e
    <3>1. e[1] \in S /\ e[2] \in Nat /\ e = <<e[1], e[2]>> /\ e[2] - g[e[1]] \in 1 .. f[e[1]]
          /\ g[e[1]] \in Nat
      OBVIOUS
    <3>2. <<e[1], e[2] - g[e[1]]>> \in F
      BY <1>2, <3>1
    <3>3. (e[2] - g[e[1]]) + g[e[1]] = e[2]
      BY <3>1
    <3> QED BY <3>1, <3>2, <3>3
  <2>4. lift \in [F -> D]
    BY <2>1
  <2> HIDE DEF lift, D
  <2> QED BY <2>2, <2>3, <2>4 DEF Bijection, Injection, IsInjective, Surjection
<1>6. IsFiniteSet(F) /\ IsFiniteSet(G)
  BY SumType DEF F, G
<1> HIDE DEF lift, D
<1>7. IsFiniteSet(D) /\ Cardinality(D) = Cardinality(F)
  BY <1>5, <1>6, FS_Bijection DEF ExistsBijection
<1>8. Cardinality(F) \in Nat /\ Cardinality(G) \in Nat /\ Cardinality(G \cap D) = 0
  BY <1>4, <1>6, FS_CardinalityType, FS_EmptySet
<1>9. Cardinality(G \cup D) = Cardinality(G) + Cardinality(D) - Cardinality(G \cap D)
  BY <1>6, <1>7, FS_Union
<1> QED BY <1>3, <1>7, <1>8, <1>9 DEF Sum, F, G

-----------------------------------------------------------------------------
(***************************************************************************)
(* Multiples.  A coin of a purse of q * n coins is one of q in one of n    *)
(* rows.                                                                   *)
(***************************************************************************)
\* Multiplication by a number keeps the order, ...
LEMMA MulMono ==
  ASSUME NEW a \in Nat, NEW b \in Nat, NEW q \in Nat, a <= b
  PROVE  a * q <= b * q /\ q * a <= q * b
OBVIOUS

\* ... and stays within the naturals.
LEMMA MulNat ==
  ASSUME NEW a \in Nat, NEW b \in Nat
  PROVE  a * b \in Nat
OBVIOUS

\* Every place within h rows of q is in one of them.
LEMMA RowExists ==
  ASSUME NEW q \in Nat, NEW h \in Nat, NEW k \in 1 .. q * h
  PROVE  \E j \in 1 .. h, m \in 1 .. q : k = (j - 1) * q + m
<1>1. q > 0 /\ k - 1 \in Nat
  OBVIOUS
<1> DEFINE d == (k - 1) \div q
           r == (k - 1) % q
<1>2. d \in Nat /\ r \in 0 .. (q - 1) /\ k - 1 = q * d + r
  BY <1>1
<1> HIDE DEF d, r
<1>3. d < h
  <2> SUFFICES ASSUME h <= d PROVE FALSE
    BY <1>2
  <2>1. q * h <= q * d
    BY <1>2, MulMono
  <2>2. q * h \in Nat /\ q * d \in Nat
    BY <1>2, MulNat
  <2> QED BY <1>2, <2>1, <2>2
<1>4. q * d = d * q
  BY <1>2
<1>5. d + 1 \in 1 .. h /\ r + 1 \in 1 .. q
  BY <1>2, <1>3
<1>6. k = ((d + 1) - 1) * q + (r + 1)
  <2>1. (d + 1) - 1 = d
    BY <1>2
  <2>2. d * q \in Nat
    BY <1>2, MulNat
  <2> QED BY <1>2, <1>4, <2>1, <2>2
<1> QED BY <1>5, <1>6

\* A place in row j of h rows of q lies within them, ...
LEMMA RowBound ==
  ASSUME NEW q \in Nat, NEW h \in Nat, NEW j \in 1 .. h, NEW m \in 1 .. q
  PROVE  (j - 1) * q + m \in 1 .. q * h
<1>1. j - 1 \in Nat /\ j \in Nat
  OBVIOUS
<1>2. (j - 1) * q \in Nat /\ j * q \in Nat /\ q * h \in Nat
  BY <1>1, MulNat
<1>3. (j - 1) * q + q = j * q
  BY <1>1
<1>4. j * q <= h * q
  BY <1>1, MulMono
<1>5. h * q = q * h
  OBVIOUS
<1> QED BY <1>2, <1>3, <1>4, <1>5

\* ... and no two rows share a place.
LEMMA RowUnique ==
  ASSUME NEW q \in Nat, NEW j \in Nat \ {0}, NEW k \in Nat \ {0}, NEW m \in 1 .. q,
         NEW n \in 1 .. q, (j - 1) * q + m = (k - 1) * q + n
  PROVE  j = k /\ m = n
<1>1. ASSUME NEW a \in Nat \ {0}, NEW b \in Nat \ {0}, NEW c \in 1 .. q, NEW d \in 1 .. q, a < b
      PROVE  (a - 1) * q + c # (b - 1) * q + d
  <2>1. a - 1 \in Nat /\ b - 1 \in Nat /\ a \in Nat /\ a <= b - 1
    BY <1>1
  <2>2. a * q <= (b - 1) * q
    BY <2>1, MulMono
  <2>3. (a - 1) * q + q = a * q
    BY <2>1
  <2>4. (a - 1) * q \in Nat /\ (b - 1) * q \in Nat /\ a * q \in Nat
    BY <2>1, MulNat
  <2> QED BY <2>2, <2>3, <2>4
<1>2. j = k
  <2>1. ~(j < k)
    BY <1>1
  <2>2. ~(k < j)
    BY <1>1
  <2> QED BY <2>1, <2>2
<1>3. (j - 1) * q \in Nat
  <2>1. j - 1 \in Nat
    OBVIOUS
  <2> QED BY <2>1, MulNat
<1> QED BY <1>2, <1>3

\* Cardinality of the coins of a finite set times an interval.
LEMMA CoinsTimes ==
  ASSUME NEW S, IsFiniteSet(S), NEW q \in Nat, NEW f, \A x \in S : f[x] \in Nat
  PROVE  /\ IsFiniteSet(Coins(f, S) \X (1 .. q))
         /\ Cardinality(Coins(f, S) \X (1 .. q)) = Sum(f, S) * q
<1>1. IsFiniteSet(1 .. q) /\ Cardinality(1 .. q) = q
  <2>1. /\ IsFiniteSet(1 .. q)
        /\ Cardinality(1 .. q) = IF 1 > q THEN 0 ELSE q - 1 + 1
    BY FS_Interval
  <2> QED BY <2>1
<1>2. IsFiniteSet(Coins(f, S))
  BY SumType
<1>3. /\ IsFiniteSet(Coins(f, S) \X (1 .. q))
      /\ Cardinality(Coins(f, S) \X (1 .. q)) = Cardinality(Coins(f, S)) * Cardinality(1 .. q)
  BY <1>1, <1>2, FS_Product
<1> QED BY <1>1, <1>3 DEF Sum

\* If every term grows by at most q times another, the sum grows by at most
\* q times the sum of the others.
LEMMA SumLinear ==
  ASSUME NEW S, IsFiniteSet(S), NEW q \in Nat, NEW f, NEW g, NEW h,
         \A x \in S : f[x] \in Nat /\ g[x] \in Nat /\ h[x] \in Nat,
         \A x \in S : f[x] <= g[x] + q * h[x]
  PROVE  Sum(f, S) <= Sum(g, S) + Sum(h, S) * q
<1> DEFINE G == Coins(g, S)
           R == Coins(h, S) \X (1 .. q)
           D == { c \in S \X Nat : c[2] - g[c[1]] \in 1 .. q * h[c[1]] }
           place == [e \in R |-> <<e[1][1], g[e[1][1]] + ((e[1][2] - 1) * q + e[2])>>]
<1>1. /\ Coins(f, S) = { c \in S \X Nat : c[2] \in 1 .. f[c[1]] }
      /\ Coins(g, S) = { c \in S \X Nat : c[2] \in 1 .. g[c[1]] }
      /\ Coins(h, S) = { c \in S \X Nat : c[2] \in 1 .. h[c[1]] }
  BY CoinsAre
<1>2. Coins(f, S) \subseteq G \cup D
  <2> SUFFICES ASSUME NEW x \in S, NEW i \in Nat, i \in 1 .. f[x], ~(i \in 1 .. g[x])
               PROVE  i - g[x] \in 1 .. q * h[x]
    BY <1>1
  <2>1. q * h[x] \in Nat
    BY MulNat
  <2> QED BY <2>1
<1>3. place \in Surjection(R, D)
  <2>1. ASSUME NEW e \in R
        PROVE  place[e] \in D
    <3>1. e[1][1] \in S /\ e[1][2] \in 1 .. h[e[1][1]] /\ e[2] \in 1 .. q
      BY <1>1, <2>1
    <3> DEFINE p == (e[1][2] - 1) * q + e[2]
    <3>2. p \in 1 .. q * h[e[1][1]]
      BY <3>1, RowBound
    <3>3. place[e] = <<e[1][1], g[e[1][1]] + p>>
      BY <2>1
    <3> HIDE DEF p, place
    <3>4. g[e[1][1]] \in Nat /\ p \in Nat /\ (g[e[1][1]] + p) - g[e[1][1]] = p
      BY <3>1, <3>2
    <3> QED BY <3>1, <3>2, <3>3, <3>4
  <2>2. ASSUME NEW c \in D
        PROVE  \E e \in R : place[e] = c
    <3>1. c[1] \in S /\ c[2] \in Nat /\ c = <<c[1], c[2]>> /\ c[2] - g[c[1]] \in 1 .. q * h[c[1]]
      OBVIOUS
    <3>2. PICK j \in 1 .. h[c[1]], m \in 1 .. q : c[2] - g[c[1]] = (j - 1) * q + m
      BY <3>1, RowExists
    <3>3. <<c[1], j>> \in Coins(h, S)
      BY <1>1, <3>1
    <3>4. <<<<c[1], j>>, m>> \in R
      BY <3>3
    <3>5. place[<<<<c[1], j>>, m>>] = <<c[1], g[c[1]] + ((j - 1) * q + m)>>
      BY <3>4
    <3>6. g[c[1]] + (c[2] - g[c[1]]) = c[2]
      BY <3>1
    <3>7. place[<<<<c[1], j>>, m>>] = <<c[1], c[2]>>
      BY <3>2, <3>5, <3>6
    <3> QED BY <3>1, <3>4, <3>7
  <2>3. place \in [R -> D]
    BY <2>1
  <2> HIDE DEF place, R, D
  <2> QED BY <2>2, <2>3 DEF Surjection
<1>4. IsFiniteSet(R) /\ Cardinality(R) = Sum(h, S) * q
  BY CoinsTimes
<1>5. IsFiniteSet(D) /\ Cardinality(D) <= Cardinality(R)
  <2> HIDE DEF R, D, place
  <2> QED BY <1>3, <1>4, FS_Surjection
<1>6. IsFiniteSet(G) /\ Cardinality(G) = Sum(g, S)
  BY SumType DEF Sum
<1> HIDE DEF G, D, R, place
<1>7. /\ IsFiniteSet(G \cup D)
      /\ Cardinality(G \cup D) = Cardinality(G) + Cardinality(D) - Cardinality(G \cap D)
  BY <1>5, <1>6, FS_Union
<1>8. IsFiniteSet(G \cap D)
  BY <1>6, FS_Subset
<1>9. Cardinality(Coins(f, S)) <= Cardinality(G \cup D)
  BY <1>2, <1>7, FS_Subset
<1>10. /\ Cardinality(G) \in Nat /\ Cardinality(D) \in Nat /\ Cardinality(R) \in Nat
       /\ Cardinality(G \cap D) \in Nat
  BY <1>4, <1>5, <1>6, <1>8, FS_CardinalityType
<1>11. Cardinality(Coins(f, S)) \in Nat
  BY SumType DEF Sum
<1> QED BY <1>4, <1>5, <1>6, <1>7, <1>9, <1>10, <1>11 DEF Sum

\* A sum is at least q times another if every term is.
LEMMA SumMultiple ==
  ASSUME NEW S, IsFiniteSet(S), NEW q \in Nat, NEW f, NEW g,
         \A x \in S : f[x] \in Nat /\ g[x] \in Nat,
         \A x \in S : q * f[x] <= g[x]
  PROVE  Sum(f, S) * q <= Sum(g, S)
<1> DEFINE R == Coins(f, S) \X (1 .. q)
           G == Coins(g, S)
           place == [e \in R |-> <<e[1][1], (e[1][2] - 1) * q + e[2]>>]
<1>1. /\ Coins(f, S) = { c \in S \X Nat : c[2] \in 1 .. f[c[1]] }
      /\ Coins(g, S) = { c \in S \X Nat : c[2] \in 1 .. g[c[1]] }
  BY CoinsAre
<1>2. ASSUME NEW e \in R
      PROVE  place[e] \in G
  <2>1. e[1][1] \in S /\ e[1][2] \in 1 .. f[e[1][1]] /\ e[2] \in 1 .. q
    BY <1>1, <1>2
  <2> DEFINE p == (e[1][2] - 1) * q + e[2]
  <2>2. p \in 1 .. q * f[e[1][1]]
    BY <2>1, RowBound
  <2>3. place[e] = <<e[1][1], p>>
    BY <1>2
  <2> HIDE DEF p, place
  <2>4. q * f[e[1][1]] \in Nat /\ q * f[e[1][1]] <= g[e[1][1]] /\ g[e[1][1]] \in Nat
    BY <2>1, MulNat
  <2>5. p \in Nat /\ p \in 1 .. g[e[1][1]]
    BY <2>2, <2>4
  <2> QED BY <1>1, <2>1, <2>3, <2>5
<1>3. ASSUME NEW d \in R, NEW e \in R, place[d] = place[e]
      PROVE  d = e
  <2>1. /\ d[1][1] \in S /\ d[1][2] \in Nat \ {0} /\ d[2] \in 1 .. q
        /\ e[1][1] \in S /\ e[1][2] \in Nat \ {0} /\ e[2] \in 1 .. q
    BY <1>1, <1>3
  <2> DEFINE j == d[1][2]
             m == d[2]
             k == e[1][2]
             n == e[2]
             pd == (j - 1) * q + m
             pe == (k - 1) * q + n
  <2>2. place[d] = <<d[1][1], pd>> /\ place[e] = <<e[1][1], pe>>
    BY <1>3
  <2> HIDE DEF place, pd, pe
  <2>3. d[1][1] = e[1][1] /\ pd = pe
    <3>1. <<d[1][1], pd>> = <<e[1][1], pe>>
      BY <1>3, <2>2, Zenon
    <3> QED BY <3>1
  <2>4. d[1][2] = e[1][2] /\ d[2] = e[2]
    <3>1. j \in Nat \ {0} /\ k \in Nat \ {0} /\ m \in 1 .. q /\ n \in 1 .. q
      BY <2>1
    <3>2. (j - 1) * q + m = (k - 1) * q + n
      BY <2>3 DEF pd, pe
    <3> HIDE DEF j, k, m, n
    <3>3. j = k /\ m = n
      BY <3>1, <3>2, RowUnique
    <3> QED BY <3>3 DEF j, k, m, n
  <2>5. d = <<<<d[1][1], d[1][2]>>, d[2]>> /\ e = <<<<e[1][1], e[1][2]>>, e[2]>>
    BY <1>1
  <2> QED BY <2>3, <2>4, <2>5
<1>4. place \in Injection(R, G)
  <2>1. place \in [R -> G]
    BY <1>2
  <2> HIDE DEF place, R, G
  <2> QED BY <1>3, <2>1 DEF Injection, IsInjective
<1>5. IsFiniteSet(R) /\ Cardinality(R) = Sum(f, S) * q
  BY CoinsTimes
<1>6. IsFiniteSet(G)
  BY SumType
<1> HIDE DEF place, R, G
<1>7. Cardinality(R) <= Cardinality(G)
  BY <1>4, <1>6, FS_Injection
<1> QED BY <1>5, <1>7 DEF Sum, G

=============================================================================
