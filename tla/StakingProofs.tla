---------------------------- MODULE StakingProofs ----------------------------
(***************************************************************************)
(* ParachainStaking, for any accounts, amounts, powers and sizes of the    *)
(* lists: the books of the candidates agree with the delegators' records   *)
(* and are in order, the pool counts what backs a candidate, locks are     *)
(* what is bonded, requests fit the delegations they are about, and Total  *)
(* follows the locks.                                                      *)
(*                                                                         *)
(* The argument goes from the lists of bonds (what inserting, removing and *)
(* changing a bond does to the set that a sorted list lists) over the book *)
(* of one candidate to BookInv, the invariant that relates all books to    *)
(* all delegators and their requests; pool, locks and Total follow.        *)
(***************************************************************************)
EXTENDS ParachainStaking, SumsProofs

-----------------------------------------------------------------------------
(***************************************************************************)
(* Lists of bonds.                                                         *)
(***************************************************************************)
\* Ranks: in a finite total order, counting what comes up to an element
\* numbers the elements 1, 2, ... in that order.
Ordering(K, upto) ==
  /\ IsFiniteSet(K)
  /\ \A x \in K : upto[x] \subseteq K
  /\ \A x, y \in K : x \in upto[y] \/ y \in upto[x]
  /\ \A x, y \in K : x \in upto[y] /\ y \in upto[x] => x = y
  /\ \A x, y, z \in K : x \in upto[y] /\ y \in upto[z] => x \in upto[z]

\* The ranks of an ordering are the numbers from one to its size, each taken once.
LEMMA Ranks ==
  ASSUME NEW K, NEW upto, Ordering(K, upto)
  PROVE  /\ \A x \in K : Cardinality(upto[x]) \in 1 .. Cardinality(K)
         /\ \A x, y \in K : Cardinality(upto[x]) = Cardinality(upto[y]) => x = y
         /\ \A x, y \in K : Cardinality(upto[x]) < Cardinality(upto[y]) => x \in upto[y]
         /\ \A n \in 1 .. Cardinality(K) : \E x \in K : Cardinality(upto[x]) = n
<1> DEFINE rank == [x \in K |-> Cardinality(upto[x])]
<1> USE DEF Ordering
<1>0. \A x \in K : rank[x] = Cardinality(upto[x])
  OBVIOUS
<1> HIDE DEF rank
<1> DEFINE N == Cardinality(K)
           f == [x \in K |-> rank[x]]
<1>1. N \in Nat
  BY FS_CardinalityType
<1>2. \A x \in K : IsFiniteSet(upto[x]) /\ rank[x] \in Nat /\ rank[x] <= N /\ rank[x] > 0
  <2> TAKE x \in K
  <2>2. IsFiniteSet(upto[x]) /\ Cardinality(upto[x]) <= N
    BY FS_Subset
  <2>3. x \in upto[x]
    OBVIOUS
  <2>4. Cardinality(upto[x]) \in Nat
    BY <2>2, FS_CardinalityType
  <2>5. Cardinality(upto[x]) # 0
    BY <2>2, <2>3, FS_EmptySet
  <2> QED BY <1>0, <2>2, <2>4, <2>5
<1>3. ASSUME NEW x \in K, NEW y \in K, x \in upto[y], x # y
      PROVE  rank[x] < rank[y]
  <2>1. upto[x] \in SUBSET upto[y]
    BY <1>3
  <2>2. y \in upto[y] /\ y \notin upto[x]
    BY <1>3
  <2>3. Cardinality(upto[x]) <= Cardinality(upto[y]) /\ Cardinality(upto[x]) # Cardinality(upto[y])
    BY <1>2, <2>1, <2>2, FS_Subset
  <2>4. rank[x] = Cardinality(upto[x]) /\ rank[y] = Cardinality(upto[y])
    BY <1>0
  <2> QED BY <1>2, <2>3, <2>4
<1>4. ASSUME NEW x \in K, NEW y \in K, x # y
      PROVE  rank[x] # rank[y] /\ (rank[x] < rank[y] => x \in upto[y])
  <2>1. rank[x] \in Nat /\ rank[y] \in Nat
    BY <1>2
  <2>2. CASE x \in upto[y]
    <3>1. rank[x] < rank[y]
      BY <1>3, <1>4, <2>2
    <3> QED BY <2>1, <2>2, <3>1
  <2>3. CASE y \in upto[x]
    <3>1. rank[y] < rank[x]
      BY <1>3, <1>4, <2>3
    <3> QED BY <2>1, <3>1
  <2> QED BY <2>2, <2>3
<1>5. \A x \in K : x \in upto[x]
  OBVIOUS
<1>6. f \in Injection(K, 1 .. N)
  BY <1>1, <1>2, <1>4 DEF Injection, IsInjective
<1>7. IsFiniteSet(1 .. N) /\ Cardinality(1 .. N) = N
  <2>1. /\ IsFiniteSet(1 .. N)
        /\ Cardinality(1 .. N) = IF 1 > N THEN 0 ELSE N - 1 + 1
    BY <1>1, FS_Interval
  <2> QED BY <1>1, <2>1
<1>8. f \in Surjection(K, 1 .. N)
  BY <1>6, <1>7, FS_Injection
<1>9. \A n \in 1 .. N : \E x \in K : rank[x] = n
  BY <1>8 DEF Surjection
<1>10. \A x \in K : rank[x] \in 1 .. Cardinality(K)
  BY <1>1, <1>2
<1>11. \A x, y \in K : rank[x] = rank[y] => x = y
  BY <1>4
<1>12. \A x, y \in K : rank[x] < rank[y] => x \in upto[y]
  BY <1>4, <1>5
<1> QED BY <1>0, <1>9, <1>10, <1>11, <1>12

\* ds lists the bonds S in order, one for each owner.
Listing(ds, S) ==
  /\ ds \in Seq(BondT)
  /\ S = {ds[i] : i \in 1 .. Len(ds)}
  /\ \A i, j \in 1 .. Len(ds) : ds[i].owner = ds[j].owner => i = j
  /\ \A i, j \in 1 .. Len(ds) : i < j => ~Below(ds[i].stake, ds[j].stake)

\* The order of stakes is total.
LEMMA BelowTotal ==
  ASSUME NEW s \in StakeT, NEW t \in StakeT
  PROVE  /\ Below(s, t) \/ Below(t, s) \/ s = t
         /\ ~(Below(s, t) /\ Below(t, s)) /\ ~Below(s, s)
BY DEF StakeT, Below

\* Below goes on through a stake that is not above the other.
LEMMA BelowTrans ==
  ASSUME NEW s \in StakeT, NEW t \in StakeT, NEW u \in StakeT
  PROVE  /\ Below(s, t) /\ ~Below(u, t) => Below(s, u)
         /\ ~Below(t, s) /\ Below(t, u) => Below(s, u)
BY DEF StakeT, Below

\* Sorting keeps the bonds and puts them in order.
LEMMA SortList ==
  ASSUME NEW ds \in Seq(BondT),
         \A i, j \in 1 .. Len(ds) : ds[i].owner = ds[j].owner => i = j
  PROVE  Listing(sort_greatest_to_least(ds), {ds[i] : i \in 1 .. Len(ds)})
<1> DEFINE K == DOMAIN ds
           st(i) == ds[i].stake
           Rank(i) == Cardinality({j \in K : \/ Below(ds[i].stake, ds[j].stake)
                                             \/ ds[i].stake = ds[j].stake /\ j <= i})
           upto == [i \in K |-> {j \in K : \/ Below(ds[i].stake, ds[j].stake)
                                           \/ ds[i].stake = ds[j].stake /\ j <= i}]
           rank == [i \in K |-> Rank(i)]
           pick == [n \in K |-> CHOOSE i \in K : Rank(i) = n]
           sd == sort_greatest_to_least(ds)
<1>1. K = 1 .. Len(ds) /\ Len(ds) \in Nat /\ IsFiniteSet(K) /\ Cardinality(K) = Len(ds)
  <2>1. K = 1 .. Len(ds) /\ Len(ds) \in Nat
    OBVIOUS
  <2>2. /\ IsFiniteSet(1 .. Len(ds))
        /\ Cardinality(1 .. Len(ds)) = IF 1 > Len(ds) THEN 0 ELSE Len(ds) - 1 + 1
    BY <2>1, FS_Interval
  <2> QED BY <2>1, <2>2
<1>2. \A i \in K : st(i) \in StakeT /\ ds[i] \in BondT /\ i \in Nat
  <2>1. \A i \in 1 .. Len(ds) : ds[i] \in BondT
    OBVIOUS
  <2>2. \A b \in BondT : b.stake \in StakeT
    BY DEF BondT
  <2> HIDE DEF K
  <2> QED BY <1>1, <2>1, <2>2
<1> HIDE DEF K
<1>3. /\ \A x \in K : upto[x] \subseteq K
      /\ \A x, y \in K : x \in upto[y] <=> Below(st(y), st(x)) \/ (st(y) = st(x) /\ x <= y)
      /\ \A x \in K : rank[x] = Cardinality(upto[x])
  OBVIOUS
<1> HIDE DEF upto, rank
<1>4. \A x, y \in K : x \in upto[y] \/ y \in upto[x]
  BY <1>2, <1>3, BelowTotal
<1>5. \A x, y \in K : x \in upto[y] /\ y \in upto[x] => x = y
  BY <1>2, <1>3, BelowTotal
<1>6. \A x, y, z \in K : x \in upto[y] /\ y \in upto[z] => x \in upto[z]
  <2> SUFFICES ASSUME NEW x \in K, NEW y \in K, NEW z \in K, x \in upto[y], y \in upto[z]
               PROVE  x \in upto[z]
    OBVIOUS
  <2>1. /\ Below(st(y), st(x)) \/ (st(y) = st(x) /\ x <= y)
        /\ Below(st(z), st(y)) \/ (st(z) = st(y) /\ y <= z)
    BY <1>3
  <2>2. st(x) \in StakeT /\ st(y) \in StakeT /\ st(z) \in StakeT /\ x \in Nat /\ y \in Nat /\ z \in Nat
    BY <1>2
  <2> HIDE DEF st
  <2>3. Below(st(z), st(x)) \/ (st(z) = st(x) /\ x <= z)
    BY <2>1, <2>2, BelowTotal, BelowTrans
  <2> QED BY <1>3, <2>3 DEF st
<1>8. /\ \A x \in K : rank[x] \in 1 .. Cardinality(K)
      /\ \A x, y \in K : rank[x] = rank[y] => x = y
      /\ \A x, y \in K : rank[x] < rank[y] => x \in upto[y]
      /\ \A n \in 1 .. Cardinality(K) : \E x \in K : rank[x] = n
  <2>1. /\ \A x \in K : upto[x] \subseteq K
        /\ \A x \in K : rank[x] = Cardinality(upto[x])
    BY <1>3
  <2>2. Ordering(K, upto)
    BY <1>1, <2>1, <1>4, <1>5, <1>6 DEF Ordering
  <2> HIDE DEF st
  <2> QED BY <2>1, <2>2, Ranks
<1>9. \A n \in K : pick[n] \in K /\ rank[pick[n]] = n
  <2> TAKE n \in K
  <2>0. PICK i \in K : rank[i] = n
    BY <1>1, <1>8
  <2>1. Rank(i) = n
    BY <2>0 DEF rank
  <2> HIDE DEF Rank
  <2>2. pick[n] \in K /\ Rank(pick[n]) = n
    BY <2>1
  <2> QED BY <2>2 DEF rank
<1> HIDE DEF pick
<1>10. \A i \in K : rank[i] \in K /\ pick[rank[i]] = i
  <2>1. \A i \in K : rank[i] \in K
    BY <1>1, <1>8
  <2>2. \A i \in K : rank[pick[rank[i]]] = rank[i] /\ pick[rank[i]] \in K
    BY <1>9, <2>1
  <2> QED BY <1>8, <2>1, <2>2
<1>11. sd = [n \in K |-> ds[pick[n]]]
  BY DEF sort_greatest_to_least, K, pick
<1> HIDE DEF sd
<1>12. sd \in Seq(BondT) /\ Len(sd) = Len(ds)
  BY <1>1, <1>2, <1>9, <1>11
<1>13. {ds[i] : i \in 1 .. Len(ds)} = {sd[i] : i \in 1 .. Len(sd)}
  <2>1. \A n \in K : sd[n] = ds[pick[n]] /\ pick[n] \in K
    BY <1>9, <1>11
  <2>2. \A i \in K : ds[i] = sd[rank[i]] /\ rank[i] \in K
    BY <1>10, <2>1
  <2>3. {ds[i] : i \in K} = {sd[i] : i \in K}
    BY <2>1, <2>2
  <2> QED BY <1>1, <1>12, <2>3
<1>14. \A i, j \in 1 .. Len(sd) : sd[i].owner = sd[j].owner => i = j
  BY <1>1, <1>9, <1>11, <1>12
<1>15. \A i, j \in 1 .. Len(sd) : i < j => ~Below(sd[i].stake, sd[j].stake)
  <2> SUFFICES ASSUME NEW i \in K, NEW j \in K, i < j
               PROVE  ~Below(sd[i].stake, sd[j].stake)
    BY <1>1, <1>12
  <2>1. pick[i] \in upto[pick[j]] /\ pick[i] \in K /\ pick[j] \in K
    BY <1>8, <1>9
  <2>2. ~Below(st(pick[i]), st(pick[j]))
    BY <1>2, <1>3, <2>1, BelowTotal
  <2> QED BY <1>11, <2>2
<1> QED BY <1>12, <1>13, <1>14, <1>15 DEF Listing, sd

\* No two bonds of S have the same owner.
OneEach(S) == \A b, e \in S : b.owner = e.owner => b = e

Owners(S) == {b.owner : b \in S}

\* What a listing says of the set it lists.
LEMMA ListFacts ==
  ASSUME NEW ds, NEW S, Listing(ds, S)
  PROVE  /\ S \subseteq BondT /\ IsFiniteSet(S) /\ OneEach(S)
         /\ Len(ds) \in Nat /\ Cardinality(S) = Len(ds)
         /\ S = {} <=> ds = <<>>
<1> DEFINE f == [i \in 1 .. Len(ds) |-> ds[i]]
<1>1. /\ ds \in Seq(BondT) /\ Len(ds) \in Nat /\ DOMAIN ds = 1 .. Len(ds)
      /\ S = {ds[i] : i \in 1 .. Len(ds)}
      /\ \A i \in 1 .. Len(ds) : ds[i] \in BondT
  BY DEF Listing
<1>2. \A i, j \in 1 .. Len(ds) : ds[i].owner = ds[j].owner => i = j
  BY DEF Listing
<1>3. S \subseteq BondT
  BY <1>1
<1>4. OneEach(S)
  BY <1>1, <1>2 DEF OneEach
<1>5. f \in Bijection(1 .. Len(ds), S)
  <2>1. f \in Injection(1 .. Len(ds), S)
    BY <1>1, <1>2 DEF Injection, IsInjective
  <2>2. f \in Surjection(1 .. Len(ds), S)
    BY <1>1 DEF Surjection
  <2> QED BY <2>1, <2>2 DEF Bijection
<1>6. IsFiniteSet(1 .. Len(ds)) /\ Cardinality(1 .. Len(ds)) = Len(ds)
  <2>1. /\ IsFiniteSet(1 .. Len(ds))
        /\ Cardinality(1 .. Len(ds)) = IF 1 > Len(ds) THEN 0 ELSE Len(ds) - 1 + 1
    BY <1>1, FS_Interval
  <2> QED BY <1>1, <2>1
<1>7. ExistsBijection(1 .. Len(ds), S)
  BY <1>5 DEF ExistsBijection
<1>8. IsFiniteSet(S) /\ Cardinality(S) = Len(ds)
  BY <1>6, <1>7, FS_Bijection
<1>9. S = {} <=> ds = <<>>
  <2>1. S = {} <=> Len(ds) = 0
    BY <1>8, FS_EmptySet
  <2>2. Len(ds) = 0 <=> ds = <<>>
    BY <1>1
  <2> QED BY <2>1, <2>2
<1> QED BY <1>1, <1>3, <1>4, <1>8, <1>9

\* The first bond is the greatest, the last one the least.
LEMMA ListEnds ==
  ASSUME NEW ds, NEW S, Listing(ds, S), S # {}
  PROVE  /\ Last(ds) \in S /\ \A b \in S : ~Below(b.stake, Last(ds).stake)
         /\ Head(ds) \in S /\ \A b \in S : ~Below(Head(ds).stake, b.stake)
         /\ Last(ds) = ds[Len(ds)] /\ Head(ds) = ds[1] /\ Len(ds) > 0
<1>1. Len(ds) \in Nat /\ Len(ds) > 0 /\ ds \in Seq(BondT) /\ ds # <<>>
  BY ListFacts DEF Listing
<1>2. Last(ds) = ds[Len(ds)] /\ Head(ds) = ds[1]
  BY <1>1 DEF Last
<1>3. /\ S = {ds[i] : i \in 1 .. Len(ds)}
      /\ \A i, j \in 1 .. Len(ds) : i < j => ~Below(ds[i].stake, ds[j].stake)
      /\ \A i \in 1 .. Len(ds) : ds[i] \in BondT
  BY DEF Listing
<1>4. \A i \in 1 .. Len(ds) : ~Below(ds[i].stake, ds[i].stake)
  <2>1. \A i \in 1 .. Len(ds) : ds[i].stake \in StakeT
    BY <1>3 DEF BondT
  <2> QED BY <2>1, BelowTotal
<1>5. \A i \in 1 .. Len(ds) : ~Below(ds[i].stake, ds[Len(ds)].stake) /\ ~Below(ds[1].stake, ds[i].stake)
  BY <1>1, <1>3, <1>4
<1>6. \A b \in S : ~Below(b.stake, ds[Len(ds)].stake) /\ ~Below(ds[1].stake, b.stake)
  BY <1>3, <1>5
<1>7. ds[Len(ds)] \in S /\ ds[1] \in S
  BY <1>1, <1>3
<1> QED BY <1>1, <1>2, <1>6, <1>7

\* A new bond put in order.
LEMMA ListInsert ==
  ASSUME NEW ds, NEW S, Listing(ds, S), NEW b \in BondT, b.owner \notin Owners(S)
  PROVE  Listing(sort_greatest_to_least(Append(ds, b)), S \cup {b})
<1> DEFINE es == Append(ds, b)
<1>1. /\ ds \in Seq(BondT) /\ Len(ds) \in Nat
      /\ S = {ds[i] : i \in 1 .. Len(ds)}
      /\ \A i, j \in 1 .. Len(ds) : ds[i].owner = ds[j].owner => i = j
  BY DEF Listing
<1>2. es \in Seq(BondT) /\ Len(es) = Len(ds) + 1 /\ es[Len(ds) + 1] = b
      /\ \A i \in 1 .. Len(ds) : es[i] = ds[i]
  BY <1>1
<1>3. \A i \in 1 .. Len(ds) : ds[i].owner # b.owner
  BY <1>1 DEF Owners
<1> HIDE DEF es
<1>4. 1 .. Len(es) = 1 .. Len(ds) \cup {Len(ds) + 1}
  BY <1>1, <1>2
<1>5. \A i, j \in 1 .. Len(es) : es[i].owner = es[j].owner => i = j
  BY <1>1, <1>2, <1>3, <1>4
<1>6. {es[i] : i \in 1 .. Len(es)} = S \cup {b}
  BY <1>1, <1>2, <1>4
<1> QED BY <1>2, <1>5, <1>6, SortList DEF es

\* The list without its last bond, or without its first.
LEMMA ListFront ==
  ASSUME NEW ds, NEW S, Listing(ds, S), S # {}
  PROVE  Listing(Front(ds), S \ {Last(ds)})
<1> DEFINE es == Front(ds)
<1>1. /\ ds \in Seq(BondT) /\ Len(ds) \in Nat /\ Len(ds) > 0
      /\ S = {ds[i] : i \in 1 .. Len(ds)}
      /\ Last(ds) = ds[Len(ds)]
  <2>1. Len(ds) > 0 /\ Last(ds) = ds[Len(ds)]
    BY ListEnds
  <2>2. ds \in Seq(BondT) /\ Len(ds) \in Nat /\ S = {ds[i] : i \in 1 .. Len(ds)}
    BY DEF Listing
  <2> QED BY <2>1, <2>2
<1>2. /\ \A i, j \in 1 .. Len(ds) : ds[i].owner = ds[j].owner => i = j
      /\ \A i, j \in 1 .. Len(ds) : i < j => ~Below(ds[i].stake, ds[j].stake)
  BY DEF Listing
<1>3. es \in Seq(BondT) /\ Len(es) = Len(ds) - 1 /\ \A i \in 1 .. Len(ds) - 1 : es[i] = ds[i]
  <2>1. Len(ds) - 1 \in Nat /\ 1 \in 1 .. Len(ds) + 1 /\ Len(ds) - 1 \in 0 .. Len(ds)
    BY <1>1
  <2>2. es = SubSeq(ds, 1, Len(ds) - 1)
    BY DEF Front
  <2> HIDE DEF es
  <2>3. es = [i \in 1 .. Len(ds) - 1 |-> ds[i]]
    BY <1>1, <2>1, <2>2
  <2>4. \A i \in 1 .. Len(ds) - 1 : ds[i] \in BondT
    BY <1>1
  <2>5. es \in Seq(BondT) /\ Len(es) = Len(ds) - 1
    BY <2>1, <2>3, <2>4
  <2> QED BY <2>3, <2>5
<1> HIDE DEF es
<1>4. 1 .. Len(ds) = 1 .. Len(es) \cup {Len(ds)} /\ Len(ds) \notin 1 .. Len(es)
  BY <1>1, <1>3
<1>5. \A i \in 1 .. Len(es) : ds[i] # ds[Len(ds)] /\ es[i] = ds[i]
  BY <1>2, <1>3, <1>4
<1>6. {es[i] : i \in 1 .. Len(es)} = S \ {Last(ds)}
  BY <1>1, <1>4, <1>5
<1>7. /\ \A i, j \in 1 .. Len(es) : es[i].owner = es[j].owner => i = j
      /\ \A i, j \in 1 .. Len(es) : i < j => ~Below(es[i].stake, es[j].stake)
  BY <1>2, <1>4, <1>5
<1> QED BY <1>3, <1>6, <1>7 DEF Listing, es

\* A listing without its first bond.
LEMMA ListTail ==
  ASSUME NEW ds, NEW S, Listing(ds, S), S # {}
  PROVE  Listing(Tail(ds), S \ {Head(ds)})
<1> DEFINE es == Tail(ds)
<1>1. /\ ds \in Seq(BondT) /\ Len(ds) \in Nat /\ Len(ds) > 0
      /\ S = {ds[i] : i \in 1 .. Len(ds)}
      /\ Head(ds) = ds[1]
  BY ListEnds DEF Listing
<1>2. /\ \A i, j \in 1 .. Len(ds) : ds[i].owner = ds[j].owner => i = j
      /\ \A i, j \in 1 .. Len(ds) : i < j => ~Below(ds[i].stake, ds[j].stake)
  BY DEF Listing
<1>3. es \in Seq(BondT) /\ Len(es) = Len(ds) - 1 /\ \A i \in 1 .. Len(ds) - 1 : es[i] = ds[i + 1]
  BY <1>1
<1> HIDE DEF es
<1>4. \A i \in 1 .. Len(es) : i + 1 \in 1 .. Len(ds) /\ i + 1 # 1 /\ es[i] = ds[i + 1]
  BY <1>1, <1>3
<1>5. \A i \in 1 .. Len(ds) : i = 1 \/ (i - 1 \in 1 .. Len(es) /\ ds[i] = es[i - 1])
  BY <1>1, <1>3
<1>6. \A i \in 1 .. Len(es) : es[i] # ds[1]
  BY <1>1, <1>2, <1>4
<1>7. {es[i] : i \in 1 .. Len(es)} = S \ {Head(ds)}
  BY <1>1, <1>4, <1>5, <1>6
<1>8. ASSUME NEW i \in 1 .. Len(es), NEW j \in 1 .. Len(es)
      PROVE  /\ es[i].owner = es[j].owner => i = j
             /\ i < j => ~Below(es[i].stake, es[j].stake)
  <2>1. /\ i + 1 \in 1 .. Len(ds) /\ es[i] = ds[i + 1]
        /\ j + 1 \in 1 .. Len(ds) /\ es[j] = ds[j + 1]
        /\ (i + 1 = j + 1 => i = j) /\ (i < j => i + 1 < j + 1)
    BY <1>4
  <2> QED BY <1>2, <2>1
<1> QED BY <1>3, <1>7, <1>8 DEF Listing, es

\* A sum does not depend on what its terms are numbered by.
LEMMA SumBijection ==
  ASSUME NEW T, NEW S, IsFiniteSet(S), NEW f, \A x \in S : f[x] \in Nat,
         NEW g \in Bijection(T, S), NEW h, \A y \in T : h[y] = f[g[y]]
  PROVE  Sum(h, T) = Sum(f, S)
<1> DEFINE H == Coins(h, T)
           F == Coins(f, S)
           lift == [c \in H |-> <<g[c[1]], c[2]>>]
<1>1. /\ \A y \in T : g[y] \in S
      /\ \A y, z \in T : g[y] = g[z] => y = z
      /\ \A x \in S : \E y \in T : g[y] = x
  BY DEF Bijection, Injection, IsInjective, Surjection
<1>2. \A y \in T : h[y] \in Nat
  BY <1>1
<1>3. /\ H = { c \in T \X Nat : c[2] \in 1 .. h[c[1]] }
      /\ F = { c \in S \X Nat : c[2] \in 1 .. f[c[1]] }
  BY <1>2, CoinsAre
<1> HIDE DEF H, F
<1>4. lift \in [H -> F]
  BY <1>1, <1>3
<1>5. lift \in Injection(H, F)
  <2>1. ASSUME NEW c \in H, NEW e \in H, lift[c] = lift[e] PROVE c = e
    <3>1. c \in T \X Nat /\ e \in T \X Nat
      BY <1>3
    <3>2. g[c[1]] = g[e[1]] /\ c[2] = e[2]
      BY <2>1
    <3> QED BY <1>1, <3>1, <3>2
  <2> QED BY <1>4, <2>1 DEF Injection, IsInjective
<1>6. lift \in Surjection(H, F)
  <2>1. ASSUME NEW e \in F PROVE \E c \in H : lift[c] = e
    <3>1. e \in S \X Nat /\ e[2] \in 1 .. f[e[1]] /\ e[1] \in S /\ e[2] \in Nat /\ e = <<e[1], e[2]>>
      BY <1>3
    <3>2. PICK y \in T : g[y] = e[1]
      BY <1>1, <3>1
    <3>3. <<y, e[2]>> \in H
      BY <1>3, <3>1, <3>2
    <3>4. lift[<<y, e[2]>>] = <<g[y], e[2]>>
      BY <3>3
    <3> QED BY <3>1, <3>2, <3>3, <3>4
  <2> QED BY <1>4, <2>1 DEF Surjection
<1>7. lift \in Bijection(H, F)
  BY <1>5, <1>6 DEF Bijection
<1>8. IsFiniteSet(F)
  BY SumType DEF F
<1>9. IsFiniteSet(H)
  BY <1>5, <1>8, FS_Injection
<1>10. ExistsBijection(H, F)
  BY <1>7 DEF ExistsBijection
<1>11. Cardinality(F) = Cardinality(H)
  BY <1>9, <1>10, FS_Bijection
<1> QED BY <1>11 DEF Sum, H, F

\* A filtered list.
LEMMA ListWithout ==
  ASSUME NEW D, NEW S, Listing(D.delegations, S), NEW d
  PROVE  Listing(Without(D, d), {b \in S : b.owner # d})
<1> DEFINE ds == D.delegations
           K == {i \in DOMAIN ds : ds[i].owner # d}
           Place(i) == Cardinality({j \in K : j <= i})
           upto == [i \in K |-> {j \in K : j <= i}]
           pick == [n \in 1 .. Cardinality(K) |-> CHOOSE i \in K : Place(i) = n]
           es == Without(D, d)
<1>1. /\ ds \in Seq(BondT) /\ Len(ds) \in Nat /\ DOMAIN ds = 1 .. Len(ds)
      /\ S = {ds[i] : i \in 1 .. Len(ds)}
      /\ \A i \in 1 .. Len(ds) : ds[i] \in BondT
  BY DEF Listing
<1>2. /\ \A i, j \in 1 .. Len(ds) : ds[i].owner = ds[j].owner => i = j
      /\ \A i, j \in 1 .. Len(ds) : i < j => ~Below(ds[i].stake, ds[j].stake)
  BY DEF Listing
<1>3. K = {i \in 1 .. Len(ds) : ds[i].owner # d} /\ K \subseteq 1 .. Len(ds)
  BY <1>1
<1>4. es = [n \in 1 .. Cardinality(K) |-> ds[pick[n]]]
  <2>1. es = [n \in 1 .. Cardinality(K) |-> ds[CHOOSE i \in K : Place(i) = n]]
    BY DEF Without
  <2> HIDE DEF es, K, ds, Place
  <2> QED BY <2>1
<1> HIDE DEF ds, es
<1>5. IsFiniteSet(K)
  <2>1. IsFiniteSet(1 .. Len(ds))
    BY <1>1, FS_Interval
  <2> QED BY <1>3, <2>1, FS_Subset
<1>6. Cardinality(K) \in Nat
  BY <1>5, FS_CardinalityType
<1> HIDE DEF K
<1>7. \A i \in K : Place(i) = Cardinality(upto[i])
  OBVIOUS
<1>8. \A i, j \in K : j \in upto[i] <=> j <= i
  OBVIOUS
<1>9. \A i \in K : upto[i] \subseteq K
  OBVIOUS
<1> HIDE DEF upto, Place
<1>10. \A i \in K : i \in Nat
  BY <1>1, <1>3
<1>11. Ordering(K, upto)
  BY <1>5, <1>8, <1>9, <1>10 DEF Ordering
<1>12. /\ \A i \in K : Place(i) \in 1 .. Cardinality(K)
       /\ \A i, j \in K : Place(i) = Place(j) => i = j
       /\ \A i, j \in K : Place(i) < Place(j) => i <= j
       /\ \A n \in 1 .. Cardinality(K) : \E i \in K : Place(i) = n
  BY <1>7, <1>8, <1>11, Ranks
<1>13. \A n \in 1 .. Cardinality(K) : pick[n] \in K /\ Place(pick[n]) = n
  BY <1>12
<1> HIDE DEF pick
<1>14. \A i \in K : pick[Place(i)] = i
  BY <1>12, <1>13
<1>15. \A n \in 1 .. Cardinality(K) : es[n] = ds[pick[n]] /\ pick[n] \in K /\ pick[n] \in 1 .. Len(ds)
  BY <1>3, <1>4, <1>13
<1>16. es \in Seq(BondT) /\ Len(es) = Cardinality(K)
  <2>1. \A n \in 1 .. Cardinality(K) : ds[pick[n]] \in BondT
    BY <1>1, <1>15
  <2> QED BY <1>4, <1>6, <2>1
<1>17. {es[n] : n \in 1 .. Cardinality(K)} = {b \in S : b.owner # d}
  <2>1. \A n \in 1 .. Cardinality(K) : es[n] \in S /\ es[n].owner # d
    BY <1>1, <1>3, <1>15
  <2>2. ASSUME NEW b \in S, b.owner # d PROVE \E n \in 1 .. Cardinality(K) : es[n] = b
    <3>1. PICK i \in 1 .. Len(ds) : b = ds[i]
      BY <1>1
    <3>2. i \in K
      BY <1>3, <2>2, <3>1
    <3> QED BY <1>12, <1>14, <1>15, <3>1, <3>2
  <2> QED BY <2>1, <2>2
<1>18. ASSUME NEW m \in 1 .. Cardinality(K), NEW n \in 1 .. Cardinality(K)
       PROVE  /\ es[m].owner = es[n].owner => m = n
              /\ m < n => ~Below(es[m].stake, es[n].stake)
  <2>1. es[m].owner = es[n].owner => m = n
    BY <1>2, <1>13, <1>15
  <2>2. ASSUME m < n PROVE ~Below(es[m].stake, es[n].stake)
    <3>1. Place(pick[m]) < Place(pick[n]) /\ pick[m] \in K /\ pick[n] \in K
      BY <1>13, <2>2
    <3>2. pick[m] <= pick[n] /\ pick[m] # pick[n]
      BY <1>12, <1>13, <2>2, <3>1
    <3>3. pick[m] < pick[n]
      BY <1>10, <3>1, <3>2
    <3> QED BY <1>2, <1>15, <3>3
  <2> QED BY <2>1, <2>2
<1> QED BY <1>16, <1>17, <1>18 DEF Listing, es

\* Who is in the list.
LEMMA ListOwns ==
  ASSUME NEW D, NEW S, Listing(D.delegations, S), NEW d
  PROVE  Owns(D, d) <=> d \in Owners(S)
<1>1. S = {D.delegations[i] : i \in 1 .. Len(D.delegations)} /\ DOMAIN D.delegations = 1 .. Len(D.delegations)
  BY DEF Listing
<1> QED BY <1>1 DEF Owns, Owners

\* A list in which one bond has changed, put in order.
LEMMA ListRebond ==
  ASSUME NEW D, NEW S, Listing(D.delegations, S), NEW d \in Owners(S), NEW stake \in StakeT
  PROVE  Listing(sort_greatest_to_least(Rebond(D, d, stake)),
                 {b \in S : b.owner # d} \cup {Bond(d, stake)})
<1> DEFINE ds == D.delegations
           es == Rebond(D, d, stake)
<1>1. /\ ds \in Seq(BondT) /\ Len(ds) \in Nat /\ DOMAIN ds = 1 .. Len(ds)
      /\ S = {ds[i] : i \in 1 .. Len(ds)}
      /\ \A i \in 1 .. Len(ds) : ds[i] \in BondT
  BY DEF Listing
<1>2. \A i, j \in 1 .. Len(ds) : ds[i].owner = ds[j].owner => i = j
  BY DEF Listing
<1>3. PICK k \in 1 .. Len(ds) : ds[k].owner = d
  BY <1>1 DEF Owners
<1>4. Bond(d, stake) \in BondT /\ Bond(d, stake).owner = d
  <2>1. ds[k].owner \in Accounts
    BY <1>1 DEF BondT
  <2> QED BY <1>3, <2>1 DEF BondT, Bond
<1>5. es = [i \in 1 .. Len(ds) |-> IF ds[i].owner = d THEN Bond(d, stake) ELSE ds[i]]
  BY <1>1 DEF Rebond
<1> HIDE DEF ds, es
<1>6. es \in Seq(BondT) /\ Len(es) = Len(ds)
  BY <1>1, <1>4, <1>5
<1>7. \A i \in 1 .. Len(ds) : /\ es[i].owner = ds[i].owner
                              /\ i # k => es[i] = ds[i] /\ ds[i].owner # d
                              /\ es[k] = Bond(d, stake)
  BY <1>2, <1>3, <1>4, <1>5
<1>8. \A i, j \in 1 .. Len(es) : es[i].owner = es[j].owner => i = j
  BY <1>2, <1>6, <1>7
<1>9. {es[i] : i \in 1 .. Len(es)} = {b \in S : b.owner # d} \cup {Bond(d, stake)}
  BY <1>1, <1>3, <1>6, <1>7
<1> QED BY <1>6, <1>8, <1>9, SortList DEF es

\* The empty listing.
LEMMA ListEmpty == Listing(<<>>, {})
BY DEF Listing

-----------------------------------------------------------------------------
(***************************************************************************)
(* Sums of stakes.                                                         *)
(***************************************************************************)
LEMMA StakeParts ==
  /\ \A s \in StakeT : s.amount \in Nat /\ s.power \in Nat
  /\ \A m, n \in Nat : Stake(m, n) \in StakeT /\ Stake(m, n).amount = m /\ Stake(m, n).power = n
  /\ \A s, t \in StakeT : s.amount = t.amount /\ s.power = t.power => s = t
BY DEF StakeT, Stake

\* The parts of a sum of two stakes.
LEMMA PlusParts ==
  ASSUME NEW s \in StakeT, NEW t \in StakeT
  PROVE  /\ Plus(s, t) \in StakeT
         /\ Plus(s, t).amount = s.amount + t.amount /\ Plus(s, t).power = s.power + t.power
BY StakeParts DEF Plus

\* The parts of a difference of two stakes, which saturates.
LEMMA MinusParts ==
  ASSUME NEW s \in StakeT, NEW t \in StakeT
  PROVE  /\ Minus(s, t) \in StakeT
         /\ Minus(s, t).amount = SaturatingSub(s.amount, t.amount)
         /\ Minus(s, t).power = SaturatingSub(s.power, t.power)
<1>1. \A m, n \in Nat : SaturatingSub(m, n) \in Nat
  BY DEF SaturatingSub
<1> QED BY <1>1, StakeParts DEF Minus

\* t is at most s, in amount and in power.
Within(t, s) == t.amount <= s.amount /\ t.power <= s.power

\* A difference that does not saturate.
LEMMA MinusWithin ==
  ASSUME NEW s \in StakeT, NEW t \in StakeT, Within(t, s)
  PROVE  /\ Minus(s, t).amount = s.amount - t.amount
         /\ Minus(s, t).power = s.power - t.power
         /\ Plus(Minus(s, t), t) = s
<1>1. s.amount \in Nat /\ s.power \in Nat /\ t.amount \in Nat /\ t.power \in Nat
  BY StakeParts
<1>2. Minus(s, t).amount = s.amount - t.amount /\ Minus(s, t).power = s.power - t.power
  BY <1>1, MinusParts DEF Within, SaturatingSub
<1>3. Minus(s, t) \in StakeT
  BY MinusParts
<1> QED BY <1>1, <1>2, <1>3, PlusParts, StakeParts

\* What is added and taken away again.
LEMMA PlusMinus ==
  ASSUME NEW s \in StakeT, NEW t \in StakeT
  PROVE  Minus(Plus(s, t), t) = s
<1>1. Plus(s, t) \in StakeT /\ Within(t, Plus(s, t))
  BY PlusParts, StakeParts DEF Within
<1>2. Minus(Plus(s, t), t) \in StakeT
  BY <1>1, MinusParts
<1> QED BY <1>1, <1>2, MinusWithin, PlusParts, StakeParts

\* The sum of stakes is a stake, and none of its terms is above it.
LEMMA SumOverType ==
  ASSUME NEW S, IsFiniteSet(S), NEW f, \A x \in S : f[x] \in StakeT
  PROVE  /\ SumOver(f, S) \in StakeT
         /\ SumOver(f, S).amount = Sum([x \in S |-> f[x].amount], S)
         /\ SumOver(f, S).power = Sum([x \in S |-> f[x].power], S)
         /\ \A x \in S : Within(f[x], SumOver(f, S))
<1> DEFINE a == [x \in S |-> f[x].amount]
           p == [x \in S |-> f[x].power]
<1>1. \A x \in S : a[x] \in Nat /\ p[x] \in Nat /\ a[x] = f[x].amount /\ p[x] = f[x].power
  BY StakeParts
<1> HIDE DEF a, p
<1>2. Sum(a, S) \in Nat /\ Sum(p, S) \in Nat
  BY <1>1, SumType
<1>3. SumOver(f, S) \in StakeT /\ SumOver(f, S).amount = Sum(a, S) /\ SumOver(f, S).power = Sum(p, S)
  BY <1>2, StakeParts DEF SumOver, a, p
<1>4. \A x \in S : a[x] <= Sum(a, S) /\ p[x] <= Sum(p, S)
  BY <1>1, SumTerm
<1> QED BY <1>1, <1>3, <1>4 DEF Within, a, p

\* The empty sum.
LEMMA SumOverEmpty ==
  ASSUME NEW f
  PROVE  SumOver(f, {}) = ZeroStake
BY SumEmpty DEF SumOver, ZeroStake

\* Equal terms have equal sums.
LEMMA SumOverSame ==
  ASSUME NEW S, NEW f, NEW g, \A x \in S : f[x] = g[x]
  PROVE  SumOver(f, S) = SumOver(g, S)
<1>1. /\ [x \in S |-> f[x].amount] = [x \in S |-> g[x].amount]
      /\ [x \in S |-> f[x].power] = [x \in S |-> g[x].power]
  OBVIOUS
<1> QED BY <1>1 DEF SumOver

\* One more term.
LEMMA SumOverAdd ==
  ASSUME NEW S, IsFiniteSet(S), NEW x, x \notin S,
         NEW f, \A y \in S : f[y] \in StakeT,
         NEW g, g[x] \in StakeT, \A y \in S : g[y] = f[y]
  PROVE  SumOver(g, S \cup {x}) = Plus(SumOver(f, S), g[x])
<1> DEFINE T == S \cup {x}
           a == [y \in T |-> g[y].amount]
           p == [y \in T |-> g[y].power]
           fa == [y \in S |-> f[y].amount]
           fp == [y \in S |-> f[y].power]
<1>1. IsFiniteSet(T) /\ IsFiniteSet({x}) /\ S \cap {x} = {} /\ \A y \in T : g[y] \in StakeT
  BY FS_AddElement, FS_Singleton
<1>2. \A y \in T : a[y] \in Nat /\ p[y] \in Nat
  BY <1>1, StakeParts
<1>3. \A y \in S : a[y] = fa[y] /\ p[y] = fp[y]
  OBVIOUS
<1>4. a[x] = g[x].amount /\ p[x] = g[x].power /\ a[x] \in Nat /\ p[x] \in Nat
  BY <1>2
<1> HIDE DEF a, p, fa, fp
<1>5. Sum(a, T) = Sum(a, S) + Sum(a, {x}) /\ Sum(p, T) = Sum(p, S) + Sum(p, {x})
  <2>1. \A y \in S \cup {x} : a[y] \in Nat /\ p[y] \in Nat
    BY <1>2
  <2> QED BY <1>1, <2>1, SumUnion
<1>6. Sum(a, S) = Sum(fa, S) /\ Sum(p, S) = Sum(fp, S)
  BY <1>3, SumSame
<1>7. Sum(a, {x}) = g[x].amount /\ Sum(p, {x}) = g[x].power
  BY <1>4, SumOne
<1> HIDE DEF T
<1>8. /\ SumOver(g, T) \in StakeT /\ SumOver(f, S) \in StakeT
      /\ SumOver(g, T).amount = SumOver(f, S).amount + g[x].amount
      /\ SumOver(g, T).power = SumOver(f, S).power + g[x].power
  BY <1>1, <1>5, <1>6, <1>7, SumOverType DEF a, p, fa, fp
<1>9. SumOver(g, T) = Plus(SumOver(f, S), g[x])
  BY <1>8, PlusParts, StakeParts
<1> QED BY <1>9 DEF T

\* One term less.
LEMMA SumOverRemove ==
  ASSUME NEW S, IsFiniteSet(S), NEW x \in S,
         NEW f, \A y \in S : f[y] \in StakeT,
         NEW g, \A y \in S \ {x} : g[y] = f[y]
  PROVE  SumOver(g, S \ {x}) = Minus(SumOver(f, S), f[x])
<1> DEFINE R == S \ {x}
<1>1. IsFiniteSet(R) /\ x \notin R /\ S = R \cup {x} /\ \A y \in R : g[y] \in StakeT /\ f[y] = g[y]
  BY FS_RemoveElement
<1>2. f[x] \in StakeT
  OBVIOUS
<1> HIDE DEF R
<1>3. SumOver(f, S) = Plus(SumOver(g, R), f[x])
  BY <1>1, <1>2, SumOverAdd
<1>4. SumOver(g, R) \in StakeT
  BY <1>1, SumOverType
<1> QED BY <1>2, <1>3, <1>4, PlusMinus DEF R

\* One term changed by a stake.
LEMMA SumOverMore ==
  ASSUME NEW S, IsFiniteSet(S), NEW x \in S, NEW t \in StakeT,
         NEW f, \A y \in S : f[y] \in StakeT,
         NEW g, g[x] = Plus(f[x], t), \A y \in S \ {x} : g[y] = f[y]
  PROVE  SumOver(g, S) = Plus(SumOver(f, S), t)
<1> DEFINE R == S \ {x}
<1>1. IsFiniteSet(R) /\ x \notin R /\ S = R \cup {x} /\ \A y \in R : g[y] \in StakeT /\ f[y] = g[y]
  BY FS_RemoveElement
<1>2. f[x] \in StakeT /\ g[x] \in StakeT
  BY PlusParts
<1> HIDE DEF R
<1>3. SumOver(f, S) = Plus(SumOver(g, R), f[x]) /\ SumOver(g, S) = Plus(SumOver(g, R), g[x])
  BY <1>1, <1>2, SumOverAdd
<1>4. SumOver(g, R) \in StakeT
  BY <1>1, SumOverType
<1>5. SumOver(g, S) \in StakeT /\ SumOver(f, S) \in StakeT
  BY <1>2, <1>3, <1>4, PlusParts
<1>6. /\ SumOver(g, S).amount = SumOver(f, S).amount + t.amount
      /\ SumOver(g, S).power = SumOver(f, S).power + t.power
  <2>1. g[x].amount = f[x].amount + t.amount /\ g[x].power = f[x].power + t.power
    BY <1>2, PlusParts
  <2>2. /\ SumOver(f, S).amount = SumOver(g, R).amount + f[x].amount
        /\ SumOver(f, S).power = SumOver(g, R).power + f[x].power
        /\ SumOver(g, S).amount = SumOver(g, R).amount + g[x].amount
        /\ SumOver(g, S).power = SumOver(g, R).power + g[x].power
    BY <1>2, <1>3, <1>4, PlusParts
  <2>3. /\ SumOver(g, R).amount \in Nat /\ SumOver(g, R).power \in Nat
        /\ f[x].amount \in Nat /\ f[x].power \in Nat /\ t.amount \in Nat /\ t.power \in Nat
    BY <1>2, <1>4, StakeParts
  <2> QED BY <2>1, <2>2, <2>3
<1> QED BY <1>5, <1>6, PlusParts, StakeParts

\* A sum in which one term becomes smaller.
LEMMA SumOverLess ==
  ASSUME NEW S, IsFiniteSet(S), NEW x \in S, NEW t \in StakeT,
         NEW f, \A y \in S : f[y] \in StakeT, Within(t, f[x]),
         NEW g, g[x] = Minus(f[x], t), \A y \in S \ {x} : g[y] = f[y]
  PROVE  SumOver(g, S) = Minus(SumOver(f, S), t)
<1>1. f[x] \in StakeT /\ g[x] \in StakeT /\ f[x] = Plus(g[x], t)
  BY MinusParts, MinusWithin
<1>2. \A y \in S : g[y] \in StakeT
  BY <1>1
<1>3. SumOver(f, S) = Plus(SumOver(g, S), t)
  BY <1>1, <1>2, SumOverMore
<1>4. SumOver(g, S) \in StakeT
  BY <1>2, SumOverType
<1> QED BY <1>3, <1>4, PlusMinus

\* What the bonds of S amount to.
Weight(S) == SumOver([b \in S |-> b.stake], S)

\* The weight of a set of bonds is a stake.
LEMMA WeightType ==
  ASSUME NEW S, S \subseteq BondT, IsFiniteSet(S)
  PROVE  Weight(S) \in StakeT
<1>1. \A b \in S : [e \in S |-> e.stake][b] \in StakeT
  BY DEF BondT
<1> QED BY <1>1, SumOverType DEF Weight

\* No bonds weigh nothing.
LEMMA WeightEmpty == Weight({}) = ZeroStake
BY SumOverEmpty DEF Weight

\* A bond more adds its stake.
LEMMA WeightAdd ==
  ASSUME NEW S, S \subseteq BondT, IsFiniteSet(S), NEW b \in BondT, b \notin S
  PROVE  Weight(S \cup {b}) = Plus(Weight(S), b.stake)
<1> DEFINE f == [e \in S |-> e.stake]
           g == [e \in S \cup {b} |-> e.stake]
<1>1. \A e \in BondT : e.stake \in StakeT
  BY DEF BondT
<1>2. (\A e \in S : f[e] \in StakeT /\ g[e] = f[e]) /\ g[b] = b.stake /\ g[b] \in StakeT
  BY <1>1
<1> HIDE DEF f, g
<1>3. SumOver(g, S \cup {b}) = Plus(SumOver(f, S), g[b])
  BY <1>2, SumOverAdd
<1> QED BY <1>2, <1>3 DEF Weight, f, g

\* A bond less takes its stake away.
LEMMA WeightRemove ==
  ASSUME NEW S, S \subseteq BondT, IsFiniteSet(S), NEW b \in S
  PROVE  Weight(S \ {b}) = Minus(Weight(S), b.stake)
<1> DEFINE R == S \ {b}
<1>1. R \subseteq BondT /\ IsFiniteSet(R) /\ b \notin R /\ b \in BondT /\ S = R \cup {b}
  BY FS_RemoveElement
<1>2. b.stake \in StakeT
  BY DEF BondT
<1> HIDE DEF R
<1>3. Weight(S) = Plus(Weight(R), b.stake)
  BY <1>1, WeightAdd
<1>4. Weight(R) \in StakeT
  BY <1>1, WeightType
<1> QED BY <1>2, <1>3, <1>4, PlusMinus DEF R

\* The sum of a list is the weight of what it lists.
LEMMA WeightList ==
  ASSUME NEW ds, NEW S, Listing(ds, S)
  PROVE  SumStakes(ds) = Weight(S)
<1> DEFINE K == 1 .. Len(ds)
           g == [i \in K |-> ds[i]]
           a == [b \in S |-> [e \in S |-> e.stake][b].amount]
           p == [b \in S |-> [e \in S |-> e.stake][b].power]
           da == [i \in K |-> [j \in K |-> ds[j].stake][i].amount]
           dp == [i \in K |-> [j \in K |-> ds[j].stake][i].power]
<1>1. /\ ds \in Seq(BondT) /\ Len(ds) \in Nat /\ DOMAIN ds = 1 .. Len(ds)
      /\ S = {ds[i] : i \in 1 .. Len(ds)}
      /\ \A i \in 1 .. Len(ds) : ds[i] \in BondT
      /\ \A i, j \in 1 .. Len(ds) : ds[i].owner = ds[j].owner => i = j
  BY DEF Listing
<1>2. g \in Bijection(K, S)
  <2>1. g \in Injection(K, S)
    BY <1>1 DEF Injection, IsInjective
  <2>2. g \in Surjection(K, S)
    BY <1>1 DEF Surjection
  <2> QED BY <2>1, <2>2 DEF Bijection
<1>3. IsFiniteSet(S) /\ S \subseteq BondT
  BY ListFacts
<1>4. \A b \in S : a[b] = b.stake.amount /\ p[b] = b.stake.power
  OBVIOUS
<1>5. \A b \in S : a[b] \in Nat /\ p[b] \in Nat
  <2>1. \A b \in BondT : b.stake.amount \in Nat /\ b.stake.power \in Nat
    BY DEF BondT, StakeT
  <2> QED BY <1>3, <1>4, <2>1
<1>6. \A i \in K : g[i] = ds[i] /\ ds[i] \in S /\ da[i] = ds[i].stake.amount /\ dp[i] = ds[i].stake.power
  BY <1>1
<1>7. \A i \in K : da[i] = a[g[i]] /\ dp[i] = p[g[i]]
  BY <1>4, <1>6
<1>8. SumStakes(ds) = Stake(Sum(da, K), Sum(dp, K)) /\ Weight(S) = Stake(Sum(a, S), Sum(p, S))
  BY <1>1 DEF SumStakes, SumOver, Weight
<1> HIDE DEF a, p, da, dp, g, K
<1>9. Sum(da, K) = Sum(a, S) /\ Sum(dp, K) = Sum(p, S)
  BY <1>2, <1>3, <1>5, <1>7, SumBijection
<1> QED BY <1>8, <1>9

-----------------------------------------------------------------------------
(***************************************************************************)
(* Lists with their totals.                                                *)
(***************************************************************************)
\* D lists the bonds S.
Holds(D, S) == D \in DelegationsT /\ Listing(D.delegations, S)

\* The parts of a list and of a bond.
LEMMA DelegationsParts ==
  /\ \A D \in DelegationsT : D.delegations \in Seq(BondT) /\ D.total \in StakeT
  /\ \A b \in BondT : b.owner \in Accounts /\ b.stake \in StakeT
BY DEF DelegationsT, BondT

\* A list put together from a listing and a total.
LEMMA HoldsMade ==
  ASSUME NEW ds, NEW t \in StakeT, NEW S, Listing(ds, S), NEW D,
         D = [delegations |-> ds, total |-> t]
  PROVE  Holds(D, S) /\ D.total = t
BY DEF Holds, DelegationsT, Listing

\* insert_sorted_greatest_to_least: the list holds one bond more.
LEMMA HoldsInsert ==
  ASSUME NEW D, NEW S, Holds(D, S), NEW b \in BondT, b.owner \notin Owners(S)
  PROVE  /\ Holds(insert_sorted_greatest_to_least(D, b), S \cup {b})
         /\ D.total = Weight(S) =>
              insert_sorted_greatest_to_least(D, b).total = Weight(S \cup {b})
<1>1. D.total \in StakeT /\ b.stake \in StakeT /\ Listing(D.delegations, S)
  BY DelegationsParts DEF Holds
<1>2. Listing(sort_greatest_to_least(Append(D.delegations, b)), S \cup {b})
  BY <1>1, ListInsert
<1>3. Plus(D.total, b.stake) \in StakeT
  BY <1>1, PlusParts
<1>4. /\ Holds(insert_sorted_greatest_to_least(D, b), S \cup {b})
      /\ insert_sorted_greatest_to_least(D, b).total = Plus(D.total, b.stake)
  BY <1>2, <1>3, HoldsMade DEF insert_sorted_greatest_to_least
<1>5. b \notin S
  BY DEF Owners
<1>6. S \subseteq BondT /\ IsFiniteSet(S)
  BY <1>1, ListFacts
<1>7. Weight(S \cup {b}) = Plus(Weight(S), b.stake)
  BY <1>5, <1>6, WeightAdd
<1> QED BY <1>4, <1>7

\* A list without its lowest bond.
LEMMA HoldsPopLowest ==
  ASSUME NEW D, NEW S, Holds(D, S), S # {}
  PROVE  /\ Holds(PopLowest(D), S \ {Last(D.delegations)})
         /\ D.total = Weight(S) => PopLowest(D).total = Weight(S \ {Last(D.delegations)})
<1> DEFINE b == Last(D.delegations)
<1>1. D.total \in StakeT /\ Listing(D.delegations, S)
  BY DelegationsParts DEF Holds
<1>2. Listing(Front(D.delegations), S \ {b}) /\ b \in S
  BY <1>1, ListFront, ListEnds
<1>3. S \subseteq BondT /\ IsFiniteSet(S)
  BY <1>1, ListFacts
<1>4. b.stake \in StakeT
  BY <1>2, <1>3, DelegationsParts
<1>5. Minus(D.total, b.stake) \in StakeT
  BY <1>1, <1>4, MinusParts
<1>6. Holds(PopLowest(D), S \ {b}) /\ PopLowest(D).total = Minus(D.total, b.stake)
  BY <1>2, <1>5, HoldsMade DEF PopLowest
<1>7. Weight(S \ {b}) = Minus(Weight(S), b.stake)
  BY <1>2, <1>3, WeightRemove
<1> QED BY <1>6, <1>7

\* A list without its highest bond.
LEMMA HoldsPopHighest ==
  ASSUME NEW D, NEW S, Holds(D, S), S # {}
  PROVE  Holds(PopHighest(D), S \ {Head(D.delegations)})
<1> DEFINE b == Head(D.delegations)
<1>1. D.total \in StakeT /\ Listing(D.delegations, S)
  BY DelegationsParts DEF Holds
<1>2. Listing(Tail(D.delegations), S \ {b}) /\ b \in S
  BY <1>1, ListTail, ListEnds
<1>3. S \subseteq BondT /\ IsFiniteSet(S)
  BY <1>1, ListFacts
<1>4. b.stake \in StakeT
  BY <1>2, <1>3, DelegationsParts
<1>5. Minus(D.total, b.stake) \in StakeT
  BY <1>1, <1>4, MinusParts
<1>6. PICK ds, t : ds = Tail(D.delegations) /\ t = Minus(D.total, b.stake)
  OBVIOUS
<1>7. t \in StakeT /\ Listing(ds, S \ {b}) /\ PopHighest(D) = [delegations |-> ds, total |-> t]
  BY <1>2, <1>5, <1>6 DEF PopHighest
<1>8. Holds(PopHighest(D), S \ {b})
  BY <1>7, HoldsMade
<1> QED BY <1>8

\* The list without the bonds of d, with any total.
LEMMA HoldsWithout ==
  ASSUME NEW D, NEW S, Holds(D, S), NEW d, NEW t \in StakeT
  PROVE  Holds([delegations |-> Without(D, d), total |-> t], {b \in S : b.owner # d})
<1>1. Listing(Without(D, d), {b \in S : b.owner # d})
  BY ListWithout DEF Holds
<1> QED BY <1>1, HoldsMade

\* A list sorted again after one of its bonds has changed.
LEMMA HoldsRebond ==
  ASSUME NEW D, NEW S, Holds(D, S), NEW d \in Owners(S), NEW s \in StakeT, NEW t \in StakeT
  PROVE  Holds([delegations |-> sort_greatest_to_least(Rebond(D, d, s)), total |-> t],
               {b \in S : b.owner # d} \cup {Bond(d, s)})
<1>1. Listing(sort_greatest_to_least(Rebond(D, d, s)), {b \in S : b.owner # d} \cup {Bond(d, s)})
  BY ListRebond DEF Holds
<1> QED BY <1>1, HoldsMade

\* The parts of a bond.
LEMMA BondParts ==
  ASSUME NEW d \in Accounts, NEW s \in StakeT
  PROVE  Bond(d, s) \in BondT /\ Bond(d, s).owner = d /\ Bond(d, s).stake = s
BY DEF Bond, BondT

\* Taking the bond of d out of a set of bonds with one owner each.
LEMMA TakeOut ==
  ASSUME NEW S, S \subseteq BondT, IsFiniteSet(S), OneEach(S), NEW b \in S
  PROVE  /\ {e \in S : e.owner # b.owner} = S \ {b}
         /\ Weight({e \in S : e.owner # b.owner}) = Minus(Weight(S), b.stake)
         /\ Cardinality({e \in S : e.owner # b.owner}) = Cardinality(S) - 1
         /\ Cardinality(S) \in Nat /\ Cardinality(S) > 0
<1>1. {e \in S : e.owner # b.owner} = S \ {b}
  BY DEF OneEach
<1>2. Weight(S \ {b}) = Minus(Weight(S), b.stake)
  BY WeightRemove
<1>3. Cardinality(S \ {b}) = Cardinality(S) - 1
  BY FS_RemoveElement
<1>4. Cardinality(S) \in Nat /\ Cardinality(S) # 0
  BY FS_CardinalityType, FS_EmptySet
<1> QED BY <1>1, <1>2, <1>3, <1>4

\* Replacing it by another.
LEMMA Replace ==
  ASSUME NEW S, S \subseteq BondT, IsFiniteSet(S), OneEach(S), NEW b \in S, NEW s \in StakeT
  PROVE  /\ Weight({e \in S : e.owner # b.owner} \cup {Bond(b.owner, s)}) =
              Plus(Minus(Weight(S), b.stake), s)
         /\ Cardinality({e \in S : e.owner # b.owner} \cup {Bond(b.owner, s)}) = Cardinality(S)
<1> DEFINE R == {e \in S : e.owner # b.owner}
           n == Bond(b.owner, s)
<1>1. R = S \ {b} /\ Weight(R) = Minus(Weight(S), b.stake) /\ Cardinality(R) = Cardinality(S) - 1
      /\ Cardinality(S) \in Nat
  BY TakeOut
<1>2. R \subseteq BondT /\ IsFiniteSet(R)
  BY <1>1, FS_RemoveElement
<1>3. n \in BondT /\ n.owner = b.owner /\ n.stake = s
  BY BondParts, DelegationsParts
<1>4. n \notin R
  BY <1>3
<1> HIDE DEF R, n
<1>5. Weight(R \cup {n}) = Plus(Weight(R), s)
  BY <1>2, <1>3, <1>4, WeightAdd
<1>6. Cardinality(R \cup {n}) = Cardinality(R) + 1
  BY <1>2, <1>4, FS_AddElement
<1> QED BY <1>1, <1>5, <1>6 DEF R, n

-----------------------------------------------------------------------------
(***************************************************************************)
(* Books.                                                                  *)
(***************************************************************************)
MaxTop == MaxTopDelegationsPerCandidate
MaxBottom == MaxBottomDelegationsPerCandidate

\* What a book says of its candidate alone.
SameCandidate(k, k2) ==
  k2.stake = k.stake /\ k2.request = k.request /\ k2.status = k.status /\ k2.when = k.when

TopHolds(k, T) ==
  /\ Holds(k.top, T) /\ Cardinality(T) <= MaxTop
  /\ k.lowest_top_delegation = lowest_delegation_amount(k.top)
  /\ k.top_capacity = top_capacity(k.top)
  /\ k.top.total = Weight(T)
  /\ k.total_stake_counted = Plus(k.stake, Weight(T))

BottomHolds(k, B) ==
  /\ Holds(k.bottom, B) /\ Cardinality(B) <= MaxBottom
  /\ k.lowest_bottom_delegation = lowest_delegation_amount(k.bottom)
  /\ k.highest_bottom_delegation = highest_delegation_amount(k.bottom)
  /\ k.bottom_capacity = bottom_capacity(k.bottom)

\* The top is above the bottom, and full if there is a bottom.
Split(T, B) ==
  /\ Owners(T) \cap Owners(B) = {}
  /\ \A t \in T, b \in B : ~Below(t.stake, b.stake)
  /\ B # {} => Cardinality(T) = MaxTop

Good(k, T, B) ==
  /\ k \in BookT /\ TopHolds(k, T) /\ BottomHolds(k, B) /\ Split(T, B)
  /\ k.delegation_count = Cardinality(T) + Cardinality(B)

\* The ends of a list and whether it is full, from what it holds.
LEMMA HoldsEnds ==
  ASSUME NEW D, NEW S, Holds(D, S)
  PROVE  /\ S \subseteq BondT /\ IsFiniteSet(S) /\ OneEach(S)
         /\ Cardinality(S) \in Nat /\ Cardinality(S) = Len(D.delegations)
         /\ S = {} <=> D.delegations = <<>>
         /\ S = {} <=> Cardinality(S) = 0
         /\ lowest_delegation_amount(D) \in StakeT /\ highest_delegation_amount(D) \in StakeT
         /\ S # {} => /\ Last(D.delegations) \in S /\ Head(D.delegations) \in S
                      /\ lowest_delegation_amount(D) = Last(D.delegations).stake
                      /\ highest_delegation_amount(D) = Head(D.delegations).stake
         /\ \A b \in S : /\ ~Below(b.stake, lowest_delegation_amount(D))
                         /\ ~Below(highest_delegation_amount(D), b.stake)
<1>1. Listing(D.delegations, S)
  BY DEF Holds
<1>2. /\ S \subseteq BondT /\ IsFiniteSet(S) /\ OneEach(S)
      /\ Cardinality(S) \in Nat /\ Cardinality(S) = Len(D.delegations)
      /\ S = {} <=> D.delegations = <<>>
  BY <1>1, ListFacts
<1>3. S = {} <=> Cardinality(S) = 0
  BY <1>2, FS_EmptySet
<1>4. ZeroStake \in StakeT
  BY StakeParts DEF ZeroStake
<1>5. CASE S = {}
  <2>1. lowest_delegation_amount(D) = ZeroStake /\ highest_delegation_amount(D) = ZeroStake
    BY <1>2, <1>5 DEF lowest_delegation_amount, highest_delegation_amount
  <2> QED BY <1>2, <1>3, <1>4, <1>5, <2>1
<1>6. CASE S # {}
  <2>1. /\ lowest_delegation_amount(D) = Last(D.delegations).stake
        /\ highest_delegation_amount(D) = Head(D.delegations).stake
    BY <1>2, <1>6 DEF lowest_delegation_amount, highest_delegation_amount
  <2>2. /\ Last(D.delegations) \in S /\ \A b \in S : ~Below(b.stake, Last(D.delegations).stake)
        /\ Head(D.delegations) \in S /\ \A b \in S : ~Below(Head(D.delegations).stake, b.stake)
    BY <1>1, <1>6, ListEnds
  <2>3. Last(D.delegations).stake \in StakeT /\ Head(D.delegations).stake \in StakeT
    BY <1>2, <2>2, DelegationsParts
  <2> QED BY <1>2, <1>3, <1>6, <2>1, <2>2, <2>3
<1> QED BY <1>5, <1>6

\* What the capacity says of the bonds of a list.
LEMMA CapacityHolds ==
  ASSUME NEW D, NEW S, Holds(D, S), NEW max \in Nat \ {0}, Cardinality(S) <= max
  PROVE  /\ Capacity(D, max) \in CapacityT
         /\ Capacity(D, max) = "Full" <=> Cardinality(S) = max
         /\ Capacity(D, max) = "Empty" <=> S = {}
<1>1. /\ Cardinality(S) \in Nat /\ Cardinality(S) = Len(D.delegations)
      /\ S = {} <=> D.delegations = <<>>
      /\ S = {} <=> Cardinality(S) = 0
  BY HoldsEnds
<1>2. CASE Cardinality(S) = max
  BY <1>1, <1>2 DEF Capacity, CapacityT
<1>3. CASE Cardinality(S) # max
  <2>1. ~(Len(D.delegations) >= max)
    BY <1>1, <1>3
  <2>2. CASE S = {}
    BY <1>1, <1>3, <2>1, <2>2 DEF Capacity, CapacityT
  <2>3. CASE S # {}
    BY <1>1, <1>3, <2>1, <2>3 DEF Capacity, CapacityT
  <2> QED BY <2>2, <2>3
<1> QED BY <1>2, <1>3

\* The lists have room for a bond.
LEMMA MaxFacts == MaxTop \in Nat \ {0} /\ MaxBottom \in Nat \ {0}
BY StakingAssumption DEF MaxTop, MaxBottom

\* The parts of a book.
LEMMA BookParts ==
  ASSUME NEW k \in BookT
  PROVE  /\ k.stake \in StakeT /\ k.delegation_count \in Nat /\ k.total_stake_counted \in StakeT
         /\ k.lowest_top_delegation \in StakeT /\ k.highest_bottom_delegation \in StakeT
         /\ k.lowest_bottom_delegation \in StakeT
         /\ k.top \in DelegationsT /\ k.bottom \in DelegationsT
         /\ k # None
BY NoneAssumption DEF BookT

\* reset_top_data, for a top that holds T.
LEMMA SetTop ==
  ASSUME NEW k \in BookT, NEW D, NEW T, Holds(D, T), Cardinality(T) <= MaxTop,
         D.total = Weight(T), NEW k2, k2 = reset_top_data(k, D)
  PROVE  /\ k2 \in BookT /\ TopHolds(k2, T) /\ SameCandidate(k, k2)
         /\ k2.delegation_count = k.delegation_count /\ k2.bottom = k.bottom /\ k2.top = D
         /\ k2.bottom_capacity = k.bottom_capacity
         /\ \A B : BottomHolds(k, B) => BottomHolds(k2, B)
<1>1. D \in DelegationsT /\ T \subseteq BondT /\ IsFiniteSet(T)
  BY HoldsEnds DEF Holds
<1>2. lowest_delegation_amount(D) \in StakeT /\ top_capacity(D) \in CapacityT
  BY HoldsEnds, CapacityHolds, MaxFacts DEF top_capacity, MaxTop
<1>3. k.stake \in StakeT /\ D.total \in StakeT
  BY <1>1, BookParts, DelegationsParts
<1>4. Plus(k.stake, D.total) \in StakeT
  BY <1>3, PlusParts
<1>5. k2 \in BookT
  BY <1>1, <1>2, <1>4 DEF BookT, reset_top_data
<1>6. /\ k2.top = D /\ k2.lowest_top_delegation = lowest_delegation_amount(D)
      /\ k2.top_capacity = top_capacity(D)
      /\ k2.total_stake_counted = Plus(k.stake, D.total) /\ k2.stake = k.stake
  BY DEF BookT, reset_top_data
<1>7. /\ k2.request = k.request /\ k2.status = k.status /\ k2.when = k.when
      /\ k2.delegation_count = k.delegation_count /\ k2.bottom = k.bottom
      /\ k2.lowest_bottom_delegation = k.lowest_bottom_delegation
      /\ k2.highest_bottom_delegation = k.highest_bottom_delegation
      /\ k2.bottom_capacity = k.bottom_capacity
  BY DEF BookT, reset_top_data
<1>8. TopHolds(k2, T)
  BY <1>6 DEF TopHolds
<1>9. \A B : BottomHolds(k, B) => BottomHolds(k2, B)
  BY <1>7 DEF BottomHolds
<1>10. SameCandidate(k, k2)
  BY <1>6, <1>7 DEF SameCandidate
<1> QED BY <1>5, <1>6, <1>7, <1>8, <1>9, <1>10

\* reset_bottom_data: the cached ends of the bottom are those of its list.
LEMMA SetBottom ==
  ASSUME NEW k \in BookT, NEW D, NEW B, Holds(D, B), Cardinality(B) <= MaxBottom,
         NEW k2, k2 = reset_bottom_data(k, D)
  PROVE  /\ k2 \in BookT /\ BottomHolds(k2, B) /\ SameCandidate(k, k2)
         /\ k2.delegation_count = k.delegation_count /\ k2.top = k.top /\ k2.bottom = D
         /\ k2.total_stake_counted = k.total_stake_counted
         /\ k2.lowest_top_delegation = k.lowest_top_delegation
         /\ k2.top_capacity = k.top_capacity
         /\ \A T : TopHolds(k, T) => TopHolds(k2, T)
<1>1. D \in DelegationsT
  BY DEF Holds
<1>2. /\ lowest_delegation_amount(D) \in StakeT /\ highest_delegation_amount(D) \in StakeT
      /\ bottom_capacity(D) \in CapacityT
  BY HoldsEnds, CapacityHolds, MaxFacts DEF bottom_capacity, MaxBottom
<1>5. k2 \in BookT
  BY <1>1, <1>2 DEF BookT, reset_bottom_data
<1>6. /\ k2.bottom = D /\ k2.lowest_bottom_delegation = lowest_delegation_amount(D)
      /\ k2.highest_bottom_delegation = highest_delegation_amount(D)
      /\ k2.bottom_capacity = bottom_capacity(D)
  BY DEF BookT, reset_bottom_data
<1>7. /\ k2.request = k.request /\ k2.status = k.status /\ k2.when = k.when /\ k2.stake = k.stake
      /\ k2.delegation_count = k.delegation_count /\ k2.top = k.top
      /\ k2.lowest_top_delegation = k.lowest_top_delegation
      /\ k2.top_capacity = k.top_capacity /\ k2.total_stake_counted = k.total_stake_counted
  BY DEF BookT, reset_bottom_data
<1>8. BottomHolds(k2, B)
  BY <1>6 DEF BottomHolds
<1>9. \A T : TopHolds(k, T) => TopHolds(k2, T)
  BY <1>7 DEF TopHolds
<1>10. SameCandidate(k, k2)
  BY <1>7 DEF SameCandidate
<1> QED BY <1>5, <1>6, <1>7, <1>8, <1>9, <1>10

\* Another delegation_count changes nothing else.
LEMMA SetCount ==
  ASSUME NEW k \in BookT, NEW n \in Nat, NEW k2, k2 = [k EXCEPT !.delegation_count = n]
  PROVE  /\ k2 \in BookT /\ SameCandidate(k, k2) /\ k2.delegation_count = n
         /\ k2.top = k.top /\ k2.bottom = k.bottom
         /\ k2.top_capacity = k.top_capacity /\ k2.bottom_capacity = k.bottom_capacity
         /\ \A T : TopHolds(k, T) => TopHolds(k2, T)
         /\ \A B : BottomHolds(k, B) => BottomHolds(k2, B)
<1>5. k2 \in BookT
  BY DEF BookT
<1>7. /\ k2.request = k.request /\ k2.status = k.status /\ k2.when = k.when /\ k2.stake = k.stake
      /\ k2.top = k.top /\ k2.lowest_top_delegation = k.lowest_top_delegation
      /\ k2.top_capacity = k.top_capacity /\ k2.total_stake_counted = k.total_stake_counted
      /\ k2.bottom = k.bottom
      /\ k2.lowest_bottom_delegation = k.lowest_bottom_delegation
      /\ k2.highest_bottom_delegation = k.highest_bottom_delegation
      /\ k2.bottom_capacity = k.bottom_capacity
      /\ k2.delegation_count = n
  BY DEF BookT
<1>8. \A T : TopHolds(k, T) => TopHolds(k2, T)
  BY <1>7 DEF TopHolds
<1>9. \A B : BottomHolds(k, B) => BottomHolds(k2, B)
  BY <1>7 DEF BottomHolds
<1>10. SameCandidate(k, k2)
  BY <1>7 DEF SameCandidate
<1> QED BY <1>5, <1>7, <1>8, <1>9, <1>10

\* What the cached values of a book say.
LEMMA TopFacts ==
  ASSUME NEW k \in BookT, NEW T, TopHolds(k, T)
  PROVE  /\ T \subseteq BondT /\ IsFiniteSet(T) /\ OneEach(T) /\ Cardinality(T) \in Nat
         /\ k.top_capacity = "Full" <=> Cardinality(T) = MaxTop
         /\ Cardinality(T) = Len(k.top.delegations)
         /\ T = {} <=> Cardinality(T) = 0
         /\ T # {} => /\ Last(k.top.delegations) \in T
                      /\ k.lowest_top_delegation = Last(k.top.delegations).stake
         /\ \A t \in T : ~Below(t.stake, k.lowest_top_delegation)
<1>1. Holds(k.top, T) /\ Cardinality(T) <= MaxTop
      /\ k.lowest_top_delegation = lowest_delegation_amount(k.top)
      /\ k.top_capacity = Capacity(k.top, MaxTop)
  BY DEF TopHolds, top_capacity, MaxTop
<1>2. k.top_capacity = "Full" <=> Cardinality(T) = MaxTop
  BY <1>1, CapacityHolds, MaxFacts
<1> QED BY <1>1, <1>2, HoldsEnds

\* What a book says of its bottom bonds.
LEMMA BottomFacts ==
  ASSUME NEW k \in BookT, NEW B, BottomHolds(k, B)
  PROVE  /\ B \subseteq BondT /\ IsFiniteSet(B) /\ OneEach(B) /\ Cardinality(B) \in Nat
         /\ k.bottom_capacity = "Full" <=> Cardinality(B) = MaxBottom
         /\ k.bottom_capacity = "Empty" <=> B = {}
         /\ BottomIsFull(k) <=> Cardinality(B) = MaxBottom
         /\ Cardinality(B) = Len(k.bottom.delegations)
         /\ B = {} <=> Cardinality(B) = 0
         /\ B # {} => /\ Last(k.bottom.delegations) \in B /\ Head(k.bottom.delegations) \in B
                      /\ k.lowest_bottom_delegation = Last(k.bottom.delegations).stake
                      /\ k.highest_bottom_delegation = Head(k.bottom.delegations).stake
         /\ \A b \in B : /\ ~Below(b.stake, k.lowest_bottom_delegation)
                         /\ ~Below(k.highest_bottom_delegation, b.stake)
<1>1. Holds(k.bottom, B) /\ Cardinality(B) <= MaxBottom
      /\ k.lowest_bottom_delegation = lowest_delegation_amount(k.bottom)
      /\ k.highest_bottom_delegation = highest_delegation_amount(k.bottom)
      /\ k.bottom_capacity = Capacity(k.bottom, MaxBottom)
  BY DEF BottomHolds, bottom_capacity, MaxBottom
<1>2. /\ k.bottom_capacity = "Full" <=> Cardinality(B) = MaxBottom
      /\ k.bottom_capacity = "Empty" <=> B = {}
  BY <1>1, CapacityHolds, MaxFacts
<1>3. Cardinality(B) = Len(k.bottom.delegations)
  BY <1>1, HoldsEnds
<1>4. BottomIsFull(k) <=> Cardinality(B) = MaxBottom
  BY <1>3 DEF BottomIsFull, MaxBottom
<1> QED BY <1>1, <1>2, <1>4, HoldsEnds

\* The book of a new candidate.
LEMMA NewBookGood ==
  ASSUME NEW s \in StakeT
  PROVE  Good(NewBook(s), {}, {}) /\ NewBook(s).stake = s /\ NewBook(s).request = None
         /\ NewBook(s).status = "Active"
<1> DEFINE k == NewBook(s)
<1>1. ZeroStake \in StakeT
  BY StakeParts DEF ZeroStake
<1>2. NoDelegations \in DelegationsT /\ NoDelegations.delegations = <<>> /\ NoDelegations.total = ZeroStake
  BY <1>1 DEF NoDelegations, DelegationsT
<1>3. Holds(NoDelegations, {})
  BY <1>2, ListEmpty DEF Holds
<1>4. k \in BookT
  BY <1>1, <1>2 DEF NewBook, BookT, CapacityT
<1>5. Cardinality({}) = 0
  BY FS_EmptySet
<1>6. /\ k.top = NoDelegations /\ k.bottom = NoDelegations /\ k.stake = s
      /\ k.delegation_count = 0 /\ k.total_stake_counted = s
      /\ k.lowest_top_delegation = ZeroStake /\ k.lowest_bottom_delegation = ZeroStake
      /\ k.highest_bottom_delegation = ZeroStake
      /\ k.top_capacity = "Empty" /\ k.bottom_capacity = "Empty"
      /\ k.request = None /\ k.status = "Active"
  BY DEF NewBook
<1>7. /\ lowest_delegation_amount(NoDelegations) = ZeroStake
      /\ highest_delegation_amount(NoDelegations) = ZeroStake
  BY <1>2 DEF lowest_delegation_amount, highest_delegation_amount
<1>8. top_capacity(NoDelegations) = "Empty" /\ bottom_capacity(NoDelegations) = "Empty"
  BY <1>3, <1>5, CapacityHolds, MaxFacts DEF top_capacity, bottom_capacity, MaxTop, MaxBottom
<1>9. Plus(s, ZeroStake) = s
  <2>1. ZeroStake.amount = 0 /\ ZeroStake.power = 0
    BY StakeParts DEF ZeroStake
  <2> QED BY <1>1, <2>1, PlusParts, StakeParts
<1>10. TopHolds(k, {})
  BY <1>2, <1>3, <1>5, <1>6, <1>7, <1>8, <1>9, WeightEmpty, MaxFacts DEF TopHolds
<1>11. BottomHolds(k, {})
  BY <1>3, <1>5, <1>6, <1>7, <1>8, MaxFacts DEF BottomHolds
<1>12. Split({}, {})
  BY DEF Split, Owners
<1> QED BY <1>4, <1>5, <1>6, <1>10, <1>11, <1>12 DEF Good

\* What the bottom keeps when it takes a bond: not its lowest one if it is full.
Room(k, B) == IF BottomIsFull(k) THEN B \ {Last(k.bottom.delegations)} ELSE B

RoomOf(k) == IF BottomIsFull(k) THEN PopLowest(k.bottom) ELSE k.bottom

\* The room that is made in the bottom is enough for a bond.
LEMMA RoomFacts ==
  ASSUME NEW k \in BookT, NEW B, BottomHolds(k, B)
  PROVE  /\ Holds(RoomOf(k), Room(k, B)) /\ Room(k, B) \subseteq B
         /\ Cardinality(Room(k, B)) \in Nat /\ Cardinality(Room(k, B)) < MaxBottom
         /\ Cardinality(B) = MaxBottom => Cardinality(B) = Cardinality(Room(k, B)) + 1
         /\ Cardinality(B) # MaxBottom => Cardinality(B) = Cardinality(Room(k, B))
<1> DEFINE low == Last(k.bottom.delegations)
<1>1. /\ B \subseteq BondT /\ IsFiniteSet(B) /\ Cardinality(B) \in Nat
      /\ BottomIsFull(k) <=> Cardinality(B) = MaxBottom
      /\ B = {} <=> Cardinality(B) = 0
      /\ B # {} => low \in B
  BY BottomFacts
<1>2. Holds(k.bottom, B) /\ Cardinality(B) <= MaxBottom
  BY DEF BottomHolds
<1>3. CASE BottomIsFull(k)
  <2>1. B # {}
    BY <1>1, <1>3, MaxFacts
  <2>2. Holds(PopLowest(k.bottom), B \ {low}) /\ low \in B
    BY <1>1, <1>2, <2>1, HoldsPopLowest
  <2>3. Cardinality(B \ {low}) = Cardinality(B) - 1
    BY <1>1, <2>2, FS_RemoveElement
  <2>4. Room(k, B) = B \ {low} /\ RoomOf(k) = PopLowest(k.bottom)
    BY <1>3 DEF Room, RoomOf
  <2>5. Cardinality(B) = MaxBottom /\ Cardinality(B) > 0
    BY <1>1, <1>3, MaxFacts
  <2> QED BY <1>1, <2>2, <2>3, <2>4, <2>5
<1>4. CASE ~BottomIsFull(k)
  <2>1. Room(k, B) = B /\ RoomOf(k) = k.bottom
    BY <1>4 DEF Room, RoomOf
  <2> QED BY <1>1, <1>2, <1>4, <2>1, MaxFacts
<1> QED BY <1>3, <1>4

\* add_bottom_delegation, with the book k1 in which the bonds are counted.
LEMMA AddBottom ==
  ASSUME NEW k \in BookT, NEW B, BottomHolds(k, B), NEW k1 \in BookT,
         NEW b \in BondT, b.owner \notin Owners(B), NEW k2,
         k2 = reset_bottom_data(k1, insert_sorted_greatest_to_least(RoomOf(k), b))
  PROVE  /\ k2 \in BookT /\ SameCandidate(k1, k2) /\ BottomHolds(k2, Room(k, B) \cup {b})
         /\ k2.top = k1.top /\ k2.delegation_count = k1.delegation_count
         /\ \A T : TopHolds(k1, T) => TopHolds(k2, T)
         /\ Cardinality(Room(k, B) \cup {b}) = Cardinality(Room(k, B)) + 1
<1> DEFINE D == insert_sorted_greatest_to_least(RoomOf(k), b)
           R == Room(k, B)
<1>1. Holds(RoomOf(k), R) /\ R \subseteq B /\ Cardinality(R) \in Nat /\ Cardinality(R) < MaxBottom
  BY RoomFacts
<1>2. IsFiniteSet(R)
  BY <1>1, HoldsEnds
<1>3. b.owner \notin Owners(R) /\ b \notin R
  BY <1>1 DEF Owners
<1> HIDE DEF R
<1>4. Holds(D, R \cup {b})
  BY <1>1, <1>3, HoldsInsert
<1> HIDE DEF D
<1>5. Cardinality(R \cup {b}) = Cardinality(R) + 1
  BY <1>2, <1>3, FS_AddElement
<1>6. Cardinality(R \cup {b}) <= MaxBottom
  BY <1>1, <1>5, MaxFacts
<1>7. k2 = reset_bottom_data(k1, D)
  BY DEF D
<1>8. /\ k2 \in BookT /\ BottomHolds(k2, R \cup {b}) /\ SameCandidate(k1, k2)
      /\ k2.delegation_count = k1.delegation_count /\ k2.top = k1.top
      /\ \A T : TopHolds(k1, T) => TopHolds(k2, T)
  BY <1>4, <1>6, <1>7, SetBottom
<1> QED BY <1>5, <1>8 DEF R

\* The bonds without that of an owner, if it is one.
Leave(S, x) == {e \in S : e.owner # x}

\* add_delegation: the book takes the bond and loses the one that is kicked.
LEMMA AddGood ==
  ASSUME NEW k, NEW T, NEW B, Good(k, T, B), NEW b \in BondT,
         b.owner \notin Owners(T), b.owner \notin Owners(B), CanAdd(k, b)
  PROVE  /\ \E T2, B2 : /\ Good(add_delegation(k, b), T2, B2)
                        /\ T2 \cup B2 = Leave(T \cup B, KickedBy(k, b)) \cup {b}
         /\ SameCandidate(k, add_delegation(k, b))
         /\ KickedBy(k, b) # None => KickedBy(k, b) \in Owners(B)
<1> DEFINE k2 == add_delegation(k, b)
           x == KickedBy(k, b)
           low == Last(k.bottom.delegations)
           t == Last(k.top.delegations)
<1>1. k \in BookT /\ TopHolds(k, T) /\ BottomHolds(k, B) /\ Split(T, B)
      /\ k.delegation_count = Cardinality(T) + Cardinality(B)
  BY DEF Good
<1>2. /\ T \subseteq BondT /\ IsFiniteSet(T) /\ OneEach(T) /\ Cardinality(T) \in Nat
      /\ k.top_capacity = "Full" <=> Cardinality(T) = MaxTop
      /\ Cardinality(T) = Len(k.top.delegations)
      /\ T = {} <=> Cardinality(T) = 0
      /\ T # {} => t \in T /\ k.lowest_top_delegation = t.stake
      /\ \A e \in T : ~Below(e.stake, k.lowest_top_delegation)
  BY <1>1, TopFacts
<1>3. /\ B \subseteq BondT /\ IsFiniteSet(B) /\ OneEach(B) /\ Cardinality(B) \in Nat
      /\ k.bottom_capacity = "Full" <=> Cardinality(B) = MaxBottom
      /\ BottomIsFull(k) <=> Cardinality(B) = MaxBottom
      /\ B = {} <=> Cardinality(B) = 0
      /\ B # {} => low \in B /\ k.lowest_bottom_delegation = low.stake
  BY <1>1, BottomFacts
<1>4. Holds(k.top, T) /\ Cardinality(T) <= MaxTop /\ k.top.total = Weight(T)
  BY <1>1 DEF TopHolds
<1>5. Holds(k.bottom, B) /\ Cardinality(B) <= MaxBottom
  BY <1>1 DEF BottomHolds
<1>6. b \notin T /\ b \notin B
  BY DEF Owners
<1>7. b.stake \in StakeT
  BY DelegationsParts
<1>8. /\ \A e \in T : e.stake \in StakeT /\ e.owner \in Accounts
      /\ \A e \in B : e.stake \in StakeT /\ e.owner \in Accounts
  BY <1>2, <1>3, DelegationsParts
<1>9. /\ \A e \in T : e.owner # b.owner
      /\ \A e \in B : e.owner # b.owner
      /\ \A e \in T, f \in B : e.owner # f.owner
      /\ \A e \in T, f \in B : ~Below(e.stake, f.stake)
      /\ B # {} => Cardinality(T) = MaxTop
  BY <1>1 DEF Split, Owners
<1>10. CASE ~GoesToTop(k, b)
  <2>1. k.top_capacity = "Full" /\ ~Below(k.lowest_top_delegation, b.stake) /\ Cardinality(T) = MaxTop
    BY <1>2, <1>10 DEF GoesToTop
  <2> DEFINE k1 == IF BottomIsFull(k) THEN k ELSE [k EXCEPT !.delegation_count = @ + 1]
             R == Room(k, B)
             B2 == R \cup {b}
  <2>2. k2 = reset_bottom_data(k1, insert_sorted_greatest_to_least(RoomOf(k), b))
    BY <1>10 DEF add_delegation, add_bottom_delegation, RoomOf
  <2>3. x = IF BottomIsFull(k) THEN low.owner ELSE None
    BY <1>10 DEF KickedBy
  <2>11. /\ k1 \in BookT /\ SameCandidate(k, k1) /\ TopHolds(k1, T)
         /\ BottomIsFull(k) => k1.delegation_count = k.delegation_count
         /\ ~BottomIsFull(k) => k1.delegation_count = k.delegation_count + 1
    <3>1. CASE BottomIsFull(k)
      BY <1>1, <3>1 DEF SameCandidate
    <3>2. CASE ~BottomIsFull(k)
      <4>1. k.delegation_count + 1 \in Nat /\ k1 = [k EXCEPT !.delegation_count = k.delegation_count + 1]
        BY <1>1, <3>2, BookParts
      <4> HIDE DEF k1
      <4> QED BY <1>1, <3>2, <4>1, SetCount
    <3> QED BY <3>1, <3>2
  <2> HIDE DEF k1
  <2>4. /\ k2 \in BookT /\ SameCandidate(k1, k2) /\ BottomHolds(k2, B2) /\ TopHolds(k2, T)
        /\ k2.delegation_count = k1.delegation_count
        /\ Cardinality(B2) = Cardinality(R) + 1 /\ Cardinality(R) \in Nat
        /\ Cardinality(B) = MaxBottom => Cardinality(B) = Cardinality(R) + 1
        /\ Cardinality(B) # MaxBottom => Cardinality(B) = Cardinality(R)
    <3>1. k \in BookT /\ BottomHolds(k, B) /\ k1 \in BookT /\ b \in BondT /\ b.owner \notin Owners(B)
      BY <1>1, <2>11
    <3> HIDE DEF k2
    <3>2. /\ k2 \in BookT /\ SameCandidate(k1, k2) /\ BottomHolds(k2, Room(k, B) \cup {b})
          /\ k2.top = k1.top /\ k2.delegation_count = k1.delegation_count
          /\ \A U : TopHolds(k1, U) => TopHolds(k2, U)
          /\ Cardinality(Room(k, B) \cup {b}) = Cardinality(Room(k, B)) + 1
      BY <2>2, <3>1, AddBottom
    <3>3. /\ Cardinality(Room(k, B)) \in Nat
          /\ Cardinality(B) = MaxBottom => Cardinality(B) = Cardinality(Room(k, B)) + 1
          /\ Cardinality(B) # MaxBottom => Cardinality(B) = Cardinality(Room(k, B))
      BY <3>1, RoomFacts
    <3> QED BY <2>11, <3>2, <3>3
  <2>12. SameCandidate(k, k2)
    BY <2>4, <2>11 DEF SameCandidate
  <2>5. k2.delegation_count = Cardinality(T) + Cardinality(B2)
    BY <1>1, <1>2, <1>3, <2>4, <2>11
  <2>6. T # {}
    BY <1>2, <2>1, MaxFacts
  <2>7. \A e \in T : ~Below(e.stake, b.stake)
    <3>1. t \in T /\ ~Below(t.stake, b.stake) /\ \A e \in T : ~Below(e.stake, t.stake)
      BY <1>2, <2>1, <2>6
    <3> QED BY <1>7, <1>8, <3>1, BelowTrans
  <2>8. Split(T, B2)
    <3>1. R \subseteq B
      BY DEF Room
    <3>2. \A e \in T, f \in B2 : e.owner # f.owner /\ ~Below(e.stake, f.stake)
      BY <1>9, <2>7, <3>1
    <3>3. Owners(T) \cap Owners(B2) = {}
      BY <3>2 DEF Owners
    <3> QED BY <2>1, <3>2, <3>3 DEF Split
  <2>9. Good(k2, T, B2)
    BY <2>4, <2>5, <2>8 DEF Good
  <2>10. T \cup B2 = Leave(T \cup B, x) \cup {b} /\ (x # None => x \in Owners(B))
    <3>1. CASE BottomIsFull(k)
      <4>1. low \in B
        BY <1>3, <3>1, MaxFacts
      <4>2. Leave(T \cup B, x) = T \cup (B \ {low})
        BY <1>3, <1>9, <2>3, <3>1, <4>1 DEF Leave, OneEach
      <4> QED BY <2>3, <3>1, <4>1, <4>2 DEF Owners, Room
    <3>2. CASE ~BottomIsFull(k)
      <4>1. Leave(T \cup B, x) = T \cup B
        BY <1>8, <2>3, <3>2, NoneAssumption DEF Leave
      <4> QED BY <2>3, <3>2, <4>1 DEF Room
    <3> QED BY <3>1, <3>2
  <2> QED BY <2>9, <2>10, <2>12
<1>11. CASE GoesToTop(k, b) /\ Cardinality(T) # MaxTop
  <2>1. B = {} /\ ~BottomIsFull(k)
    BY <1>3, <1>9, <1>11, MaxFacts
  <2>2. ~(Len(k.top.delegations) = MaxTopDelegationsPerCandidate)
    BY <1>2, <1>11 DEF MaxTop
  <2> DEFINE D == insert_sorted_greatest_to_least(k.top, b)
             k1 == reset_top_data(k, D)
             T2 == T \cup {b}
  <2>3. k2 = [k1 EXCEPT !.delegation_count = @ + 1]
    BY <1>11, <2>2 DEF add_delegation, add_top_delegation
  <2>4. x = None
    BY <2>1 DEF KickedBy
  <2>5. Holds(D, T2) /\ D.total = Weight(T2)
    BY <1>4, HoldsInsert
  <2>6. Cardinality(T2) = Cardinality(T) + 1
    BY <1>2, <1>6, FS_AddElement
  <2>7. Cardinality(T2) <= MaxTop
    BY <1>2, <1>4, <1>11, <2>6, MaxFacts
  <2> HIDE DEF D
  <2>8. /\ k1 \in BookT /\ TopHolds(k1, T2) /\ SameCandidate(k, k1)
        /\ k1.delegation_count = k.delegation_count /\ BottomHolds(k1, B)
    BY <1>1, <2>5, <2>7, SetTop
  <2> HIDE DEF k1
  <2>9. k2 = [k1 EXCEPT !.delegation_count = k1.delegation_count + 1] /\ k1.delegation_count + 1 \in Nat
    BY <2>3, <2>8, BookParts
  <2> HIDE DEF k2, T2
  <2>10. /\ k2 \in BookT /\ TopHolds(k2, T2) /\ SameCandidate(k1, k2) /\ BottomHolds(k2, B)
         /\ k2.delegation_count = k1.delegation_count + 1
    BY <2>8, <2>9, SetCount
  <2>11. k2.delegation_count = Cardinality(T2) + Cardinality(B)
    BY <1>1, <1>2, <1>3, <2>6, <2>8, <2>10
  <2>12. Split(T2, B)
    BY <2>1 DEF Split, Owners
  <2>13. Good(k2, T2, B)
    BY <2>10, <2>11, <2>12 DEF Good
  <2>14. T2 \cup B = Leave(T \cup B, x) \cup {b}
    <3>1. Leave(T \cup B, x) = T \cup B
      BY <1>8, <2>4, NoneAssumption DEF Leave
    <3> QED BY <3>1 DEF T2
  <2>15. SameCandidate(k, k2)
    BY <2>8, <2>10 DEF SameCandidate
  <2> QED BY <2>4, <2>13, <2>14, <2>15 DEF k2
<1>12. CASE GoesToTop(k, b) /\ Cardinality(T) = MaxTop
  <2>1. Len(k.top.delegations) = MaxTopDelegationsPerCandidate /\ T # {}
    BY <1>2, <1>12, MaxFacts DEF MaxTop
  <2>2. t \in T /\ k.lowest_top_delegation = t.stake /\ Below(t.stake, b.stake)
        /\ \A e \in T : ~Below(e.stake, t.stake)
    BY <1>2, <1>12, <2>1 DEF GoesToTop
  <2>3. x = IF BottomIsFull(k) THEN low.owner ELSE None
    BY <2>1 DEF KickedBy
  <2> DEFINE k1 == add_bottom_delegation(k, TRUE, t)
             D == insert_sorted_greatest_to_least(PopLowest(k.top), b)
             k3 == reset_top_data(k1, D)
             R == Room(k, B)
             B2 == R \cup {t}
             T1 == T \ {t}
             T2 == T1 \cup {b}
  <2>4. k2 = IF k.bottom_capacity = "Full" THEN k3 ELSE [k3 EXCEPT !.delegation_count = @ + 1]
    BY <1>12, <2>1 DEF add_delegation, add_top_delegation
  <2>5. t \in BondT /\ t.owner \notin Owners(B)
    BY <1>2, <1>9, <2>2 DEF Owners
  <2>18. k1 = reset_bottom_data(k, insert_sorted_greatest_to_least(RoomOf(k), t))
    BY DEF add_bottom_delegation, RoomOf
  <2>6. /\ k1 \in BookT /\ SameCandidate(k, k1) /\ BottomHolds(k1, B2)
        /\ k1.delegation_count = k.delegation_count
        /\ Cardinality(B2) = Cardinality(R) + 1 /\ Cardinality(R) \in Nat
        /\ Cardinality(B) = MaxBottom => Cardinality(B) = Cardinality(R) + 1
        /\ Cardinality(B) # MaxBottom => Cardinality(B) = Cardinality(R)
    <3> HIDE DEF k1
    <3>1. k \in BookT /\ BottomHolds(k, B)
      BY <1>1
    <3>2. /\ k1 \in BookT /\ SameCandidate(k, k1) /\ BottomHolds(k1, Room(k, B) \cup {t})
          /\ k1.delegation_count = k.delegation_count
          /\ Cardinality(Room(k, B) \cup {t}) = Cardinality(Room(k, B)) + 1
      BY <2>5, <2>18, <3>1, AddBottom
    <3>3. /\ Cardinality(Room(k, B)) \in Nat
          /\ Cardinality(B) = MaxBottom => Cardinality(B) = Cardinality(Room(k, B)) + 1
          /\ Cardinality(B) # MaxBottom => Cardinality(B) = Cardinality(Room(k, B))
      BY <3>1, RoomFacts
    <3> QED BY <3>2, <3>3
  <2>7. Holds(PopLowest(k.top), T1) /\ PopLowest(k.top).total = Weight(T1)
    BY <1>4, <2>1, HoldsPopLowest
  <2>8. b.owner \notin Owners(T1)
    BY <1>9 DEF Owners
  <2>9. Holds(D, T2) /\ D.total = Weight(T2)
    BY <2>7, <2>8, HoldsInsert
  <2>10. Cardinality(T2) = Cardinality(T)
    <3>1. IsFiniteSet(T1) /\ Cardinality(T1) = Cardinality(T) - 1
      BY <1>2, <2>2, FS_RemoveElement
    <3>2. b \notin T1
      BY <1>6
    <3>3. Cardinality(T1 \cup {b}) = Cardinality(T1) + 1
      BY <3>1, <3>2, FS_AddElement
    <3> QED BY <1>2, <3>1, <3>3
  <2> HIDE DEF k1, D
  <2>11. /\ k3 \in BookT /\ TopHolds(k3, T2) /\ SameCandidate(k1, k3) /\ BottomHolds(k3, B2)
         /\ k3.delegation_count = k1.delegation_count
    BY <1>12, <1>4, <2>6, <2>9, <2>10, SetTop
  <2> HIDE DEF k3, k2
  <2>12. /\ k2 \in BookT /\ TopHolds(k2, T2) /\ SameCandidate(k3, k2) /\ BottomHolds(k2, B2)
         /\ Cardinality(B) = MaxBottom => k2.delegation_count = k.delegation_count
         /\ Cardinality(B) # MaxBottom => k2.delegation_count = k.delegation_count + 1
    <3>1. CASE BottomIsFull(k)
      <4>1. k2 = k3
        BY <1>3, <2>4, <3>1
      <4> QED BY <1>1, <1>3, <2>6, <2>11, <3>1, <4>1, BookParts DEF SameCandidate
    <3>2. CASE ~BottomIsFull(k)
      <4>1. k2 = [k3 EXCEPT !.delegation_count = k3.delegation_count + 1] /\ k3.delegation_count + 1 \in Nat
        BY <1>3, <2>4, <2>11, <3>2, BookParts
      <4> QED BY <1>3, <2>6, <2>11, <3>2, <4>1, SetCount
    <3> QED BY <3>1, <3>2
  <2>13. k2.delegation_count = Cardinality(T2) + Cardinality(B2)
    <3> HIDE DEF R, B2, T2
    <3>1. PICK m \in Nat, n \in Nat, r \in Nat : m = Cardinality(T) /\ n = Cardinality(B) /\ r = Cardinality(R)
      BY <1>2, <1>3, <2>6
    <3>2. k.delegation_count = m + n /\ Cardinality(T2) = m /\ Cardinality(B2) = r + 1
      BY <1>1, <2>6, <2>10, <3>1
    <3>3. CASE n = MaxBottom
      <4>1. n = r + 1 /\ k2.delegation_count = k.delegation_count
        BY <2>6, <2>12, <3>1, <3>3
      <4> QED BY <3>2, <4>1
    <3>4. CASE n # MaxBottom
      <4>1. n = r /\ k2.delegation_count = k.delegation_count + 1
        BY <2>6, <2>12, <3>1, <3>4
      <4> QED BY <3>2, <4>1
    <3> QED BY <3>3, <3>4
  <2>14. Split(T2, B2)
    <3>1. R \subseteq B
      BY DEF Room
    <3>2. t.stake \in StakeT
      BY <1>8, <2>2
    <3>3. \A e \in T1 : e.owner # t.owner
      BY <1>2, <2>2 DEF OneEach
    <3>4. \A f \in B : ~Below(b.stake, f.stake)
      <4>1. \A f \in B : ~Below(t.stake, f.stake)
        BY <1>9, <2>2
      <4> QED BY <1>7, <1>8, <2>2, <3>2, <4>1, BelowTotal, BelowTrans
    <3>5. ~Below(b.stake, t.stake) /\ b.owner # t.owner
      BY <1>7, <1>9, <2>2, <3>2, BelowTotal
    <3>6. \A e \in T2, f \in B2 : e.owner # f.owner /\ ~Below(e.stake, f.stake)
      BY <1>9, <2>2, <3>1, <3>3, <3>4, <3>5
    <3>7. Owners(T2) \cap Owners(B2) = {}
      BY <3>6 DEF Owners
    <3> QED BY <1>12, <2>10, <3>6, <3>7 DEF Split
  <2>15. Good(k2, T2, B2)
    BY <2>12, <2>13, <2>14 DEF Good
  <2>16. T2 \cup B2 = Leave(T \cup B, x) \cup {b} /\ (x # None => x \in Owners(B))
    <3>1. CASE BottomIsFull(k)
      <4>1. low \in B
        BY <1>3, <3>1, MaxFacts
      <4>2. Leave(T \cup B, x) = T \cup (B \ {low})
        BY <1>3, <1>9, <2>3, <3>1, <4>1 DEF Leave, OneEach
      <4> QED BY <2>2, <2>3, <3>1, <4>1, <4>2 DEF Owners, Room
    <3>2. CASE ~BottomIsFull(k)
      <4>1. Leave(T \cup B, x) = T \cup B
        BY <1>8, <2>3, <3>2, NoneAssumption DEF Leave
      <4> QED BY <2>2, <2>3, <3>2, <4>1 DEF Room
    <3> QED BY <3>1, <3>2
  <2>17. SameCandidate(k, k2)
    BY <2>6, <2>11, <2>12 DEF SameCandidate
  <2> QED BY <2>15, <2>16, <2>17 DEF k2
<1> QED BY <1>10, <1>11, <1>12

\* A book in which one bond less is counted.
LEMMA CountLess ==
  ASSUME NEW k \in BookT, NEW T, NEW B, TopHolds(k, T), BottomHolds(k, B), Split(T, B),
         Cardinality(T) + Cardinality(B) + 1 = k.delegation_count,
         NEW k2, k2 = [k EXCEPT !.delegation_count = @ - 1]
  PROVE  Good(k2, T, B) /\ SameCandidate(k, k2)
<1>1. Cardinality(T) \in Nat /\ Cardinality(B) \in Nat
  BY TopFacts, BottomFacts
<1>2. /\ k.delegation_count - 1 \in Nat
      /\ k.delegation_count - 1 = Cardinality(T) + Cardinality(B)
  BY <1>1
<1>3. k2 = [k EXCEPT !.delegation_count = k.delegation_count - 1]
  OBVIOUS
<1>4. /\ k2 \in BookT /\ SameCandidate(k, k2) /\ k2.delegation_count = k.delegation_count - 1
      /\ TopHolds(k2, T) /\ BottomHolds(k2, B)
  BY <1>2, <1>3, SetCount
<1> QED BY <1>2, <1>4 DEF Good

\* What Good says, in one place.
LEMMA GoodFacts ==
  ASSUME NEW k, NEW T, NEW B, Good(k, T, B)
  PROVE  /\ k \in BookT /\ TopHolds(k, T) /\ BottomHolds(k, B)
         /\ k.delegation_count = Cardinality(T) + Cardinality(B)
         /\ Holds(k.top, T) /\ Holds(k.bottom, B)
         /\ k.top.total = Weight(T) /\ k.top.total \in StakeT /\ k.bottom.total \in StakeT
         /\ T \subseteq BondT /\ IsFiniteSet(T) /\ OneEach(T) /\ Cardinality(T) \in Nat
         /\ B \subseteq BondT /\ IsFiniteSet(B) /\ OneEach(B) /\ Cardinality(B) \in Nat
         /\ Cardinality(T) <= MaxTop /\ Cardinality(B) <= MaxBottom
         /\ \A e \in T : e.stake \in StakeT /\ e.owner \in Accounts
         /\ \A e \in B : e.stake \in StakeT /\ e.owner \in Accounts
         /\ \A e \in T, f \in B : e.owner # f.owner /\ ~Below(e.stake, f.stake)
         /\ B # {} => Cardinality(T) = MaxTop
<1>1. k \in BookT /\ TopHolds(k, T) /\ BottomHolds(k, B)
      /\ k.delegation_count = Cardinality(T) + Cardinality(B)
  BY DEF Good
<1>2. /\ T \subseteq BondT /\ IsFiniteSet(T) /\ OneEach(T) /\ Cardinality(T) \in Nat
      /\ B \subseteq BondT /\ IsFiniteSet(B) /\ OneEach(B) /\ Cardinality(B) \in Nat
  BY <1>1, TopFacts, BottomFacts
<1>3. /\ Holds(k.top, T) /\ Holds(k.bottom, B)
      /\ k.top.total = Weight(T) /\ Cardinality(T) <= MaxTop /\ Cardinality(B) <= MaxBottom
  BY <1>1 DEF TopHolds, BottomHolds
<1>4. k.top.total \in StakeT /\ k.bottom.total \in StakeT
  BY <1>1, BookParts, DelegationsParts
<1>5. /\ \A e \in T : e.stake \in StakeT /\ e.owner \in Accounts
      /\ \A e \in B : e.stake \in StakeT /\ e.owner \in Accounts
  BY <1>2, DelegationsParts
<1>6. /\ \A e \in T, f \in B : e.owner # f.owner /\ ~Below(e.stake, f.stake)
      /\ B # {} => Cardinality(T) = MaxTop
  BY DEF Good, Split, Owners
<1> QED BY <1>1, <1>2, <1>3, <1>4, <1>5, <1>6

\* What makes two sets the top and the bottom of a book.
LEMMA SplitMade ==
  ASSUME NEW T, NEW B, \A e \in T, f \in B : e.owner # f.owner /\ ~Below(e.stake, f.stake),
         B # {} => Cardinality(T) = MaxTop
  PROVE  Split(T, B)
BY DEF Split, Owners

\* The bond of an owner is found.
LEMMA BondHeld ==
  ASSUME NEW D, NEW S, Holds(D, S), NEW b \in S
  PROVE  BondOf(D, b.owner) = b.stake /\ Owns(D, b.owner)
<1>1. Listing(D.delegations, S)
  BY DEF Holds
<1>2. b.owner \in Owners(S)
  BY DEF Owners
<1>3. Owns(D, b.owner)
  BY <1>1, <1>2, ListOwns
<1>4. OneEach(S) /\ ToSet(D.delegations) = S
  <2>1. OneEach(S)
    BY <1>1, ListFacts
  <2>2. S = {D.delegations[i] : i \in 1 .. Len(D.delegations)} /\ DOMAIN D.delegations = 1 .. Len(D.delegations)
    BY <1>1 DEF Listing
  <2>3. ToSet(D.delegations) = S
    BY <2>2 DEF ToSet
  <2> QED BY <2>1, <2>3
<1>5. (CHOOSE e \in S : e.owner = b.owner) = b
  BY <1>4 DEF OneEach
<1> QED BY <1>3, <1>4, <1>5 DEF BondOf

\* The top without the bond of d.
LEMMA TopWithout ==
  ASSUME NEW k, NEW T, NEW B, Good(k, T, B), NEW b \in T, NEW D,
         D = [delegations |-> Without(k.top, b.owner),
              total |-> Minus(k.top.total, BondOf(k.top, b.owner))]
  PROVE  /\ Holds(D, T \ {b}) /\ D.total = Weight(T \ {b})
         /\ Leave(T, b.owner) = T \ {b} /\ Leave(B, b.owner) = B
         /\ IsFiniteSet(T \ {b}) /\ Cardinality(T) = Cardinality(T \ {b}) + 1
         /\ Cardinality(T \ {b}) \in Nat
<1>1. /\ k \in BookT /\ Holds(k.top, T) /\ k.top.total = Weight(T) /\ k.top.total \in StakeT
      /\ T \subseteq BondT /\ IsFiniteSet(T) /\ OneEach(T) /\ b.stake \in StakeT
      /\ \A e \in T, f \in B : e.owner # f.owner
  BY GoodFacts
<1>2. BondOf(k.top, b.owner) = b.stake
  BY <1>1, BondHeld
<1>3. Minus(k.top.total, b.stake) \in StakeT
  BY <1>1, MinusParts
<1>4. /\ {e \in T : e.owner # b.owner} = T \ {b}
      /\ Weight(T \ {b}) = Minus(Weight(T), b.stake)
      /\ Cardinality(T \ {b}) = Cardinality(T) - 1
      /\ Cardinality(T) \in Nat /\ Cardinality(T) > 0
  <2>1. /\ {e \in T : e.owner # b.owner} = T \ {b}
        /\ Weight({e \in T : e.owner # b.owner}) = Minus(Weight(T), b.stake)
        /\ Cardinality({e \in T : e.owner # b.owner}) = Cardinality(T) - 1
        /\ Cardinality(T) \in Nat /\ Cardinality(T) > 0
    BY <1>1, TakeOut
  <2> QED BY <2>1
<1>5. Holds(D, {e \in T : e.owner # b.owner})
  BY <1>1, <1>2, <1>3, HoldsWithout
<1>6. D.total = Weight(T \ {b})
  BY <1>1, <1>2, <1>4
<1>7. IsFiniteSet(T \ {b})
  BY <1>1, FS_RemoveElement
<1>8. Leave(B, b.owner) = B
  BY <1>1 DEF Leave
<1>9. Cardinality(T) = Cardinality(T \ {b}) + 1 /\ Cardinality(T \ {b}) \in Nat
  BY <1>4
<1> QED BY <1>4, <1>5, <1>6, <1>7, <1>8, <1>9 DEF Leave

\* A list of bonds with its total.
Dels(ds, t) == [delegations |-> ds, total |-> t]

\* The bottom without the bond of d, with any total.
LEMMA BottomWithout ==
  ASSUME NEW k, NEW T, NEW B, Good(k, T, B), NEW b \in B, NEW t \in StakeT
  PROVE  Holds(Dels(Without(k.bottom, b.owner), t), B \ {b})
<1>1. Holds(k.bottom, B) /\ OneEach(B)
  BY GoodFacts
<1>2. {e \in B : e.owner # b.owner} = B \ {b}
  BY <1>1 DEF OneEach
<1>3. Holds(Dels(Without(k.bottom, b.owner), t), {e \in B : e.owner # b.owner})
  BY <1>1, HoldsWithout DEF Dels
<1> QED BY <1>2, <1>3

\* Only its bottom bond leaves with the owner of one.
LEMMA BottomLeave ==
  ASSUME NEW k, NEW T, NEW B, Good(k, T, B), NEW b \in B
  PROVE  Leave(B, b.owner) = B \ {b} /\ Leave(T, b.owner) = T
<1>1. /\ \A e \in T, f \in B : e.owner # f.owner
      /\ OneEach(B)
  BY GoodFacts
<1> QED BY <1>1 DEF Leave, OneEach

\* The bottom with a bond less.
LEMMA BottomCount ==
  ASSUME NEW k, NEW T, NEW B, Good(k, T, B), NEW b \in B
  PROVE  /\ IsFiniteSet(B \ {b}) /\ Cardinality(B) = Cardinality(B \ {b}) + 1
         /\ Cardinality(B \ {b}) \in Nat
<1>1. B \subseteq BondT /\ IsFiniteSet(B) /\ OneEach(B)
  BY GoodFacts
<1>2. /\ Cardinality(B \ {b}) = Cardinality(B) - 1
      /\ Cardinality(B) \in Nat /\ Cardinality(B) > 0
  <2>1. /\ {e \in B : e.owner # b.owner} = B \ {b}
        /\ Cardinality({e \in B : e.owner # b.owner}) = Cardinality(B) - 1
        /\ Cardinality(B) \in Nat /\ Cardinality(B) > 0
    BY <1>1, TakeOut
  <2> QED BY <2>1
<1>3. IsFiniteSet(B \ {b})
  BY <1>1, FS_RemoveElement
<1>4. Cardinality(B) = Cardinality(B \ {b}) + 1 /\ Cardinality(B \ {b}) \in Nat
  BY <1>2
<1> QED BY <1>3, <1>4

\* The top takes what the bottom gives up.
LEMMA RmTop ==
  ASSUME NEW k, NEW T, NEW B, Good(k, T, B), NEW b \in T
  PROVE  /\ \E T2, B2 : /\ Good(rm_top_delegation(k, b.owner), T2, B2)
                        /\ T2 \cup B2 = Leave(T \cup B, b.owner)
         /\ SameCandidate(k, rm_top_delegation(k, b.owner))
<1> DEFINE d == b.owner
           top == [delegations |-> Without(k.top, d),
                   total |-> Minus(k.top.total, BondOf(k.top, d))]
           T1 == T \ {b}
           k2 == rm_top_delegation(k, d)
<1>1. /\ k \in BookT /\ TopHolds(k, T) /\ BottomHolds(k, B)
      /\ k.delegation_count = Cardinality(T) + Cardinality(B)
      /\ Holds(k.top, T) /\ Holds(k.bottom, B)
      /\ Cardinality(T) \in Nat /\ Cardinality(B) \in Nat
      /\ Cardinality(T) <= MaxTop /\ Cardinality(B) <= MaxBottom
      /\ B \subseteq BondT /\ IsFiniteSet(B) /\ OneEach(B)
      /\ \A e \in T, f \in B : e.owner # f.owner /\ ~Below(e.stake, f.stake)
      /\ B # {} => Cardinality(T) = MaxTop
  BY GoodFacts
<1>2. /\ Holds(top, T1) /\ top.total = Weight(T1)
      /\ Leave(T, d) = T1 /\ Leave(B, d) = B
      /\ IsFiniteSet(T1) /\ Cardinality(T) = Cardinality(T1) + 1 /\ Cardinality(T1) \in Nat
  BY TopWithout
<1>3. Owns(k.top, d)
  BY <1>1, BondHeld
<1>4. k.bottom_capacity = "Empty" <=> B = {}
  BY <1>1, BottomFacts
<1>5. CASE B = {}
  <2> DEFINE k3 == reset_top_data(k, top)
  <2>1. k2 = [k3 EXCEPT !.delegation_count = @ - 1]
    BY <1>3, <1>4, <1>5 DEF rm_top_delegation
  <2> HIDE DEF top, k2
  <2>2. Cardinality(T1) <= MaxTop
    BY <1>1, <1>2, MaxFacts
  <2>3. /\ k3 \in BookT /\ TopHolds(k3, T1) /\ SameCandidate(k, k3)
        /\ k3.delegation_count = k.delegation_count /\ BottomHolds(k3, B)
    BY <1>1, <1>2, <2>2, SetTop
  <2> HIDE DEF k3
  <2>4. Split(T1, B)
    BY <1>5, SplitMade
  <2>5. Cardinality(T1) + Cardinality(B) + 1 = k3.delegation_count
    BY <1>1, <1>2, <2>3
  <2>6. Good(k2, T1, B) /\ SameCandidate(k3, k2)
    BY <2>1, <2>3, <2>4, <2>5, CountLess
  <2>7. T1 \cup B = Leave(T \cup B, d)
    BY <1>2 DEF Leave
  <2>8. SameCandidate(k, k2)
    BY <2>3, <2>6 DEF SameCandidate
  <2> QED BY <2>6, <2>7, <2>8 DEF k2
<1>6. CASE B # {}
  <2> DEFINE h == Head(k.bottom.delegations)
             B2 == B \ {h}
             T2 == T1 \cup {h}
             D == insert_sorted_greatest_to_least(top, h)
             k1 == reset_bottom_data(k, PopHighest(k.bottom))
             k3 == reset_top_data(k1, D)
  <2>1. k2 = [k3 EXCEPT !.delegation_count = @ - 1]
    BY <1>3, <1>4, <1>6 DEF rm_top_delegation
  <2> HIDE DEF top, k2
  <2>2. h \in B /\ h \in BondT /\ \A e \in B : ~Below(h.stake, e.stake)
    <3>1. h \in B /\ k.highest_bottom_delegation = h.stake /\ \A e \in B : ~Below(k.highest_bottom_delegation, e.stake)
      BY <1>1, <1>6, BottomFacts
    <3> QED BY <1>1, <3>1
  <2>3. Holds(PopHighest(k.bottom), B2)
    BY <1>1, <1>6, HoldsPopHighest
  <2>4. IsFiniteSet(B2) /\ Cardinality(B) = Cardinality(B2) + 1 /\ Cardinality(B2) \in Nat /\ Cardinality(B2) <= MaxBottom
    <3>1. IsFiniteSet(B2) /\ Cardinality(B2) = Cardinality(B) - 1
      BY <1>1, <2>2, FS_RemoveElement
    <3>2. Cardinality(B2) \in Nat
      BY <3>1, FS_CardinalityType
    <3> QED BY <1>1, <3>1, <3>2, MaxFacts
  <2>5. /\ k1 \in BookT /\ BottomHolds(k1, B2) /\ SameCandidate(k, k1)
        /\ k1.delegation_count = k.delegation_count
    BY <1>1, <2>3, <2>4, SetBottom
  <2> HIDE DEF k1
  <2>6. h.owner \notin Owners(T1) /\ h \notin T1
    BY <1>1, <2>2 DEF Owners
  <2>7. Holds(D, T2) /\ D.total = Weight(T2)
    <3>1. Holds(top, T1) /\ top.total = Weight(T1) /\ h \in BondT /\ h.owner \notin Owners(T1)
      BY <1>2, <2>2, <2>6
    <3> HIDE DEF T1, h
    <3> QED BY <3>1, HoldsInsert
  <2> HIDE DEF D
  <2>8. Cardinality(T2) = Cardinality(T)
    <3>1. Cardinality(T2) = Cardinality(T1) + 1
      BY <1>2, <2>6, FS_AddElement
    <3> QED BY <1>2, <3>1
  <2>9. /\ k3 \in BookT /\ TopHolds(k3, T2) /\ SameCandidate(k1, k3)
        /\ k3.delegation_count = k1.delegation_count /\ BottomHolds(k3, B2)
    BY <1>1, <2>5, <2>7, <2>8, SetTop
  <2> HIDE DEF k3
  <2>10. Split(T2, B2)
    <3>1. \A e \in T2, f \in B2 : e.owner # f.owner /\ ~Below(e.stake, f.stake)
      <4>1. \A f \in B2 : h.owner # f.owner
        BY <1>1, <2>2 DEF OneEach
      <4> QED BY <1>1, <2>2, <4>1
    <3>2. Cardinality(T2) = MaxTop
      BY <1>1, <1>6, <2>8
    <3> QED BY <3>1, <3>2, SplitMade
  <2>11. Cardinality(T2) + Cardinality(B2) + 1 = k3.delegation_count
    BY <1>1, <2>4, <2>5, <2>8, <2>9
  <2>12. Good(k2, T2, B2) /\ SameCandidate(k3, k2)
    BY <2>1, <2>9, <2>10, <2>11, CountLess
  <2>13. T2 \cup B2 = Leave(T \cup B, d)
    <3>1. T2 \cup B2 = T1 \cup B
      BY <2>2
    <3> QED BY <1>2, <3>1 DEF Leave
  <2>14. SameCandidate(k, k2)
    BY <2>5, <2>9, <2>12 DEF SameCandidate
  <2> QED BY <2>12, <2>13, <2>14 DEF k2
<1> QED BY <1>5, <1>6

\* rm_bottom_delegation of an owner of a bottom bond.
LEMMA RmBottom ==
  ASSUME NEW k, NEW T, NEW B, Good(k, T, B), NEW b \in B
  PROVE  /\ \E T2, B2 : /\ Good(rm_bottom_delegation(k, b.owner), T2, B2)
                        /\ T2 \cup B2 = Leave(T \cup B, b.owner)
         /\ SameCandidate(k, rm_bottom_delegation(k, b.owner))
<1> DEFINE d == b.owner
           t == Minus(k.bottom.total, BondOf(k.bottom, d))
           bottom == Dels(Without(k.bottom, d), t)
           B1 == B \ {b}
           k2 == rm_bottom_delegation(k, d)
           k3 == reset_bottom_data(k, bottom)
<1>1. /\ k \in BookT /\ TopHolds(k, T) /\ BottomHolds(k, B)
      /\ k.delegation_count = Cardinality(T) + Cardinality(B)
      /\ Holds(k.top, T) /\ Holds(k.bottom, B) /\ k.bottom.total \in StakeT
      /\ Cardinality(T) \in Nat /\ Cardinality(B) \in Nat
      /\ Cardinality(B) <= MaxBottom /\ b.stake \in StakeT
      /\ \A e \in T, f \in B : e.owner # f.owner /\ ~Below(e.stake, f.stake)
      /\ B # {} => Cardinality(T) = MaxTop
  BY GoodFacts
<1>2. BondOf(k.bottom, d) = b.stake
  BY <1>1, BondHeld
<1>3. t \in StakeT
  BY <1>1, <1>2, MinusParts
<1>4. Owns(k.bottom, d)
  BY <1>1, BondHeld
<1>5. k2 = [k3 EXCEPT !.delegation_count = @ - 1]
  BY <1>4 DEF rm_bottom_delegation, Dels
<1> HIDE DEF k2, t
<1>6. /\ Holds(bottom, B1)
      /\ Leave(B, d) = B1 /\ Leave(T, d) = T
      /\ IsFiniteSet(B1) /\ Cardinality(B) = Cardinality(B1) + 1 /\ Cardinality(B1) \in Nat
  <2>1. Holds(bottom, B1)
    BY <1>3, BottomWithout
  <2>2. Leave(B, d) = B1 /\ Leave(T, d) = T
    BY BottomLeave
  <2>3. IsFiniteSet(B1) /\ Cardinality(B) = Cardinality(B1) + 1 /\ Cardinality(B1) \in Nat
    BY BottomCount
  <2> QED BY <2>1, <2>2, <2>3
<1> HIDE DEF bottom
<1>7. Cardinality(B1) <= MaxBottom
  BY <1>1, <1>6, MaxFacts
<1>8. /\ k3 \in BookT /\ BottomHolds(k3, B1) /\ SameCandidate(k, k3) /\ TopHolds(k3, T)
      /\ k3.delegation_count = k.delegation_count
  BY <1>1, <1>6, <1>7, SetBottom
<1> HIDE DEF k3
<1>9. Split(T, B1)
  BY <1>1, SplitMade
<1>10. Cardinality(T) + Cardinality(B1) + 1 = k3.delegation_count
  BY <1>1, <1>6, <1>8
<1>11. Good(k2, T, B1) /\ SameCandidate(k3, k2)
  BY <1>5, <1>8, <1>9, <1>10, CountLess
<1>12. T \cup B1 = Leave(T \cup B, d)
  BY <1>6 DEF Leave
<1>13. SameCandidate(k, k2)
  BY <1>8, <1>11 DEF SameCandidate
<1> QED BY <1>11, <1>12, <1>13 DEF k2

\* The guess of the list is right: a bond of the top is looked for there, and
\* one of the bottom is found in the end.
LEMMA Found ==
  ASSUME NEW k, NEW T, NEW B, Good(k, T, B)
  PROVE  /\ \A b \in T : LooksInTop(k, b.stake)
         /\ \A b \in B : /\ k.top_capacity = "Full" /\ ~Owns(k.top, b.owner)
                         /\ LooksInTop(k, b.stake) => EndsMeet(k)
         /\ k.top_capacity # "Full" => B = {}
<1>1. /\ k \in BookT /\ TopHolds(k, T) /\ BottomHolds(k, B) /\ Holds(k.top, T)
      /\ \A e \in T : e.stake \in StakeT /\ e.owner \in Accounts
      /\ \A e \in B : e.stake \in StakeT /\ e.owner \in Accounts
      /\ \A e \in T, f \in B : e.owner # f.owner /\ ~Below(e.stake, f.stake)
      /\ B # {} => Cardinality(T) = MaxTop
  BY GoodFacts
<1>2. /\ k.top_capacity = "Full" <=> Cardinality(T) = MaxTop
      /\ T = {} <=> Cardinality(T) = 0
      /\ T # {} => /\ Last(k.top.delegations) \in T
                   /\ k.lowest_top_delegation = Last(k.top.delegations).stake
      /\ \A t \in T : ~Below(t.stake, k.lowest_top_delegation)
  BY <1>1, TopFacts
<1>3. /\ B # {} => /\ Head(k.bottom.delegations) \in B
                   /\ k.highest_bottom_delegation = Head(k.bottom.delegations).stake
      /\ \A b \in B : ~Below(k.highest_bottom_delegation, b.stake)
  BY <1>1, BottomFacts
<1>4. \A b \in T : LooksInTop(k, b.stake)
  BY <1>2 DEF LooksInTop
<1>5. ASSUME NEW b \in B
      PROVE  /\ k.top_capacity = "Full" /\ ~Owns(k.top, b.owner)
             /\ LooksInTop(k, b.stake) => EndsMeet(k)
  <2>1. k.top_capacity = "Full" /\ T # {}
    BY <1>1, <1>2, <1>5, MaxFacts
  <2>2. ~Owns(k.top, b.owner)
    <3>1. b.owner \notin Owners(T)
      BY <1>1, <1>5 DEF Owners
    <3> QED BY <1>1, <3>1, ListOwns DEF Holds
  <2>3. ASSUME ~Below(b.stake, k.lowest_top_delegation)
        PROVE  k.lowest_top_delegation = k.highest_bottom_delegation
    <3>1. PICK l \in T : k.lowest_top_delegation = l.stake
      BY <1>2, <2>1
    <3>2. PICK h \in B : k.highest_bottom_delegation = h.stake
      BY <1>3, <1>5
    <3>3. l.stake \in StakeT /\ h.stake \in StakeT /\ b.stake \in StakeT
      BY <1>1, <1>5, <3>1, <3>2
    <3>4. ~Below(l.stake, h.stake) /\ ~Below(h.stake, b.stake) /\ ~Below(b.stake, l.stake)
      BY <1>1, <1>3, <1>5, <2>3, <3>1, <3>2
    <3>5. l.stake = h.stake
      BY <3>3, <3>4, BelowTotal, BelowTrans
    <3> QED BY <3>1, <3>2, <3>5
  <2> QED BY <2>1, <2>2, <2>3 DEF LooksInTop, EndsMeet
<1>6. k.top_capacity # "Full" => B = {}
  BY <1>1, <1>2
<1> QED BY <1>4, <1>5, <1>6

\* A book that an operation returns is not None.
LEMMA GoodIsBook ==
  ASSUME NEW k, NEW T, NEW B, Good(k, T, B)
  PROVE  k \in BookT /\ k # None
BY BookParts DEF Good

\* rm_delegation_if_exists, for a bond that exists with that stake.
LEMMA RmGood ==
  ASSUME NEW k, NEW T, NEW B, Good(k, T, B), NEW b \in T \cup B
  PROVE  /\ \E T2, B2 : /\ Good(rm_delegation_if_exists(k, b.owner, b.stake), T2, B2)
                        /\ T2 \cup B2 = Leave(T \cup B, b.owner)
         /\ SameCandidate(k, rm_delegation_if_exists(k, b.owner, b.stake))
<1> DEFINE r == rm_delegation_if_exists(k, b.owner, b.stake)
           rt == rm_top_delegation(k, b.owner)
           rb == rm_bottom_delegation(k, b.owner)
<1>1. CASE b \in T
  <2>1. /\ \E T2, B2 : Good(rt, T2, B2) /\ T2 \cup B2 = Leave(T \cup B, b.owner)
        /\ SameCandidate(k, rt)
    BY <1>1, RmTop
  <2>2. rt # None
    BY <2>1, GoodIsBook
  <2>3. LooksInTop(k, b.stake)
    BY <1>1, Found
  <2>4. r = rt
    BY <2>2, <2>3 DEF rm_delegation_if_exists, TopElseBottom
  <2> HIDE DEF r, rt
  <2>5. /\ \E T2, B2 : Good(r, T2, B2) /\ T2 \cup B2 = Leave(T \cup B, b.owner)
        /\ SameCandidate(k, r)
    BY <2>1, <2>4
  <2> QED BY <2>5 DEF r
<1>2. CASE b \in B
  <2>1. /\ \E T2, B2 : Good(rb, T2, B2) /\ T2 \cup B2 = Leave(T \cup B, b.owner)
        /\ SameCandidate(k, rb)
    BY <1>2, RmBottom
  <2>2. /\ k.top_capacity = "Full" /\ ~Owns(k.top, b.owner)
        /\ LooksInTop(k, b.stake) => EndsMeet(k)
    BY <1>2, Found
  <2>3. rt = None
    BY <2>2 DEF rm_top_delegation
  <2>4. r = rb
    BY <2>2, <2>3 DEF rm_delegation_if_exists, TopElseBottom
  <2> HIDE DEF r, rb
  <2>5. /\ \E T2, B2 : Good(r, T2, B2) /\ T2 \cup B2 = Leave(T \cup B, b.owner)
        /\ SameCandidate(k, r)
    BY <2>1, <2>4
  <2> QED BY <2>5 DEF r
<1> QED BY <1>1, <1>2

\* More and less, in the order of stakes.
LEMMA MoreLess ==
  ASSUME NEW s \in StakeT, NEW t \in StakeT
  PROVE  /\ ~Below(Plus(s, t), s)
         /\ Within(t, s) => ~Below(s, Minus(s, t))
<1>1. s.amount \in Nat /\ s.power \in Nat /\ t.amount \in Nat /\ t.power \in Nat
  BY StakeParts
<1>2. ~Below(Plus(s, t), s)
  BY <1>1, PlusParts DEF Below
<1>3. ASSUME Within(t, s) PROVE ~Below(s, Minus(s, t))
  BY <1>1, <1>3, MinusWithin DEF Below
<1> QED BY <1>2, <1>3

\* Changing one term of a weight.
LEMMA WeightChange ==
  ASSUME NEW w \in StakeT, NEW s \in StakeT, NEW t \in StakeT, Within(s, w)
  PROVE  /\ Plus(Minus(w, s), Plus(s, t)) = Plus(w, t)
         /\ Within(t, s) => Plus(Minus(w, s), Minus(s, t)) = Minus(w, t)
<1>1. /\ s.amount \in Nat /\ s.power \in Nat /\ t.amount \in Nat /\ t.power \in Nat
      /\ w.amount \in Nat /\ w.power \in Nat /\ s.amount <= w.amount /\ s.power <= w.power
  BY StakeParts DEF Within
<1>2. Minus(w, s) \in StakeT /\ Minus(w, s).amount = w.amount - s.amount /\ Minus(w, s).power = w.power - s.power
  BY MinusParts, MinusWithin
<1>3. Plus(Minus(w, s), Plus(s, t)) = Plus(w, t)
  <2>1. /\ Plus(s, t) \in StakeT /\ Plus(s, t).amount = s.amount + t.amount
        /\ Plus(s, t).power = s.power + t.power
    BY PlusParts
  <2>2. /\ Plus(w, t) \in StakeT /\ Plus(w, t).amount = w.amount + t.amount
        /\ Plus(w, t).power = w.power + t.power
    BY PlusParts
  <2>3. /\ Plus(Minus(w, s), Plus(s, t)) \in StakeT
        /\ Plus(Minus(w, s), Plus(s, t)).amount = Minus(w, s).amount + Plus(s, t).amount
        /\ Plus(Minus(w, s), Plus(s, t)).power = Minus(w, s).power + Plus(s, t).power
    BY <1>2, <2>1, PlusParts
  <2>4. /\ Plus(Minus(w, s), Plus(s, t)).amount = Plus(w, t).amount
        /\ Plus(Minus(w, s), Plus(s, t)).power = Plus(w, t).power
    BY <1>1, <1>2, <2>1, <2>2, <2>3
  <2> QED BY <2>2, <2>3, <2>4, StakeParts
<1>4. ASSUME Within(t, s) PROVE Plus(Minus(w, s), Minus(s, t)) = Minus(w, t)
  <2>1. /\ Minus(s, t) \in StakeT /\ Minus(s, t).amount = s.amount - t.amount
        /\ Minus(s, t).power = s.power - t.power
    BY <1>4, MinusParts, MinusWithin
  <2>2. t.amount <= s.amount /\ t.power <= s.power
    BY <1>4 DEF Within
  <2>3. Within(t, w)
    BY <1>1, <2>2 DEF Within
  <2>4. /\ Minus(w, t) \in StakeT /\ Minus(w, t).amount = w.amount - t.amount
        /\ Minus(w, t).power = w.power - t.power
    BY <2>3, MinusParts, MinusWithin
  <2>5. /\ Plus(Minus(w, s), Minus(s, t)) \in StakeT
        /\ Plus(Minus(w, s), Minus(s, t)).amount = Minus(w, s).amount + Minus(s, t).amount
        /\ Plus(Minus(w, s), Minus(s, t)).power = Minus(w, s).power + Minus(s, t).power
    BY <1>2, <2>1, PlusParts
  <2>6. /\ Plus(Minus(w, s), Minus(s, t)).amount = Minus(w, t).amount
        /\ Plus(Minus(w, s), Minus(s, t)).power = Minus(w, t).power
    BY <1>1, <1>2, <2>1, <2>2, <2>4, <2>5
  <2> QED BY <2>4, <2>5, <2>6, StakeParts
<1> QED BY <1>3, <1>4

\* What an operation makes of the bond b: a good book of the same candidate in
\* which b's owner has the stake s.
Rebonded(k, T, B, b, s, k2) ==
  /\ \E T2, B2 : Good(k2, T2, B2) /\ T2 \cup B2 = Leave(T \cup B, b.owner) \cup {Bond(b.owner, s)}
  /\ SameCandidate(k, k2)

\* A bond of the top replaced by another of its owner.
LEMMA TopRebond ==
  ASSUME NEW k, NEW T, NEW B, Good(k, T, B), NEW b \in T, NEW s \in StakeT, NEW t,
         t = Plus(Minus(Weight(T), b.stake), s), NEW k2,
         k2 = reset_top_data(k, Dels(sort_greatest_to_least(Rebond(k.top, b.owner, s)), t)),
         \A f \in B : ~Below(s, f.stake)
  PROVE  Rebonded(k, T, B, b, s, k2)
<1> DEFINE n == Bond(b.owner, s)
           D == Dels(sort_greatest_to_least(Rebond(k.top, b.owner, s)), t)
           T2 == (T \ {b}) \cup {n}
<1>1. /\ k \in BookT /\ TopHolds(k, T) /\ BottomHolds(k, B)
      /\ k.delegation_count = Cardinality(T) + Cardinality(B)
      /\ Holds(k.top, T) /\ T \subseteq BondT /\ IsFiniteSet(T) /\ OneEach(T)
      /\ b.stake \in StakeT /\ b.owner \in Accounts
      /\ Cardinality(T) <= MaxTop
      /\ \A e \in T, f \in B : e.owner # f.owner /\ ~Below(e.stake, f.stake)
      /\ B # {} => Cardinality(T) = MaxTop
  BY GoodFacts
<1>2. n \in BondT /\ n.owner = b.owner /\ n.stake = s
  BY <1>1, BondParts
<1>3. {e \in T : e.owner # b.owner} = T \ {b}
  BY <1>1 DEF OneEach
<1>4. Weight(T2) = Plus(Minus(Weight(T), b.stake), s) /\ Cardinality(T2) = Cardinality(T)
  <2>1. /\ Weight({e \in T : e.owner # b.owner} \cup {n}) = Plus(Minus(Weight(T), b.stake), s)
        /\ Cardinality({e \in T : e.owner # b.owner} \cup {n}) = Cardinality(T)
    BY <1>1, Replace
  <2> QED BY <1>3, <2>1
<1>5. t \in StakeT
  <2>1. Weight(T) \in StakeT
    BY <1>1, WeightType
  <2>2. Minus(Weight(T), b.stake) \in StakeT
    BY <1>1, <2>1, MinusParts
  <2> QED BY <2>2, PlusParts
<1>6. b.owner \in Owners(T)
  BY DEF Owners
<1>7. Holds(D, {e \in T : e.owner # b.owner} \cup {n})
  BY <1>1, <1>5, <1>6, HoldsRebond DEF Dels
<1>8. Holds(D, T2) /\ D.total = Weight(T2)
  BY <1>3, <1>4, <1>7 DEF Dels
<1>0. k2 = reset_top_data(k, D)
  OBVIOUS
<1> HIDE DEF T2, D
<1>9. /\ k2 \in BookT /\ TopHolds(k2, T2) /\ SameCandidate(k, k2)
      /\ k2.delegation_count = k.delegation_count /\ BottomHolds(k2, B)
  BY <1>1, <1>4, <1>8, <1>0, SetTop
<1>10. Split(T2, B)
  <2>1. \A e \in T2, f \in B : e.owner # f.owner /\ ~Below(e.stake, f.stake)
    BY <1>1, <1>2 DEF T2
  <2>2. B # {} => Cardinality(T2) = MaxTop
    BY <1>1, <1>4
  <2> QED BY <2>1, <2>2, SplitMade
<1>11. Good(k2, T2, B)
  BY <1>1, <1>4, <1>9, <1>10 DEF Good
<1>12. T2 \cup B = Leave(T \cup B, b.owner) \cup {n}
  <2>1. Leave(T \cup B, b.owner) = (T \ {b}) \cup B
    BY <1>1, <1>3 DEF Leave
  <2> QED BY <2>1 DEF T2
<1> QED BY <1>9, <1>11, <1>12 DEF Rebonded

\* A bottom bond that changes and stays in the bottom.
LEMMA BottomRebond ==
  ASSUME NEW k, NEW T, NEW B, Good(k, T, B), NEW b \in B, NEW s \in StakeT, NEW t \in StakeT, NEW k2,
         k2 = reset_bottom_data(k, Dels(sort_greatest_to_least(Rebond(k.bottom, b.owner, s)), t)),
         \A e \in T : ~Below(e.stake, s)
  PROVE  Rebonded(k, T, B, b, s, k2)
<1> DEFINE n == Bond(b.owner, s)
           D == Dels(sort_greatest_to_least(Rebond(k.bottom, b.owner, s)), t)
           B2 == (B \ {b}) \cup {n}
<1>1. /\ k \in BookT /\ TopHolds(k, T) /\ BottomHolds(k, B)
      /\ k.delegation_count = Cardinality(T) + Cardinality(B)
      /\ Holds(k.bottom, B) /\ B \subseteq BondT /\ IsFiniteSet(B) /\ OneEach(B)
      /\ b.stake \in StakeT /\ b.owner \in Accounts
      /\ Cardinality(B) <= MaxBottom
      /\ \A e \in T, f \in B : e.owner # f.owner /\ ~Below(e.stake, f.stake)
      /\ B # {} => Cardinality(T) = MaxTop
  BY GoodFacts
<1>2. n \in BondT /\ n.owner = b.owner /\ n.stake = s
  BY <1>1, BondParts
<1>3. {e \in B : e.owner # b.owner} = B \ {b}
  BY <1>1 DEF OneEach
<1>4. Cardinality(B2) = Cardinality(B)
  <2>1. Cardinality({e \in B : e.owner # b.owner} \cup {n}) = Cardinality(B)
    BY <1>1, Replace
  <2> QED BY <1>3, <2>1
<1>6. b.owner \in Owners(B)
  BY DEF Owners
<1>7. Holds(D, {e \in B : e.owner # b.owner} \cup {n})
  BY <1>1, <1>6, HoldsRebond DEF Dels
<1>8. Holds(D, B2)
  BY <1>3, <1>7
<1>0. k2 = reset_bottom_data(k, D)
  OBVIOUS
<1> HIDE DEF B2, D
<1>9. /\ k2 \in BookT /\ BottomHolds(k2, B2) /\ SameCandidate(k, k2)
      /\ k2.delegation_count = k.delegation_count /\ TopHolds(k2, T)
  BY <1>1, <1>4, <1>8, <1>0, SetBottom
<1>10. Split(T, B2)
  <2>1. \A e \in T, f \in B2 : e.owner # f.owner /\ ~Below(e.stake, f.stake)
    BY <1>1, <1>2 DEF B2
  <2>2. Cardinality(T) = MaxTop
    BY <1>1
  <2> QED BY <2>1, <2>2, SplitMade
<1>11. Good(k2, T, B2)
  BY <1>1, <1>4, <1>9, <1>10 DEF Good
<1>12. T \cup B2 = Leave(T \cup B, b.owner) \cup {n}
  <2>1. Leave(T \cup B, b.owner) = T \cup (B \ {b})
    BY <1>1, <1>3 DEF Leave
  <2> QED BY <2>1 DEF B2
<1> QED BY <1>9, <1>11, <1>12 DEF Rebonded

\* One bond of a set replaced by a new one.
LEMMA SwapCard ==
  ASSUME NEW S, IsFiniteSet(S), NEW x \in S, NEW y, y \notin S \ {x}
  PROVE  Cardinality((S \ {x}) \cup {y}) = Cardinality(S)
<1>1. IsFiniteSet(S \ {x}) /\ Cardinality(S \ {x}) = Cardinality(S) - 1
  BY FS_RemoveElement
<1>2. Cardinality((S \ {x}) \cup {y}) = Cardinality(S \ {x}) + 1
  BY <1>1, FS_AddElement
<1>3. Cardinality(S) \in Nat
  BY FS_CardinalityType
<1> QED BY <1>1, <1>2, <1>3

\* A bond of the bottom that has become greater than the least of the top
\* changes places with it.
LEMMA BottomUp ==
  ASSUME NEW k, NEW T, NEW B, Good(k, T, B), NEW b \in B, NEW s \in StakeT, NEW u \in StakeT,
         Below(k.lowest_top_delegation, s), NEW k2, NEW rest,
         rest = Dels(Without(k.bottom, b.owner), u),
         k2 = reset_bottom_data(
                reset_top_data(k, insert_sorted_greatest_to_least(PopLowest(k.top), Bond(b.owner, s))),
                insert_sorted_greatest_to_least(rest, Last(k.top.delegations)))
  PROVE  Rebonded(k, T, B, b, s, k2)
<1> DEFINE n == Bond(b.owner, s)
           t == Last(k.top.delegations)
           T1 == T \ {t}
           B1 == B \ {b}
           T2 == T1 \cup {n}
           B2 == B1 \cup {t}
           top == insert_sorted_greatest_to_least(PopLowest(k.top), n)
           bottom == insert_sorted_greatest_to_least(rest, t)
           k1 == reset_top_data(k, top)
<1>1. /\ k \in BookT /\ TopHolds(k, T) /\ BottomHolds(k, B)
      /\ k.delegation_count = Cardinality(T) + Cardinality(B)
      /\ Holds(k.top, T) /\ T \subseteq BondT /\ IsFiniteSet(T) /\ OneEach(T)
      /\ k.top.total = Weight(T)
      /\ B \subseteq BondT /\ IsFiniteSet(B) /\ OneEach(B)
      /\ b.stake \in StakeT /\ b.owner \in Accounts
      /\ Cardinality(T) <= MaxTop /\ Cardinality(B) <= MaxBottom
      /\ \A e \in T, f \in B : e.owner # f.owner /\ ~Below(e.stake, f.stake)
      /\ \A e \in T : e.stake \in StakeT
      /\ \A e \in B : e.stake \in StakeT
      /\ Cardinality(T) = MaxTop
  BY GoodFacts
<1>2. n \in BondT /\ n.owner = b.owner /\ n.stake = s
  BY <1>1, BondParts
<1>3. /\ t \in T /\ k.lowest_top_delegation = t.stake /\ T # {}
      /\ \A e \in T : ~Below(e.stake, t.stake)
  <2>1. T # {}
    BY <1>1, MaxFacts, FS_EmptySet
  <2> QED BY <1>1, <2>1, TopFacts
<1>4. Below(t.stake, s) /\ t.stake \in StakeT /\ t \in BondT
  BY <1>1, <1>3
<1>5. Holds(PopLowest(k.top), T1) /\ PopLowest(k.top).total = Weight(T1)
  BY <1>1, <1>3, HoldsPopLowest
<1>6. /\ Holds(rest, B1) /\ Leave(B, b.owner) = B1 /\ Leave(T, b.owner) = T
  <2>1. Holds(rest, B1)
    BY BottomWithout
  <2>2. Leave(B, b.owner) = B1 /\ Leave(T, b.owner) = T
    BY BottomLeave
  <2> QED BY <2>1, <2>2
<1>7. n.owner \notin Owners(T1) /\ n \notin T1
  BY <1>1, <1>2 DEF Owners
<1>8. t.owner \notin Owners(B1) /\ t \notin B1
  BY <1>1, <1>3 DEF Owners
<1>9. Holds(top, T2) /\ top.total = Weight(T2)
  <2> HIDE DEF n, T1
  <2> QED BY <1>2, <1>5, <1>7, HoldsInsert
<1>10. Holds(bottom, B2)
  <2> HIDE DEF t, B1
  <2> QED BY <1>4, <1>6, <1>8, HoldsInsert
<1>11. k2 = reset_bottom_data(k1, bottom)
  OBVIOUS
<1> HIDE DEF top, bottom, n, t
<1>12. Cardinality(T2) = Cardinality(T) /\ Cardinality(B2) = Cardinality(B)
  BY <1>1, <1>3, <1>7, <1>8, SwapCard
<1>13. \A e \in T2, f \in B2 : e.owner # f.owner /\ ~Below(e.stake, f.stake)
  <2>1. \A e \in T1 : e.owner # t.owner
    BY <1>1, <1>3 DEF OneEach
  <2>2. \A f \in B1 : f.owner # n.owner
    BY <1>1, <1>2 DEF OneEach
  <2>3. n.owner # t.owner
    BY <1>1, <1>2, <1>3
  <2>4. \A f \in B1 : ~Below(n.stake, f.stake)
    <3>1. \A f \in B1 : ~Below(t.stake, f.stake) /\ f.stake \in StakeT
      BY <1>1, <1>3
    <3> QED BY <1>2, <1>4, <3>1, BelowTotal, BelowTrans
  <2>5. ~Below(n.stake, t.stake)
    BY <1>2, <1>4, BelowTotal
  <2> QED BY <1>1, <1>3, <2>1, <2>2, <2>3, <2>4, <2>5
<1> HIDE DEF T2, B2
<1>14. /\ k1 \in BookT /\ TopHolds(k1, T2) /\ SameCandidate(k, k1)
       /\ k1.delegation_count = k.delegation_count
  BY <1>1, <1>9, <1>12, SetTop
<1> HIDE DEF k1
<1>15. /\ k2 \in BookT /\ BottomHolds(k2, B2) /\ SameCandidate(k1, k2)
       /\ k2.delegation_count = k1.delegation_count /\ TopHolds(k2, T2)
  BY <1>1, <1>10, <1>11, <1>12, <1>14, SetBottom
<1>16. Split(T2, B2)
  BY <1>1, <1>12, <1>13, SplitMade
<1>17. Good(k2, T2, B2)
  BY <1>1, <1>12, <1>14, <1>15, <1>16 DEF Good
<1>18. T2 \cup B2 = Leave(T \cup B, b.owner) \cup {n}
  <2>1. Leave(T \cup B, b.owner) = T \cup B1
    BY <1>6 DEF Leave
  <2> QED BY <1>3, <2>1 DEF T2, B2
<1>19. SameCandidate(k, k2)
  BY <1>14, <1>15 DEF SameCandidate
<1> QED BY <1>17, <1>18, <1>19 DEF n, Rebonded

\* A bond of the top that has become less than the greatest of the bottom
\* changes places with it.
LEMMA TopDown ==
  ASSUME NEW k, NEW T, NEW B, Good(k, T, B), B # {}, NEW b \in T, NEW s \in StakeT,
         Below(s, k.highest_bottom_delegation), NEW k2, NEW rest,
         rest = [delegations |-> Without(k.top, b.owner),
                 total |-> Minus(k.top.total, BondOf(k.top, b.owner))],
         k2 = reset_top_data(
                reset_bottom_data(k, insert_sorted_greatest_to_least(PopHighest(k.bottom), Bond(b.owner, s))),
                insert_sorted_greatest_to_least(rest, Head(k.bottom.delegations)))
  PROVE  Rebonded(k, T, B, b, s, k2)
<1> DEFINE n == Bond(b.owner, s)
           h == Head(k.bottom.delegations)
           T1 == T \ {b}
           B1 == B \ {h}
           T2 == T1 \cup {h}
           B2 == B1 \cup {n}
           bottom == insert_sorted_greatest_to_least(PopHighest(k.bottom), n)
           top == insert_sorted_greatest_to_least(rest, h)
           k1 == reset_bottom_data(k, bottom)
<1>1. /\ k \in BookT /\ TopHolds(k, T) /\ BottomHolds(k, B)
      /\ k.delegation_count = Cardinality(T) + Cardinality(B)
      /\ Holds(k.bottom, B) /\ T \subseteq BondT /\ IsFiniteSet(T) /\ OneEach(T)
      /\ B \subseteq BondT /\ IsFiniteSet(B) /\ OneEach(B)
      /\ b.stake \in StakeT /\ b.owner \in Accounts
      /\ Cardinality(T) <= MaxTop /\ Cardinality(B) <= MaxBottom
      /\ \A e \in T, f \in B : e.owner # f.owner /\ ~Below(e.stake, f.stake)
      /\ \A e \in T : e.stake \in StakeT
      /\ \A e \in B : e.stake \in StakeT
      /\ Cardinality(T) = MaxTop
  BY GoodFacts
<1>2. n \in BondT /\ n.owner = b.owner /\ n.stake = s
  BY <1>1, BondParts
<1>3. /\ h \in B /\ k.highest_bottom_delegation = h.stake
      /\ \A e \in B : ~Below(h.stake, e.stake)
  <2>1. /\ h \in B /\ k.highest_bottom_delegation = h.stake
        /\ \A e \in B : ~Below(k.highest_bottom_delegation, e.stake)
    BY <1>1, BottomFacts
  <2> QED BY <2>1
<1>4. Below(s, h.stake) /\ h.stake \in StakeT /\ h \in BondT
  BY <1>1, <1>3
<1>5. Holds(PopHighest(k.bottom), B1)
  BY <1>1, HoldsPopHighest
<1>6. /\ Holds(rest, T1) /\ rest.total = Weight(T1)
      /\ Leave(T, b.owner) = T1 /\ Leave(B, b.owner) = B
  BY TopWithout
<1>7. h.owner \notin Owners(T1) /\ h \notin T1
  BY <1>1, <1>3 DEF Owners
<1>8. n.owner \notin Owners(B1) /\ n \notin B1
  BY <1>1, <1>2 DEF Owners
<1>9. Holds(top, T2) /\ top.total = Weight(T2)
  <2> HIDE DEF h, T1
  <2> QED BY <1>4, <1>6, <1>7, HoldsInsert
<1>10. Holds(bottom, B2)
  <2> HIDE DEF n, B1
  <2> QED BY <1>2, <1>5, <1>8, HoldsInsert
<1>11. k2 = reset_top_data(k1, top)
  OBVIOUS
<1> HIDE DEF top, bottom, n, h
<1>12. Cardinality(T2) = Cardinality(T) /\ Cardinality(B2) = Cardinality(B)
  BY <1>1, <1>3, <1>7, <1>8, SwapCard
<1>13. \A e \in T2, f \in B2 : e.owner # f.owner /\ ~Below(e.stake, f.stake)
  <2>1. \A e \in T1 : e.owner # n.owner
    BY <1>1, <1>2 DEF OneEach
  <2>2. \A f \in B1 : f.owner # h.owner
    BY <1>1, <1>3 DEF OneEach
  <2>3. n.owner # h.owner
    BY <1>1, <1>2, <1>3
  <2>4. \A e \in T1 : ~Below(e.stake, n.stake)
    <3>1. \A e \in T1 : ~Below(e.stake, h.stake) /\ e.stake \in StakeT
      BY <1>1, <1>3
    <3> QED BY <1>2, <1>4, <3>1, BelowTotal, BelowTrans
  <2>5. ~Below(h.stake, n.stake)
    BY <1>2, <1>4, BelowTotal
  <2> QED BY <1>1, <1>3, <2>1, <2>2, <2>3, <2>4, <2>5
<1> HIDE DEF T2, B2
<1>14. /\ k1 \in BookT /\ BottomHolds(k1, B2) /\ SameCandidate(k, k1)
       /\ k1.delegation_count = k.delegation_count
  BY <1>1, <1>10, <1>12, SetBottom
<1> HIDE DEF k1
<1>15. /\ k2 \in BookT /\ BottomHolds(k2, B2) /\ SameCandidate(k1, k2)
       /\ k2.delegation_count = k1.delegation_count /\ TopHolds(k2, T2)
  BY <1>1, <1>9, <1>11, <1>12, <1>14, SetTop
<1>16. Split(T2, B2)
  BY <1>1, <1>12, <1>13, SplitMade
<1>17. Good(k2, T2, B2)
  BY <1>1, <1>12, <1>14, <1>15, <1>16 DEF Good
<1>18. T2 \cup B2 = Leave(T \cup B, b.owner) \cup {n}
  <2>1. Leave(T \cup B, b.owner) = T1 \cup B
    BY <1>6 DEF Leave
  <2> QED BY <1>3, <2>1 DEF T2, B2
<1>19. SameCandidate(k, k2)
  BY <1>14, <1>15 DEF SameCandidate
<1> QED BY <1>17, <1>18, <1>19 DEF n, Rebonded

\* A bond of a set is within its weight.
LEMMA WeightWithin ==
  ASSUME NEW T, T \subseteq BondT, IsFiniteSet(T), NEW b \in T
  PROVE  Weight(T) \in StakeT /\ Within(b.stake, Weight(T)) /\ b.stake \in StakeT
<1> DEFINE f == [e \in T |-> e.stake]
<1>1. \A e \in T : f[e] = e.stake /\ f[e] \in StakeT
  BY DelegationsParts
<1> HIDE DEF f
<1>2. SumOver(f, T) \in StakeT /\ \A e \in T : Within(f[e], SumOver(f, T))
  BY <1>1, SumOverType
<1> QED BY <1>1, <1>2 DEF Weight, f

\* increase_top_delegation of a top bond.
LEMMA IncTop ==
  ASSUME NEW k, NEW T, NEW B, Good(k, T, B), NEW b \in T, NEW more \in StakeT
  PROVE  Rebonded(k, T, B, b, Plus(b.stake, more), increase_top_delegation(k, b.owner, more))
<1> DEFINE s == Plus(b.stake, more)
           t == Plus(k.top.total, more)
           D == Dels(sort_greatest_to_least(Rebond(k.top, b.owner, s)), t)
           k2 == increase_top_delegation(k, b.owner, more)
<1>1. /\ Holds(k.top, T) /\ T \subseteq BondT /\ IsFiniteSet(T) /\ k.top.total = Weight(T)
      /\ \A f \in B : f.stake \in StakeT /\ ~Below(b.stake, f.stake)
  BY GoodFacts
<1>2. BondOf(k.top, b.owner) = b.stake /\ Owns(k.top, b.owner)
  BY <1>1, BondHeld
<1>3. Weight(T) \in StakeT /\ Within(b.stake, Weight(T)) /\ b.stake \in StakeT
  BY <1>1, WeightWithin
<1>4. s \in StakeT /\ ~Below(s, b.stake)
  BY <1>3, PlusParts, MoreLess
<1>5. k2 = reset_top_data(k, D)
  BY <1>2 DEF increase_top_delegation, Dels
<1>6. t = Plus(Minus(Weight(T), b.stake), s)
  BY <1>1, <1>3, WeightChange
<1>7. \A f \in B : ~Below(s, f.stake)
  BY <1>1, <1>3, <1>4, BelowTrans, BelowTotal
<1> HIDE DEF s, t, k2
<1>8. Rebonded(k, T, B, b, s, k2)
  BY <1>4, <1>5, <1>6, <1>7, TopRebond
<1> QED BY <1>8 DEF s, k2

\* increase_bottom_delegation of a bottom bond, which may take it to the top.
LEMMA IncBottom ==
  ASSUME NEW k, NEW T, NEW B, Good(k, T, B), NEW b \in B, NEW more \in StakeT
  PROVE  Rebonded(k, T, B, b, Plus(b.stake, more),
                  increase_bottom_delegation(k, b.owner, b.stake, more))
<1> DEFINE s == Plus(b.stake, more)
           k2 == increase_bottom_delegation(k, b.owner, b.stake, more)
           rest == Dels(Without(k.bottom, b.owner), Minus(k.bottom.total, b.stake))
           D == Dels(sort_greatest_to_least(Rebond(k.bottom, b.owner, s)), Plus(k.bottom.total, more))
<1>1. /\ k \in BookT /\ TopHolds(k, T) /\ Holds(k.bottom, B) /\ Cardinality(T) = MaxTop
      /\ k.bottom.total \in StakeT /\ b.stake \in StakeT
      /\ \A e \in T : e.stake \in StakeT /\ ~Below(e.stake, b.stake)
  BY GoodFacts
<1>2. BondOf(k.bottom, b.owner) = b.stake /\ Owns(k.bottom, b.owner)
  BY <1>1, BondHeld
<1>3. /\ top_capacity(k.top) = "Full" /\ k.lowest_top_delegation \in StakeT
      /\ \A e \in T : ~Below(e.stake, k.lowest_top_delegation)
  <2>1. /\ k.top_capacity = "Full" <=> Cardinality(T) = MaxTop
        /\ \A e \in T : ~Below(e.stake, k.lowest_top_delegation)
    BY <1>1, TopFacts
  <2>2. k.top_capacity = top_capacity(k.top)
    BY <1>1 DEF TopHolds
  <2> QED BY <1>1, <2>1, <2>2, BookParts
<1>4. s \in StakeT /\ Minus(k.bottom.total, b.stake) \in StakeT /\ Plus(k.bottom.total, more) \in StakeT
  BY <1>1, PlusParts, MinusParts
<1>5. CASE Below(k.lowest_top_delegation, s)
  <2>1. k2 = reset_bottom_data(
               reset_top_data(k, insert_sorted_greatest_to_least(PopLowest(k.top), Bond(b.owner, s))),
               insert_sorted_greatest_to_least(rest, Last(k.top.delegations)))
    BY <1>2, <1>3, <1>5 DEF increase_bottom_delegation, Dels
  <2> HIDE DEF k2, s
  <2>2. Rebonded(k, T, B, b, s, k2)
    BY <1>4, <1>5, <2>1, BottomUp
  <2> QED BY <2>2 DEF k2, s
<1>6. CASE ~Below(k.lowest_top_delegation, s)
  <2>1. k2 = reset_bottom_data(k, D)
    BY <1>2, <1>6 DEF increase_bottom_delegation, Dels
  <2>2. \A e \in T : ~Below(e.stake, s)
    BY <1>1, <1>3, <1>4, <1>6, BelowTrans
  <2> HIDE DEF k2, s
  <2>3. Rebonded(k, T, B, b, s, k2)
    BY <1>4, <2>1, <2>2, BottomRebond
  <2> QED BY <2>3 DEF k2, s
<1> QED BY <1>5, <1>6

\* increase_delegation, for a bond that exists with that stake.
LEMMA IncGood ==
  ASSUME NEW k, NEW T, NEW B, Good(k, T, B), NEW b \in T \cup B, NEW more \in StakeT
  PROVE  Rebonded(k, T, B, b, Plus(b.stake, more), increase_delegation(k, b.owner, b.stake, more))
<1> DEFINE rt == increase_top_delegation(k, b.owner, more)
           rb == increase_bottom_delegation(k, b.owner, b.stake, more)
           r == increase_delegation(k, b.owner, b.stake, more)
           s == Plus(b.stake, more)
<1>1. CASE b \in T
  <2>1. Rebonded(k, T, B, b, s, rt)
    BY <1>1, IncTop
  <2>2. rt # None
    BY <2>1, GoodIsBook DEF Rebonded
  <2>3. LooksInTop(k, b.stake)
    BY <1>1, Found
  <2>4. r = rt
    BY <2>2, <2>3 DEF increase_delegation, TopElseBottom
  <2> QED BY <2>1, <2>4
<1>2. CASE b \in B
  <2>1. Rebonded(k, T, B, b, s, rb)
    BY <1>2, IncBottom
  <2>2. ~Owns(k.top, b.owner) /\ (LooksInTop(k, b.stake) => EndsMeet(k))
    BY <1>2, Found
  <2>3. rt = None
    BY <2>2 DEF increase_top_delegation
  <2>4. r = rb
    BY <2>2, <2>3 DEF increase_delegation, TopElseBottom
  <2> QED BY <2>1, <2>4
<1> QED BY <1>1, <1>2

\* decrease_top_delegation of a top bond, which may take it to the bottom.
LEMMA DecTop ==
  ASSUME NEW k, NEW T, NEW B, Good(k, T, B), NEW b \in T, NEW less \in StakeT,
         Within(less, b.stake)
  PROVE  Rebonded(k, T, B, b, Minus(b.stake, less),
                  decrease_top_delegation(k, b.owner, b.stake, less))
<1> DEFINE s == Minus(b.stake, less)
           t == Minus(k.top.total, less)
           rest == [delegations |-> Without(k.top, b.owner),
                    total |-> Minus(k.top.total, BondOf(k.top, b.owner))]
           k2 == decrease_top_delegation(k, b.owner, b.stake, less)
           swap == /\ Below(s, k.highest_bottom_delegation)
                   /\ k.top_capacity = "Full" /\ k.bottom_capacity # "Empty"
<1>1. /\ k \in BookT /\ TopHolds(k, T) /\ BottomHolds(k, B)
      /\ Holds(k.top, T) /\ T \subseteq BondT /\ IsFiniteSet(T) /\ k.top.total = Weight(T)
      /\ \A f \in B : f.stake \in StakeT /\ ~Below(b.stake, f.stake)
      /\ B # {} => Cardinality(T) = MaxTop
  BY GoodFacts
<1>2. BondOf(k.top, b.owner) = b.stake /\ Owns(k.top, b.owner)
  BY <1>1, BondHeld
<1>3. Weight(T) \in StakeT /\ Within(b.stake, Weight(T)) /\ b.stake \in StakeT
  BY <1>1, WeightWithin
<1>4. s \in StakeT
  BY <1>3, MinusParts
<1>5. t = Plus(Minus(Weight(T), b.stake), s)
  BY <1>1, <1>3, WeightChange
<1>6. B # {} => k.top_capacity = "Full" /\ k.bottom_capacity # "Empty"
  <2>1. k.top_capacity = "Full" <=> Cardinality(T) = MaxTop
    BY <1>1, TopFacts
  <2>2. k.bottom_capacity = "Empty" <=> B = {}
    BY <1>1, BottomFacts
  <2> QED BY <1>1, <2>1, <2>2
<1>7. B # {} => /\ k.highest_bottom_delegation \in StakeT
                /\ \A f \in B : ~Below(k.highest_bottom_delegation, f.stake)
  BY <1>1, BottomFacts, BookParts
<1>8. CASE swap
  <2>1. k2 = reset_top_data(
               reset_bottom_data(k, insert_sorted_greatest_to_least(PopHighest(k.bottom), Bond(b.owner, s))),
               insert_sorted_greatest_to_least(rest, Head(k.bottom.delegations)))
    BY <1>2, <1>8 DEF decrease_top_delegation
  <2>2. B # {}
    BY <1>1, <1>8, BottomFacts
  <2>3. Below(s, k.highest_bottom_delegation)
    BY <1>8
  <2> HIDE DEF k2, s
  <2>4. Rebonded(k, T, B, b, s, k2)
    BY <1>4, <2>1, <2>2, <2>3, TopDown
  <2> QED BY <2>4 DEF k2, s
<1>9. CASE ~swap
  <2>1. k2 = reset_top_data(k, Dels(sort_greatest_to_least(Rebond(k.top, b.owner, s)), t))
    BY <1>2, <1>9 DEF decrease_top_delegation, Dels
  <2>2. \A f \in B : ~Below(s, f.stake)
    BY <1>1, <1>4, <1>6, <1>7, <1>9, BelowTrans
  <2> HIDE DEF k2, s, t
  <2>3. Rebonded(k, T, B, b, s, k2)
    BY <1>4, <1>5, <2>1, <2>2, TopRebond
  <2> QED BY <2>3 DEF k2, s
<1> HIDE DEF swap
<1> QED BY <1>8, <1>9

\* decrease_bottom_delegation of a bottom bond.
LEMMA DecBottom ==
  ASSUME NEW k, NEW T, NEW B, Good(k, T, B), NEW b \in B, NEW less \in StakeT,
         Within(less, b.stake)
  PROVE  Rebonded(k, T, B, b, Minus(b.stake, less),
                  decrease_bottom_delegation(k, b.owner, less))
<1> DEFINE s == Minus(b.stake, less)
           k2 == decrease_bottom_delegation(k, b.owner, less)
           t == k.bottom.total
<1>1. /\ k \in BookT /\ Holds(k.bottom, B)
      /\ t \in StakeT /\ b.stake \in StakeT
      /\ \A e \in T : e.stake \in StakeT /\ ~Below(e.stake, b.stake)
  BY GoodFacts
<1>2. BondOf(k.bottom, b.owner) = b.stake /\ Owns(k.bottom, b.owner)
  BY <1>1, BondHeld
<1>3. s \in StakeT /\ ~Below(b.stake, s)
  BY <1>1, MinusParts, MoreLess
<1>4. \A e \in T : ~Below(e.stake, s)
  BY <1>1, <1>3, BelowTrans
<1>5. k2 = reset_bottom_data(k, Dels(sort_greatest_to_least(Rebond(k.bottom, b.owner, s)), t))
  <2>1. k.bottom = [delegations |-> k.bottom.delegations, total |-> t]
    BY <1>1, BookParts, DelegationsParts DEF DelegationsT
  <2>2. \A X : [k.bottom EXCEPT !.delegations = X] = Dels(X, t)
    BY <2>1 DEF Dels
  <2> QED BY <1>2, <2>2 DEF decrease_bottom_delegation
<1> HIDE DEF k2, s, t
<1>6. Rebonded(k, T, B, b, s, k2)
  BY <1>1, <1>3, <1>4, <1>5, BottomRebond
<1> QED BY <1>6 DEF k2, s

\* decrease_delegation, for a bond that exists with that stake.
LEMMA DecGood ==
  ASSUME NEW k, NEW T, NEW B, Good(k, T, B), NEW b \in T \cup B, NEW less \in StakeT,
         Within(less, b.stake)
  PROVE  Rebonded(k, T, B, b, Minus(b.stake, less), decrease_delegation(k, b.owner, b.stake, less))
<1> DEFINE rt == decrease_top_delegation(k, b.owner, b.stake, less)
           rb == decrease_bottom_delegation(k, b.owner, less)
           r == decrease_delegation(k, b.owner, b.stake, less)
           s == Minus(b.stake, less)
<1>1. CASE b \in T
  <2>1. Rebonded(k, T, B, b, s, rt)
    BY <1>1, DecTop
  <2>2. rt # None
    BY <2>1, GoodIsBook DEF Rebonded
  <2>3. LooksInTop(k, b.stake)
    BY <1>1, Found
  <2>4. r = rt
    BY <2>2, <2>3 DEF decrease_delegation, TopElseBottom
  <2> QED BY <2>1, <2>4
<1>2. CASE b \in B
  <2>1. Rebonded(k, T, B, b, s, rb)
    BY <1>2, DecBottom
  <2>2. ~Owns(k.top, b.owner) /\ (LooksInTop(k, b.stake) => EndsMeet(k))
    BY <1>2, Found
  <2>3. rt = None
    BY <2>2 DEF decrease_top_delegation
  <2>4. r = rb
    BY <2>2, <2>3 DEF decrease_delegation, TopElseBottom
  <2> QED BY <2>1, <2>4
<1> QED BY <1>1, <1>2

-----------------------------------------------------------------------------
(***************************************************************************)
(* The stakes of an account carry the power of its amounts.                *)
(***************************************************************************)
Own(a, s) == s \in StakeT /\ s.power = Factor[a] * s.amount

\* The power by unit of an account's stake is positive.
LEMMA FactorType ==
  ASSUME NEW a \in Accounts
  PROVE  Factor[a] \in Nat /\ Factor[a] > 0
BY StakingAssumption

\* power(a, m) is a stake of a.
LEMMA OwnPower ==
  ASSUME NEW a \in Accounts, NEW m \in Nat
  PROVE  Own(a, power(a, m)) /\ power(a, m).amount = m
<1>1. Factor[a] * m \in Nat
  BY FactorType
<1> QED BY <1>1, StakeParts DEF Own, power

\* The sum of two stakes of an account.
LEMMA OwnPlus ==
  ASSUME NEW a \in Accounts, NEW s, NEW t, Own(a, s), Own(a, t)
  PROVE  Own(a, Plus(s, t)) /\ Plus(s, t).amount = s.amount + t.amount
<1>1. s \in StakeT /\ t \in StakeT /\ s.amount \in Nat /\ t.amount \in Nat
  BY StakeParts DEF Own
<1>2. /\ Plus(s, t) \in StakeT /\ Plus(s, t).amount = s.amount + t.amount
      /\ Plus(s, t).power = s.power + t.power
  BY <1>1, PlusParts
<1>3. Factor[a] \in Nat
  BY FactorType
<1>4. s.power = Factor[a] * s.amount /\ t.power = Factor[a] * t.amount
  BY DEF Own
<1>5. \A f, m, n \in Nat : f * (m + n) = f * m + f * n
  OBVIOUS
<1>6. Plus(s, t).power = Factor[a] * Plus(s, t).amount
  BY <1>1, <1>2, <1>3, <1>4, <1>5
<1> QED BY <1>2, <1>6 DEF Own

\* The order of an account's stakes is that of their amounts.
LEMMA OwnOrder ==
  ASSUME NEW a \in Accounts, NEW s, NEW t, Own(a, s), Own(a, t)
  PROVE  /\ Below(s, t) => s.amount < t.amount
         /\ ~Below(s, t) => t.amount <= s.amount
         /\ t.amount <= s.amount => Within(t, s)
<1>1. s.amount \in Nat /\ t.amount \in Nat /\ s.power \in Nat /\ t.power \in Nat
  BY StakeParts DEF Own
<1>2. Factor[a] \in Nat /\ Factor[a] > 0
  BY FactorType
<1>3. s.power = Factor[a] * s.amount /\ t.power = Factor[a] * t.amount
  BY DEF Own
<1>4. t.amount <= s.amount => t.power <= s.power
  BY <1>1, <1>2, <1>3, MulMono
<1>5. \A f, m, n \in Nat : f > 0 /\ m < n => f * m < f * n
  OBVIOUS
<1>6. s.amount < t.amount => s.power < t.power
  BY <1>1, <1>2, <1>3, <1>5
<1>7. Below(s, t) => s.amount < t.amount
  BY <1>1, <1>4 DEF Below
<1>8. ~Below(s, t) => t.amount <= s.amount
  BY <1>1, <1>6 DEF Below
<1> QED BY <1>4, <1>7, <1>8 DEF Within

\* The difference of two stakes of an account saturates in both parts or in none.
LEMMA OwnMinus ==
  ASSUME NEW a \in Accounts, NEW s, NEW t, Own(a, s), Own(a, t)
  PROVE  /\ Own(a, Minus(s, t)) /\ Minus(s, t).amount = SaturatingSub(s.amount, t.amount)
         /\ t.amount <= s.amount => Minus(s, t).amount = s.amount - t.amount
<1>1. s \in StakeT /\ t \in StakeT /\ s.amount \in Nat /\ t.amount \in Nat
      /\ s.power \in Nat /\ t.power \in Nat
  BY StakeParts DEF Own
<1>2. /\ Minus(s, t) \in StakeT /\ Minus(s, t).amount = SaturatingSub(s.amount, t.amount)
      /\ Minus(s, t).power = SaturatingSub(s.power, t.power)
  BY <1>1, MinusParts
<1>3. Factor[a] \in Nat /\ Factor[a] > 0
  BY FactorType
<1>4. s.power = Factor[a] * s.amount /\ t.power = Factor[a] * t.amount
  BY DEF Own
<1>5. CASE t.amount <= s.amount
  <2>1. t.power <= s.power
    BY <1>1, <1>3, <1>4, <1>5, MulMono
  <2>2. Minus(s, t).amount = s.amount - t.amount /\ Minus(s, t).power = s.power - t.power
    BY <1>1, <1>2, <1>5, <2>1 DEF SaturatingSub
  <2>3. \A f, m, n \in Nat : n <= m => f * (m - n) = f * m - f * n
    OBVIOUS
  <2>4. Minus(s, t).power = Factor[a] * Minus(s, t).amount
    BY <1>1, <1>3, <1>4, <1>5, <2>2, <2>3
  <2> QED BY <1>2, <2>2, <2>4 DEF Own
<1>6. CASE ~(t.amount <= s.amount)
  <2>1. s.power <= t.power
    BY <1>1, <1>3, <1>4, <1>6, MulMono
  <2>2. Minus(s, t).amount = 0 /\ Minus(s, t).power = 0
    BY <1>1, <1>2, <1>6, <2>1 DEF SaturatingSub
  <2>3. Factor[a] * 0 = 0
    BY <1>3
  <2> QED BY <1>2, <1>6, <2>2, <2>3 DEF Own
<1> QED BY <1>5, <1>6

-----------------------------------------------------------------------------
(***************************************************************************)
(* The record of a delegator.                                              *)
(***************************************************************************)
StakesT == UNION {[S -> StakeT] : S \in SUBSET Collators}

DelegatorT == [delegations : StakesT, total : StakeT, less_total : StakeT]

\* Its total is the sum of its delegations, each of which is a stake of d that
\* is not zero.
Kept(d, s) ==
  /\ s \in DelegatorT
  /\ Own(d, s.total) /\ s.total = SumOver(s.delegations, DOMAIN s.delegations)
  /\ \A c \in DOMAIN s.delegations : Own(d, s.delegations[c]) /\ s.delegations[c].amount > 0

\* The parts of a record of stakes by candidate.
LEMMA StakesParts ==
  /\ \A f \in StakesT : DOMAIN f \subseteq Collators /\ \A c \in DOMAIN f : f[c] \in StakeT
  /\ \A S \in SUBSET Collators : \A f \in [S -> StakeT] : f \in StakesT
BY DEF StakesT

\* The parts of a delegator's record.
LEMMA DelegatorParts ==
  ASSUME NEW s \in DelegatorT
  PROVE  /\ s.delegations \in StakesT /\ s.total \in StakeT /\ s.less_total \in StakeT
         /\ DOMAIN s.delegations \subseteq Collators
         /\ IsFiniteSet(DOMAIN s.delegations)
         /\ \A c \in DOMAIN s.delegations : s.delegations[c] \in StakeT
<1>1. s.delegations \in StakesT /\ s.total \in StakeT /\ s.less_total \in StakeT
  BY DEF DelegatorT
<1>2. IsFiniteSet(Accounts) /\ Collators \subseteq Accounts
  BY StakingAssumption DEF Accounts
<1>3. DOMAIN s.delegations \subseteq Collators /\ \A c \in DOMAIN s.delegations : s.delegations[c] \in StakeT
  BY <1>1, StakesParts
<1>4. IsFiniteSet(DOMAIN s.delegations)
  BY <1>2, <1>3, FS_Subset
<1> QED BY <1>1, <1>3, <1>4

\* Putting a record together.
Recorded(s, f, t) == [s EXCEPT !.delegations = f, !.total = t]

\* A record with other delegations and another total.
LEMMA DelegatorMade ==
  ASSUME NEW s \in DelegatorT, NEW f \in StakesT, NEW t \in StakeT,
         NEW s2, s2 = Recorded(s, f, t)
  PROVE  /\ s2 \in DelegatorT /\ s2.delegations = f /\ s2.total = t
         /\ s2.less_total = s.less_total
BY DEF DelegatorT, Recorded

Charge(s, u) == [s EXCEPT !.less_total = u]

\* A record with another less_total.
LEMMA LessTotalMade ==
  ASSUME NEW s \in DelegatorT, NEW u \in StakeT, NEW s2, s2 = Charge(s, u)
  PROVE  /\ s2 \in DelegatorT /\ s2.delegations = s.delegations /\ s2.total = s.total
         /\ s2.less_total = u
BY DEF DelegatorT, Charge

\* A change of less_total leaves the total right.
LEMMA KeptLessTotal ==
  ASSUME NEW d, NEW s, Kept(d, s), NEW u \in StakeT
  PROVE  Kept(d, Charge(s, u))
<1>1. s \in DelegatorT /\ s.delegations \in StakesT /\ s.total \in StakeT
  BY DelegatorParts DEF Kept
<1>2. /\ Charge(s, u) \in DelegatorT
      /\ Charge(s, u).delegations = s.delegations
      /\ Charge(s, u).total = s.total
  BY <1>1, LessTotalMade
<1> QED BY <1>2 DEF Kept

\* A delegation changed to g[c], or taken out, with the total that goes with it.
LEMMA KeptMade ==
  ASSUME NEW d, NEW s, Kept(d, s), NEW f \in StakesT, NEW t, Own(d, t), t = SumOver(f, DOMAIN f),
         \A e \in DOMAIN f : Own(d, f[e]) /\ f[e].amount > 0,
         NEW s2, s2 = Recorded(s, f, t)
  PROVE  /\ Kept(d, s2) /\ s2.delegations = f /\ s2.total = t
         /\ s2.less_total = s.less_total
<1>1. s \in DelegatorT /\ t \in StakeT
  BY DEF Kept, Own
<1>2. s2 \in DelegatorT /\ s2.delegations = f /\ s2.total = t /\ s2.less_total = s.less_total
  BY <1>1, DelegatorMade
<1> QED BY <1>2 DEF Kept

\* A delegation more.
Joined(s, c, x) == [s EXCEPT !.delegations = Put(@, c, x), !.total = Plus(@, x)]

\* add_delegation of a Delegator: the total grows with the delegations.
LEMMA KeptAdd ==
  ASSUME NEW d \in Accounts, NEW s, Kept(d, s), NEW c \in Collators, c \notin DOMAIN s.delegations,
         NEW x, Own(d, x), x.amount > 0, NEW s2,
         s2 = Joined(s, c, x)
  PROVE  /\ Kept(d, s2) /\ DOMAIN s2.delegations = DOMAIN s.delegations \cup {c}
         /\ s2.delegations[c] = x /\ s2.total.amount = s.total.amount + x.amount
         /\ \A e \in DOMAIN s.delegations : s2.delegations[e] = s.delegations[e]
         /\ s2.less_total = s.less_total
<1> DEFINE f == s.delegations
           g == Put(f, c, x)
           D == DOMAIN f
           t == Plus(s.total, x)
<1>1. /\ s \in DelegatorT /\ Own(d, s.total) /\ s.total = SumOver(f, D)
      /\ \A e \in D : Own(d, f[e]) /\ f[e].amount > 0
  BY DEF Kept
<1>2. /\ D \subseteq Collators /\ IsFiniteSet(D) /\ s.total \in StakeT
      /\ \A e \in D : f[e] \in StakeT
  BY <1>1, DelegatorParts
<1>3. x \in StakeT
  BY DEF Own
<1>4. DOMAIN g = D \cup {c} /\ g[c] = x /\ \A e \in D : g[e] = f[e]
  BY DEF Put
<1>5. g \in StakesT
  <2>1. g \in [D \cup {c} -> StakeT]
    BY <1>2, <1>3 DEF Put
  <2>2. D \cup {c} \in SUBSET Collators
    BY <1>2
  <2> HIDE DEF g
  <2> QED BY <2>1, <2>2, StakesParts
<1>6. Own(d, t) /\ t.amount = s.total.amount + x.amount /\ t \in StakeT
  BY <1>1, OwnPlus DEF Own
<1>7. s2 = Recorded(s, g, t)
  BY <1>1 DEF DelegatorT, Recorded, Joined
<1> HIDE DEF g, t
<1> HIDE DEF f, D
<1>9. SumOver(g, D \cup {c}) = Plus(SumOver(f, D), g[c])
  <2>1. c \notin D /\ g[c] \in StakeT
    BY <1>3, <1>4 DEF D, f
  <2> QED BY <1>2, <1>4, <2>1, SumOverAdd
<1>10. t = SumOver(g, DOMAIN g)
  BY <1>1, <1>4, <1>9 DEF t
<1>11. \A e \in DOMAIN g : Own(d, g[e]) /\ g[e].amount > 0
  BY <1>1, <1>4
<1>12. Kept(d, s2) /\ s2.delegations = g /\ s2.total = t /\ s2.less_total = s.less_total
  BY <1>5, <1>6, <1>7, <1>10, <1>11, KeptMade
<1> QED BY <1>4, <1>6, <1>12 DEF f, D

\* The record of a new delegator.
LEMMA KeptNew ==
  ASSUME NEW d \in Accounts, NEW c \in Collators, NEW x, Own(d, x), x.amount > 0
  PROVE  /\ Kept(d, NewDelegator(c, x)) /\ DOMAIN NewDelegator(c, x).delegations = {c}
         /\ NewDelegator(c, x).delegations[c] = x /\ NewDelegator(c, x).total = x
         /\ NewDelegator(c, x).less_total = ZeroStake
<1> DEFINE s == NewDelegator(c, x)
           g == [e \in {c} |-> x]
<1>1. s.delegations = g /\ s.total = x /\ s.less_total = ZeroStake
  BY DEF NewDelegator
<1>2. x \in StakeT /\ ZeroStake \in StakeT
  BY StakeParts DEF Own, ZeroStake
<1>3. g \in StakesT
  <2>1. g \in [{c} -> StakeT] /\ {c} \in SUBSET Collators
    BY <1>2
  <2> HIDE DEF g
  <2> QED BY <2>1, StakesParts
<1>4. s \in DelegatorT
  BY <1>2, <1>3 DEF NewDelegator, DelegatorT
<1>5. DOMAIN g = {c} /\ g[c] = x
  OBVIOUS
<1> HIDE DEF g, s
<1>6. SumOver(g, {c}) = x
  <2>1. SumOver(g, {} \cup {c}) = Plus(SumOver(g, {}), g[c])
    BY <1>2, <1>5, SumOverAdd, FS_EmptySet
  <2>2. SumOver(g, {}) = ZeroStake /\ {} \cup {c} = {c}
    BY SumOverEmpty
  <2>3. Plus(ZeroStake, x) = x
    <3>1. ZeroStake.amount = 0 /\ ZeroStake.power = 0
      BY StakeParts DEF ZeroStake
    <3> QED BY <1>2, <3>1, PlusParts, StakeParts
  <2> QED BY <1>5, <2>1, <2>2, <2>3
<1>7. Kept(d, s)
  BY <1>1, <1>4, <1>5, <1>6 DEF Kept
<1> QED BY <1>1, <1>5, <1>7 DEF s

\* A delegation less.
LEMMA KeptRm ==
  ASSUME NEW d \in Accounts, NEW s, Kept(d, s), NEW c \in DOMAIN s.delegations
  PROVE  /\ Kept(d, rm_delegation(s, c))
         /\ DOMAIN rm_delegation(s, c).delegations = DOMAIN s.delegations \ {c}
         /\ \A e \in DOMAIN s.delegations \ {c} :
              rm_delegation(s, c).delegations[e] = s.delegations[e]
         /\ rm_delegation(s, c).total.amount = s.total.amount - s.delegations[c].amount
         /\ rm_delegation(s, c).less_total = s.less_total
<1> DEFINE f == s.delegations
           g == Drop(f, c)
           D == DOMAIN f
           t == Minus(s.total, f[c])
           s2 == rm_delegation(s, c)
<1>1. /\ s \in DelegatorT /\ Own(d, s.total) /\ s.total = SumOver(f, D)
      /\ \A e \in D : Own(d, f[e]) /\ f[e].amount > 0
  BY DEF Kept
<1>2. /\ D \subseteq Collators /\ IsFiniteSet(D) /\ s.total \in StakeT
      /\ \A e \in D : f[e] \in StakeT
  BY <1>1, DelegatorParts
<1>4. DOMAIN g = D \ {c} /\ \A e \in D \ {c} : g[e] = f[e]
  BY DEF Drop, Restrict
<1>5. g \in StakesT
  <2>1. g \in [D \ {c} -> StakeT]
    BY <1>2 DEF Drop, Restrict
  <2>2. D \ {c} \in SUBSET Collators
    BY <1>2
  <2> HIDE DEF g
  <2> QED BY <2>1, <2>2, StakesParts
<1>6. Within(f[c], s.total)
  <2> HIDE DEF f, D
  <2>1. c \in D
    BY DEF f, D
  <2> QED BY <1>1, <1>2, <2>1, SumOverType
<1>7. s2 = Recorded(s, g, t)
  BY DEF rm_delegation, Recorded
<1>8. Own(d, t) /\ t.amount = s.total.amount - f[c].amount
  BY <1>1, <1>6, OwnMinus DEF Within
<1> HIDE DEF g, s2
<1>9. SumOver(g, D \ {c}) = Minus(SumOver(f, D), f[c])
  <2> HIDE DEF f, D
  <2>1. c \in D
    BY DEF f, D
  <2> QED BY <1>2, <1>4, <2>1, SumOverRemove
<1>10. t = SumOver(g, DOMAIN g)
  BY <1>1, <1>4, <1>9
<1>11. \A e \in DOMAIN g : Own(d, g[e]) /\ g[e].amount > 0
  BY <1>1, <1>4
<1> HIDE DEF t
<1>12. Kept(d, s2) /\ s2.delegations = g /\ s2.total = t /\ s2.less_total = s.less_total
  BY <1>5, <1>7, <1>8, <1>10, <1>11, KeptMade
<1> QED BY <1>4, <1>8, <1>12 DEF s2

\* A delegation made larger, and smaller.
Raised(s, c, x) == [s EXCEPT !.delegations[c] = Plus(@, x), !.total = Plus(@, x)]

Lowered(s, c, x) == [s EXCEPT !.delegations[c] = Minus(@, x), !.total = Minus(@, x)]

\* One stake of a record replaced.
LEMMA StakesUpdate ==
  ASSUME NEW f \in StakesT, NEW c \in DOMAIN f, NEW x \in StakeT, NEW g, g = [f EXCEPT ![c] = x]
  PROVE  /\ g \in StakesT /\ DOMAIN g = DOMAIN f /\ g[c] = x
         /\ \A e \in DOMAIN f \ {c} : g[e] = f[e]
<1>1. DOMAIN f \subseteq Collators /\ \A e \in DOMAIN f : f[e] \in StakeT
  BY StakesParts
<1>2. g \in [DOMAIN f -> StakeT]
  <2>1. f \in [DOMAIN f -> StakeT]
    BY <1>1 DEF StakesT
  <2> QED BY <2>1
<1> QED BY <1>1, <1>2, StakesParts

\* A delegation made larger: the total follows.
LEMMA KeptMore ==
  ASSUME NEW d \in Accounts, NEW s, Kept(d, s), NEW c \in DOMAIN s.delegations,
         NEW x, Own(d, x), NEW s2, s2 = Raised(s, c, x)
  PROVE  /\ Kept(d, s2) /\ DOMAIN s2.delegations = DOMAIN s.delegations
         /\ s2.delegations[c] = Plus(s.delegations[c], x)
         /\ \A e \in DOMAIN s.delegations \ {c} : s2.delegations[e] = s.delegations[e]
         /\ s2.total.amount = s.total.amount + x.amount
         /\ s2.less_total = s.less_total
<1> DEFINE f == s.delegations
           g == [f EXCEPT ![c] = Plus(f[c], x)]
           D == DOMAIN f
           t == Plus(s.total, x)
<1>1. /\ s \in DelegatorT /\ Own(d, s.total) /\ s.total = SumOver(f, D)
      /\ \A e \in D : Own(d, f[e]) /\ f[e].amount > 0
  BY DEF Kept
<1>2. /\ D \subseteq Collators /\ IsFiniteSet(D) /\ s.total \in StakeT /\ f \in StakesT
      /\ \A e \in D : f[e] \in StakeT
  BY <1>1, DelegatorParts
<1>3. x \in StakeT /\ x.amount \in Nat /\ f[c].amount \in Nat
  BY <1>2, StakeParts DEF Own
<1>4. /\ Own(d, Plus(f[c], x)) /\ Plus(f[c], x).amount = f[c].amount + x.amount
      /\ Own(d, t) /\ t.amount = s.total.amount + x.amount
  BY <1>1, OwnPlus
<1>5. /\ g \in StakesT /\ DOMAIN g = D /\ g[c] = Plus(f[c], x)
      /\ \A e \in D \ {c} : g[e] = f[e]
  <2>1. Plus(f[c], x) \in StakeT
    BY <1>4 DEF Own
  <2> QED BY <1>2, <2>1, StakesUpdate
<1>6. s2 = Recorded(s, g, t)
  BY <1>1 DEF DelegatorT, Recorded, Raised
<1> HIDE DEF g, t
<1>7. SumOver(g, D) = Plus(SumOver(f, D), x)
  <2> HIDE DEF f, D
  <2>1. c \in D
    BY DEF f, D
  <2> QED BY <1>2, <1>3, <1>5, <2>1, SumOverMore
<1>8. t = SumOver(g, DOMAIN g)
  BY <1>1, <1>5, <1>7 DEF t
<1>9. \A e \in DOMAIN g : Own(d, g[e]) /\ g[e].amount > 0
  <2>1. Own(d, g[c]) /\ g[c].amount > 0
    BY <1>1, <1>3, <1>4, <1>5
  <2> QED BY <1>1, <1>5, <2>1
<1>10. Kept(d, s2) /\ s2.delegations = g /\ s2.total = t /\ s2.less_total = s.less_total
  BY <1>4, <1>5, <1>6, <1>8, <1>9, KeptMade
<1> QED BY <1>4, <1>5, <1>10

\* A delegation made smaller: the total follows.
LEMMA KeptLess ==
  ASSUME NEW d \in Accounts, NEW s, Kept(d, s), NEW c \in DOMAIN s.delegations,
         NEW x, Own(d, x), x.amount < s.delegations[c].amount, NEW s2, s2 = Lowered(s, c, x)
  PROVE  /\ Kept(d, s2) /\ DOMAIN s2.delegations = DOMAIN s.delegations
         /\ s2.delegations[c] = Minus(s.delegations[c], x)
         /\ \A e \in DOMAIN s.delegations \ {c} : s2.delegations[e] = s.delegations[e]
         /\ s2.total.amount = s.total.amount - x.amount /\ x.amount <= s.total.amount
         /\ s2.less_total = s.less_total
<1> DEFINE f == s.delegations
           g == [f EXCEPT ![c] = Minus(f[c], x)]
           D == DOMAIN f
           t == Minus(s.total, x)
<1>1. /\ s \in DelegatorT /\ Own(d, s.total) /\ s.total = SumOver(f, D)
      /\ \A e \in D : Own(d, f[e]) /\ f[e].amount > 0
  BY DEF Kept
<1>2. /\ D \subseteq Collators /\ IsFiniteSet(D) /\ s.total \in StakeT /\ f \in StakesT
      /\ \A e \in D : f[e] \in StakeT
  BY <1>1, DelegatorParts
<1>3. /\ x \in StakeT /\ x.amount \in Nat /\ f[c].amount \in Nat /\ x.amount <= f[c].amount
      /\ s.total.amount \in Nat
  BY <1>2, StakeParts DEF Own
<1>4. Within(f[c], s.total) /\ Within(x, f[c])
  <2>1. Within(x, f[c])
    BY <1>1, <1>3, OwnOrder
  <2> HIDE DEF f, D
  <2>2. c \in D
    BY DEF f, D
  <2> QED BY <1>1, <1>2, <2>1, <2>2, SumOverType
<1>5. x.amount <= s.total.amount
  BY <1>3, <1>4 DEF Within
<1>6. /\ Own(d, Minus(f[c], x)) /\ Minus(f[c], x).amount = f[c].amount - x.amount
      /\ Own(d, t) /\ t.amount = s.total.amount - x.amount
  BY <1>1, <1>3, <1>5, OwnMinus
<1>7. /\ g \in StakesT /\ DOMAIN g = D /\ g[c] = Minus(f[c], x)
      /\ \A e \in D \ {c} : g[e] = f[e]
  <2>1. Minus(f[c], x) \in StakeT
    BY <1>6 DEF Own
  <2> QED BY <1>2, <2>1, StakesUpdate
<1>8. s2 = Recorded(s, g, t)
  BY <1>1 DEF DelegatorT, Recorded, Lowered
<1> HIDE DEF g, t
<1>9. SumOver(g, D) = Minus(SumOver(f, D), x)
  <2> HIDE DEF f, D
  <2>1. c \in D
    BY DEF f, D
  <2> QED BY <1>2, <1>3, <1>4, <1>7, <2>1, SumOverLess
<1>10. t = SumOver(g, DOMAIN g)
  BY <1>1, <1>7, <1>9 DEF t
<1>11. \A e \in DOMAIN g : Own(d, g[e]) /\ g[e].amount > 0
  <2>1. Own(d, g[c]) /\ g[c].amount > 0
    BY <1>3, <1>6, <1>7
  <2> QED BY <1>1, <1>7, <2>1
<1>12. Kept(d, s2) /\ s2.delegations = g /\ s2.total = t /\ s2.less_total = s.less_total
  BY <1>6, <1>7, <1>8, <1>10, <1>11, KeptMade
<1> QED BY <1>5, <1>6, <1>7, <1>12

\* What is not empty is not zero.
LEMMA KeptZero ==
  ASSUME NEW d, NEW s, Kept(d, s)
  PROVE  s.total = ZeroStake <=> DOMAIN s.delegations = {}
<1> DEFINE f == s.delegations
           D == DOMAIN f
<1>1. /\ s \in DelegatorT /\ s.total = SumOver(f, D) /\ \A e \in D : f[e].amount > 0
  BY DEF Kept
<1>2. IsFiniteSet(D) /\ \A e \in D : f[e] \in StakeT
  BY <1>1, DelegatorParts
<1>3. ZeroStake.amount = 0
  BY StakeParts DEF ZeroStake
<1> HIDE DEF f, D
<1>4. \A e \in D : Within(f[e], SumOver(f, D)) /\ f[e].amount \in Nat
  BY <1>2, SumOverType, StakeParts
<1>5. ASSUME D # {} PROVE s.total # ZeroStake
  BY <1>1, <1>3, <1>4, <1>5 DEF Within
<1>6. ASSUME D = {} PROVE s.total = ZeroStake
  BY <1>1, <1>6, SumOverEmpty
<1> QED BY <1>5, <1>6 DEF f, D

-----------------------------------------------------------------------------
(***************************************************************************)
(* The book of a candidate, for the set of its delegations.                *)
(***************************************************************************)
BookOf(k, S) == \E T, B : Good(k, T, B) /\ T \cup B = S

\* The candidate's own bond, and what it asks to take away.
Backed(c, k) ==
  /\ Own(c, k.stake)
  /\ k.request # None => k.request.amount <= k.stake.amount

\* What a book says of the bonds it holds.
LEMMA BookOfFacts ==
  ASSUME NEW k, NEW S, BookOf(k, S)
  PROVE  /\ k \in BookT /\ k # None /\ k.stake \in StakeT
         /\ S \subseteq BondT /\ IsFiniteSet(S) /\ OneEach(S)
<1>1. PICK T, B : Good(k, T, B) /\ T \cup B = S
  BY DEF BookOf
<1>2. k \in BookT /\ k # None
  BY <1>1, GoodIsBook
<1>3. k.stake \in StakeT
  BY <1>2, BookParts
<1>4. /\ T \subseteq BondT /\ IsFiniteSet(T) /\ OneEach(T)
      /\ B \subseteq BondT /\ IsFiniteSet(B) /\ OneEach(B)
      /\ \A e \in T, f \in B : e.owner # f.owner
  BY <1>1, GoodFacts
<1>5. IsFiniteSet(S)
  BY <1>1, <1>4, FS_Union
<1>6. OneEach(S)
  BY <1>1, <1>4 DEF OneEach
<1> QED BY <1>1, <1>2, <1>3, <1>4, <1>5, <1>6

\* Operations on the lists leave the candidate's own bond alone.
LEMMA BackedSame ==
  ASSUME NEW c, NEW k, NEW k2, Backed(c, k), SameCandidate(k, k2)
  PROVE  Backed(c, k2)
BY DEF Backed, SameCandidate

\* The book of a new candidate holds nothing.
LEMMA BookNew ==
  ASSUME NEW c \in Accounts, NEW s, Own(c, s)
  PROVE  BookOf(NewBook(s), {}) /\ Backed(c, NewBook(s))
<1>1. s \in StakeT
  BY DEF Own
<1>2. Good(NewBook(s), {}, {}) /\ NewBook(s).stake = s /\ NewBook(s).request = None
  BY <1>1, NewBookGood
<1>3. Backed(c, NewBook(s))
  BY <1>2 DEF Backed
<1> QED BY <1>2, <1>3 DEF BookOf

\* add_delegation: the new bond comes in, the one that is kicked goes.
LEMMA BookAdd ==
  ASSUME NEW k, NEW S, BookOf(k, S), NEW b \in BondT, b.owner \notin Owners(S), CanAdd(k, b)
  PROVE  /\ BookOf(add_delegation(k, b), Leave(S, KickedBy(k, b)) \cup {b})
         /\ SameCandidate(k, add_delegation(k, b))
         /\ KickedBy(k, b) # None => KickedBy(k, b) \in Owners(S)
<1>1. PICK T, B : Good(k, T, B) /\ T \cup B = S
  BY DEF BookOf
<1>2. b.owner \notin Owners(T) /\ b.owner \notin Owners(B)
  BY <1>1 DEF Owners
<1>3. /\ \E T2, B2 : /\ Good(add_delegation(k, b), T2, B2)
                     /\ T2 \cup B2 = Leave(T \cup B, KickedBy(k, b)) \cup {b}
      /\ SameCandidate(k, add_delegation(k, b))
      /\ KickedBy(k, b) # None => KickedBy(k, b) \in Owners(B)
  BY <1>1, <1>2, AddGood
<1>4. KickedBy(k, b) # None => KickedBy(k, b) \in Owners(S)
  BY <1>1, <1>3 DEF Owners
<1> QED BY <1>1, <1>3, <1>4 DEF BookOf

\* rm_delegation_if_exists finds the bond and takes it out.
LEMMA BookRm ==
  ASSUME NEW k, NEW S, BookOf(k, S), NEW b \in S
  PROVE  /\ BookOf(rm_delegation_if_exists(k, b.owner, b.stake), Leave(S, b.owner))
         /\ SameCandidate(k, rm_delegation_if_exists(k, b.owner, b.stake))
<1>1. PICK T, B : Good(k, T, B) /\ T \cup B = S
  BY DEF BookOf
<1>2. /\ \E T2, B2 : /\ Good(rm_delegation_if_exists(k, b.owner, b.stake), T2, B2)
                     /\ T2 \cup B2 = Leave(T \cup B, b.owner)
      /\ SameCandidate(k, rm_delegation_if_exists(k, b.owner, b.stake))
  BY <1>1, RmGood
<1> QED BY <1>1, <1>2 DEF BookOf

\* increase_delegation finds the bond and makes it larger.
LEMMA BookInc ==
  ASSUME NEW k, NEW S, BookOf(k, S), NEW b \in S, NEW more \in StakeT
  PROVE  /\ BookOf(increase_delegation(k, b.owner, b.stake, more),
                   Leave(S, b.owner) \cup {Bond(b.owner, Plus(b.stake, more))})
         /\ SameCandidate(k, increase_delegation(k, b.owner, b.stake, more))
<1>1. PICK T, B : Good(k, T, B) /\ T \cup B = S
  BY DEF BookOf
<1>2. Rebonded(k, T, B, b, Plus(b.stake, more), increase_delegation(k, b.owner, b.stake, more))
  BY <1>1, IncGood
<1> QED BY <1>1, <1>2 DEF BookOf, Rebonded

\* decrease_delegation finds the bond and makes it smaller.
LEMMA BookDec ==
  ASSUME NEW k, NEW S, BookOf(k, S), NEW b \in S, NEW less \in StakeT, Within(less, b.stake)
  PROVE  /\ BookOf(decrease_delegation(k, b.owner, b.stake, less),
                   Leave(S, b.owner) \cup {Bond(b.owner, Minus(b.stake, less))})
         /\ SameCandidate(k, decrease_delegation(k, b.owner, b.stake, less))
<1>1. PICK T, B : Good(k, T, B) /\ T \cup B = S
  BY DEF BookOf
<1>2. Rebonded(k, T, B, b, Minus(b.stake, less), decrease_delegation(k, b.owner, b.stake, less))
  BY <1>1, DecGood
<1> QED BY <1>1, <1>2 DEF BookOf, Rebonded

\* The operations on the candidate alone leave its lists as they are.
SameLists(k, k2) ==
  /\ k2 \in BookT /\ k2.delegation_count = k.delegation_count
  /\ k2.top = k.top /\ k2.bottom = k.bottom
  /\ k2.top_capacity = k.top_capacity /\ k2.bottom_capacity = k.bottom_capacity
  /\ k2.lowest_top_delegation = k.lowest_top_delegation
  /\ k2.lowest_bottom_delegation = k.lowest_bottom_delegation
  /\ k2.highest_bottom_delegation = k.highest_bottom_delegation

\* The bonds of a book are those of its lists.
LEMMA BookSameLists ==
  ASSUME NEW k, NEW S, BookOf(k, S), NEW k2, SameLists(k, k2),
         k2.total_stake_counted = Plus(k2.stake, k.top.total)
  PROVE  BookOf(k2, S)
<1>1. PICK T, B : Good(k, T, B) /\ T \cup B = S
  BY DEF BookOf
<1>2. TopHolds(k2, T) /\ BottomHolds(k2, B)
  BY <1>1 DEF Good, TopHolds, BottomHolds, SameLists
<1>3. Good(k2, T, B)
  BY <1>1, <1>2 DEF Good, SameLists
<1> QED BY <1>1, <1>3 DEF BookOf

\* What is counted is the candidate's bond and the top total.
LEMMA CountedIs ==
  ASSUME NEW k, NEW S, BookOf(k, S)
  PROVE  /\ k.total_stake_counted = Plus(k.stake, k.top.total)
         /\ k.top.total \in StakeT
<1>1. PICK T, B : Good(k, T, B) /\ T \cup B = S
  BY DEF BookOf
<1>2. TopHolds(k, T) /\ k.top.total \in StakeT
  BY <1>1, GoodFacts
<1> QED BY <1>2 DEF TopHolds

\* Another status.
WithStatus(k, status, when) == [k EXCEPT !.status = status, !.when = when]

\* Another status leaves a book as it is.
LEMMA BookStatus ==
  ASSUME NEW c, NEW k, NEW S, BookOf(k, S), Backed(c, k),
         NEW status \in {"Active", "Idle", "Leaving"}, NEW when \in Nat,
         NEW k2, k2 = WithStatus(k, status, when)
  PROVE  /\ BookOf(k2, S) /\ Backed(c, k2) /\ k2.total_stake_counted = k.total_stake_counted
         /\ k2.stake = k.stake
<1>1. k \in BookT
  BY BookOfFacts
<1>2. SameLists(k, k2)
  BY <1>1 DEF SameLists, BookT, WithStatus
<1>3. k2.total_stake_counted = k.total_stake_counted /\ k2.stake = k.stake /\ k2.request = k.request
  BY <1>1 DEF BookT, WithStatus
<1>4. k.total_stake_counted = Plus(k.stake, k.top.total)
  BY CountedIs
<1>5. BookOf(k2, S)
  BY <1>2, <1>3, <1>4, BookSameLists
<1> QED BY <1>3, <1>5 DEF Backed

\* Another request.
LEMMA BookRequest ==
  ASSUME NEW c, NEW k, NEW S, BookOf(k, S), Backed(c, k),
         NEW q \in LessRequestT \cup {None}, q # None => q.amount <= k.stake.amount,
         NEW k2, k2 = [k EXCEPT !.request = q]
  PROVE  /\ BookOf(k2, S) /\ Backed(c, k2) /\ k2.total_stake_counted = k.total_stake_counted
         /\ k2.stake = k.stake /\ k2.status = k.status
<1>1. k \in BookT
  BY BookOfFacts
<1>2. SameLists(k, k2)
  BY <1>1 DEF SameLists, BookT
<1>3. /\ k2.total_stake_counted = k.total_stake_counted /\ k2.stake = k.stake /\ k2.request = q
      /\ k2.status = k.status
  BY <1>1 DEF BookT
<1>4. k.total_stake_counted = Plus(k.stake, k.top.total)
  BY CountedIs
<1>5. BookOf(k2, S)
  BY <1>2, <1>3, <1>4, BookSameLists
<1> QED BY <1>3, <1>5 DEF Backed

\* More and less of the candidate's bond.
WithMore(k, s) == [k EXCEPT !.stake = Plus(@, s), !.total_stake_counted = Plus(@, s)]

WithLess(k, s) == [k EXCEPT !.stake = Minus(@, s), !.total_stake_counted = Minus(@, s),
                            !.request = None]

\* candidate_bond_more on the book.
LEMMA BookBondMore ==
  ASSUME NEW c \in Accounts, NEW k, NEW S, BookOf(k, S), Backed(c, k), NEW s, Own(c, s),
         NEW k2, k2 = WithMore(k, s)
  PROVE  /\ BookOf(k2, S) /\ Backed(c, k2) /\ k2.status = k.status
         /\ k2.stake.amount = k.stake.amount + s.amount
<1>1. k \in BookT /\ k.stake \in StakeT /\ s \in StakeT /\ k.total_stake_counted \in StakeT
  BY BookOfFacts, BookParts DEF Own
<1>2. /\ k.total_stake_counted = Plus(k.stake, k.top.total) /\ k.top.total \in StakeT
  BY CountedIs
<1>3. Plus(k.stake, s) \in StakeT /\ Plus(k.total_stake_counted, s) \in StakeT
  BY <1>1, PlusParts
<1>4. /\ SameLists(k, k2) /\ k2.status = k.status /\ k2.request = k.request
      /\ k2.stake = Plus(k.stake, s) /\ k2.total_stake_counted = Plus(k.total_stake_counted, s)
  BY <1>1, <1>3 DEF SameLists, BookT, WithMore, WithLess
<1>5. Plus(Plus(k.stake, k.top.total), s) = Plus(Plus(k.stake, s), k.top.total)
  <2> DEFINE x == k.stake
             y == k.top.total
  <2>1. x.amount \in Nat /\ x.power \in Nat /\ y.amount \in Nat /\ y.power \in Nat
        /\ s.amount \in Nat /\ s.power \in Nat
    BY <1>1, <1>2, StakeParts
  <2>2. x.amount + y.amount + s.amount = x.amount + s.amount + y.amount
        /\ x.power + y.power + s.power = x.power + s.power + y.power
    BY <2>1
  <2>3. \A u, v \in StakeT : /\ Plus(u, v).amount = u.amount + v.amount
                             /\ Plus(u, v).power = u.power + v.power /\ Plus(u, v) \in StakeT
    BY PlusParts
  <2> HIDE DEF x, y
  <2>4. x \in StakeT /\ y \in StakeT
    BY <1>1, <1>2 DEF x, y
  <2>5. /\ Plus(x, y) \in StakeT /\ Plus(x, s) \in StakeT
        /\ Plus(x, y).amount = x.amount + y.amount /\ Plus(x, y).power = x.power + y.power
        /\ Plus(x, s).amount = x.amount + s.amount /\ Plus(x, s).power = x.power + s.power
    BY <1>1, <2>3, <2>4
  <2>6. /\ Plus(Plus(x, y), s) \in StakeT /\ Plus(Plus(x, s), y) \in StakeT
        /\ Plus(Plus(x, y), s).amount = x.amount + y.amount + s.amount
        /\ Plus(Plus(x, y), s).power = x.power + y.power + s.power
        /\ Plus(Plus(x, s), y).amount = x.amount + s.amount + y.amount
        /\ Plus(Plus(x, s), y).power = x.power + s.power + y.power
    BY <1>1, <2>3, <2>4, <2>5
  <2>7. Plus(Plus(x, y), s) = Plus(Plus(x, s), y)
    BY <2>2, <2>6, StakeParts
  <2> QED BY <2>7 DEF x, y
<1>6. BookOf(k2, S)
  BY <1>2, <1>4, <1>5, BookSameLists
<1>7. Own(c, k2.stake) /\ k2.stake.amount = k.stake.amount + s.amount
  BY <1>4, OwnPlus DEF Backed
<1>8. k.stake.amount \in Nat /\ s.amount \in Nat
  BY <1>1, StakeParts
<1>9. k2.request # None => k2.request.amount \in Nat /\ k2.request.amount <= k2.stake.amount
  BY <1>1, <1>4, <1>7, <1>8 DEF Backed, BookT, LessRequestT
<1> QED BY <1>4, <1>6, <1>7, <1>9 DEF Backed

\* bond_less on the book.
LEMMA BookBondLess ==
  ASSUME NEW c \in Accounts, NEW k, NEW S, BookOf(k, S), Backed(c, k), NEW s, Own(c, s),
         s.amount <= k.stake.amount,
         NEW k2, k2 = WithLess(k, s)
  PROVE  /\ BookOf(k2, S) /\ Backed(c, k2) /\ k2.status = k.status
         /\ k2.stake.amount = k.stake.amount - s.amount
<1>1. k \in BookT /\ k.stake \in StakeT /\ s \in StakeT /\ k.total_stake_counted \in StakeT
  BY BookOfFacts, BookParts DEF Own
<1>2. /\ k.total_stake_counted = Plus(k.stake, k.top.total) /\ k.top.total \in StakeT
  BY CountedIs
<1>3. Minus(k.stake, s) \in StakeT /\ Minus(k.total_stake_counted, s) \in StakeT
  BY <1>1, MinusParts
<1>4. /\ SameLists(k, k2) /\ k2.status = k.status /\ k2.request = None
      /\ k2.stake = Minus(k.stake, s) /\ k2.total_stake_counted = Minus(k.total_stake_counted, s)
  BY <1>1, <1>3 DEF SameLists, BookT, WithMore, WithLess
<1>5. Within(s, k.stake)
  BY OwnOrder DEF Backed
<1>6. Minus(Plus(k.stake, k.top.total), s) = Plus(Minus(k.stake, s), k.top.total)
  <2> DEFINE x == k.stake
             y == k.top.total
  <2>1. /\ x.amount \in Nat /\ x.power \in Nat /\ y.amount \in Nat /\ y.power \in Nat
        /\ s.amount \in Nat /\ s.power \in Nat /\ s.amount <= x.amount /\ s.power <= x.power
    BY <1>1, <1>2, <1>5, StakeParts DEF Within
  <2> HIDE DEF x, y
  <2>2. x \in StakeT /\ y \in StakeT
    BY <1>1, <1>2 DEF x, y
  <2>3. /\ Plus(x, y) \in StakeT /\ Minus(x, s) \in StakeT
        /\ Plus(x, y).amount = x.amount + y.amount /\ Plus(x, y).power = x.power + y.power
        /\ Minus(x, s).amount = x.amount - s.amount /\ Minus(x, s).power = x.power - s.power
    BY <1>1, <1>5, <2>2, PlusParts, MinusParts, MinusWithin DEF x
  <2>4. Within(s, Plus(x, y))
    BY <2>1, <2>3 DEF Within
  <2>5. /\ Minus(Plus(x, y), s) \in StakeT
        /\ Minus(Plus(x, y), s).amount = x.amount + y.amount - s.amount
        /\ Minus(Plus(x, y), s).power = x.power + y.power - s.power
    <3> DEFINE p == Plus(x, y)
    <3> HIDE DEF p
    <3>1. p \in StakeT /\ Within(s, p)
      BY <2>3, <2>4 DEF p
    <3>2. Minus(p, s) \in StakeT /\ Minus(p, s).amount = p.amount - s.amount
          /\ Minus(p, s).power = p.power - s.power
      BY <1>1, <3>1, MinusParts, MinusWithin
    <3>3. p.amount = x.amount + y.amount /\ p.power = x.power + y.power
      BY <2>3 DEF p
    <3>4. /\ Minus(p, s) \in StakeT
          /\ Minus(p, s).amount = x.amount + y.amount - s.amount
          /\ Minus(p, s).power = x.power + y.power - s.power
      BY <2>1, <3>2, <3>3
    <3> QED BY <3>4 DEF p
  <2>6. /\ Plus(Minus(x, s), y) \in StakeT
        /\ Plus(Minus(x, s), y).amount = x.amount - s.amount + y.amount
        /\ Plus(Minus(x, s), y).power = x.power - s.power + y.power
    BY <2>2, <2>3, PlusParts
  <2>7. Minus(Plus(x, y), s) = Plus(Minus(x, s), y)
    BY <2>1, <2>5, <2>6, StakeParts
  <2> QED BY <2>7 DEF x, y
<1>7. BookOf(k2, S)
  BY <1>2, <1>4, <1>6, BookSameLists
<1>8. Own(c, k2.stake) /\ k2.stake.amount = k.stake.amount - s.amount
  BY <1>4, OwnMinus DEF Backed
<1> QED BY <1>4, <1>7, <1>8 DEF Backed

-----------------------------------------------------------------------------
(***************************************************************************)
(* Who delegates to whom, and what the candidates and the requests must    *)
(* say of it.                                                              *)
(***************************************************************************)
Has(DS, d, c) == d \in DOMAIN DS /\ c \in DOMAIN DS[d].delegations

Stk(DS, d, c) == DS[d].delegations[c]

Held(DS, c) == {Bond(d, Stk(DS, d, c)) : d \in {e \in DOMAIN DS : Has(DS, e, c)}}

RequestT == [action : {"Revoke", "Decrease"}, stake : StakeT, when : Nat]

\* A request q of d against what it has bonded.
Asked(d, bonded, q) ==
  /\ q \in RequestT /\ Own(d, q.stake) /\ q.stake.amount <= bonded.amount
  /\ q.action = "Revoke" => q.stake = bonded

Delegating(DS, K) ==
  /\ DOMAIN DS \subseteq Delegators
  /\ \A d \in DOMAIN DS : /\ Kept(d, DS[d]) /\ d \notin K
                          /\ DOMAIN DS[d].delegations # {}
                          /\ DOMAIN DS[d].delegations \subseteq K

Booked(CI, DS) ==
  /\ DOMAIN CI \subseteq Collators
  /\ \A c \in DOMAIN CI : BookOf(CI[c], Held(DS, c)) /\ Backed(c, CI[c])

Requesting(RQ, DS) ==
  /\ DOMAIN RQ = Collators
  /\ \A c \in Collators : \A d \in DOMAIN RQ[c] :
       Has(DS, d, c) /\ Asked(d, Stk(DS, d, c), RQ[c][d])

BookInv ==
  /\ round \in Nat
  /\ Delegating(DelegatorState, DOMAIN CandidateInfo)
  /\ Booked(CandidateInfo, DelegatorState)
  /\ Requesting(Requests, DelegatorState)

\* Collators and delegators are finitely many accounts.
LEMMA AccountsAre ==
  /\ Collators \subseteq Accounts /\ Delegators \subseteq Accounts
  /\ IsFiniteSet(Collators) /\ IsFiniteSet(Delegators)
  /\ None \notin Accounts
<1>1. Collators \subseteq Accounts /\ Delegators \subseteq Accounts
  BY DEF Accounts
<1> QED BY <1>1, StakingAssumption, NoneAssumption, FS_Subset

\* The delegations to c, as bonds.
LEMMA HeldIs ==
  ASSUME NEW DS, NEW c
  PROVE  /\ \A d : Has(DS, d, c) => Bond(d, Stk(DS, d, c)) \in Held(DS, c)
         /\ \A b \in Held(DS, c) : Has(DS, b.owner, c) /\ b = Bond(b.owner, Stk(DS, b.owner, c))
         /\ \A d : d \in Owners(Held(DS, c)) <=> Has(DS, d, c)
<1>1. \A d, s : Bond(d, s).owner = d /\ Bond(d, s).stake = s
  BY DEF Bond
<1>2. \A d : Has(DS, d, c) => Bond(d, Stk(DS, d, c)) \in Held(DS, c)
  BY DEF Held, Has
<1>3. \A b \in Held(DS, c) : Has(DS, b.owner, c) /\ b = Bond(b.owner, Stk(DS, b.owner, c))
  <2> SUFFICES ASSUME NEW b \in Held(DS, c)
               PROVE  Has(DS, b.owner, c) /\ b = Bond(b.owner, Stk(DS, b.owner, c))
    OBVIOUS
  <2>1. PICK d \in {e \in DOMAIN DS : Has(DS, e, c)} : b = Bond(d, Stk(DS, d, c))
    BY DEF Held
  <2>2. b.owner = d
    BY <1>1, <2>1
  <2> QED BY <2>1, <2>2
<1>4. \A d : d \in Owners(Held(DS, c)) <=> Has(DS, d, c)
  BY <1>1, <1>2, <1>3 DEF Owners
<1> QED BY <1>2, <1>3, <1>4

\* Two states in which c is delegated to alike, but for d.
Alike(DS, DS2, c) ==
  \A e : /\ Has(DS2, e, c) <=> Has(DS, e, c)
         /\ Has(DS, e, c) => Stk(DS2, e, c) = Stk(DS, e, c)

AlikeBut(DS, DS2, c, d) ==
  \A e : e # d => /\ Has(DS2, e, c) <=> Has(DS, e, c)
                  /\ Has(DS, e, c) => Stk(DS2, e, c) = Stk(DS, e, c)

\* States alike for c hold the same bonds of it.
LEMMA HeldAlike ==
  ASSUME NEW DS, NEW DS2, NEW c, Alike(DS, DS2, c)
  PROVE  Held(DS2, c) = Held(DS, c)
<1>1. Held(DS2, c) \subseteq Held(DS, c)
  BY HeldIs DEF Alike
<1>2. Held(DS, c) \subseteq Held(DS2, c)
  BY HeldIs DEF Alike
<1> QED BY <1>1, <1>2

\* States alike for c but for d, which has no delegation to it any more.
LEMMA HeldDropped ==
  ASSUME NEW DS, NEW DS2, NEW c, NEW d, AlikeBut(DS, DS2, c, d), ~Has(DS2, d, c)
  PROVE  Held(DS2, c) = Leave(Held(DS, c), d)
<1>0. \A x, s : Bond(x, s).owner = x
  BY DEF Bond
<1>1. ASSUME NEW b \in Held(DS2, c) PROVE b \in Leave(Held(DS, c), d)
  <2>1. Has(DS2, b.owner, c) /\ b = Bond(b.owner, Stk(DS2, b.owner, c))
    BY HeldIs
  <2>2. b.owner # d
    BY <2>1
  <2>3. Has(DS, b.owner, c) /\ Stk(DS2, b.owner, c) = Stk(DS, b.owner, c)
    BY <2>1, <2>2 DEF AlikeBut
  <2>4. b \in Held(DS, c)
    BY <2>1, <2>3, HeldIs
  <2> QED BY <2>2, <2>4 DEF Leave
<1>2. ASSUME NEW b \in Leave(Held(DS, c), d) PROVE b \in Held(DS2, c)
  <2>1. b \in Held(DS, c) /\ b.owner # d
    BY DEF Leave
  <2>2. Has(DS, b.owner, c) /\ b = Bond(b.owner, Stk(DS, b.owner, c))
    BY <2>1, HeldIs
  <2>3. Has(DS2, b.owner, c) /\ Stk(DS2, b.owner, c) = Stk(DS, b.owner, c)
    BY <2>1, <2>2 DEF AlikeBut
  <2> QED BY <2>2, <2>3, HeldIs
<1> QED BY <1>1, <1>2

\* States alike for c but for d, which has another delegation to it.
LEMMA HeldSet ==
  ASSUME NEW DS, NEW DS2, NEW c, NEW d, AlikeBut(DS, DS2, c, d), Has(DS2, d, c)
  PROVE  Held(DS2, c) = Leave(Held(DS, c), d) \cup {Bond(d, Stk(DS2, d, c))}
<1>0. \A x, s : Bond(x, s).owner = x
  BY DEF Bond
<1>1. ASSUME NEW b \in Held(DS2, c), b.owner # d PROVE b \in Leave(Held(DS, c), d)
  <2>1. Has(DS2, b.owner, c) /\ b = Bond(b.owner, Stk(DS2, b.owner, c))
    BY HeldIs
  <2>3. Has(DS, b.owner, c) /\ Stk(DS2, b.owner, c) = Stk(DS, b.owner, c)
    BY <1>1, <2>1 DEF AlikeBut
  <2>4. b \in Held(DS, c)
    BY <2>1, <2>3, HeldIs
  <2> QED BY <1>1, <2>4 DEF Leave
<1>2. ASSUME NEW b \in Leave(Held(DS, c), d) PROVE b \in Held(DS2, c)
  <2>1. b \in Held(DS, c) /\ b.owner # d
    BY DEF Leave
  <2>2. Has(DS, b.owner, c) /\ b = Bond(b.owner, Stk(DS, b.owner, c))
    BY <2>1, HeldIs
  <2>3. Has(DS2, b.owner, c) /\ Stk(DS2, b.owner, c) = Stk(DS, b.owner, c)
    BY <2>1, <2>2 DEF AlikeBut
  <2> QED BY <2>2, <2>3, HeldIs
<1>3. ASSUME NEW b \in Held(DS2, c), b.owner = d PROVE b = Bond(d, Stk(DS2, d, c))
  BY <1>3, HeldIs
<1>4. Bond(d, Stk(DS2, d, c)) \in Held(DS2, c)
  BY HeldIs
<1> QED BY <1>1, <1>2, <1>3, <1>4

\* A candidate nobody delegates to.
LEMMA HeldNone ==
  ASSUME NEW DS, NEW c, \A d : ~Has(DS, d, c)
  PROVE  Held(DS, c) = {}
BY HeldIs

-----------------------------------------------------------------------------
(***************************************************************************)
(* How a step that concerns one candidate leaves the others.               *)
(***************************************************************************)
LEMMA BookedAt ==
  ASSUME NEW CI, NEW DS, NEW CI2, NEW DS2, NEW c \in DOMAIN CI, Booked(CI, DS),
         DOMAIN CI2 = DOMAIN CI, \A e \in DOMAIN CI \ {c} : CI2[e] = CI[e],
         \A e \in DOMAIN CI \ {c} : Alike(DS, DS2, e),
         BookOf(CI2[c], Held(DS2, c)), Backed(c, CI2[c])
  PROVE  Booked(CI2, DS2)
<1>1. \A e \in DOMAIN CI \ {c} : Held(DS2, e) = Held(DS, e)
  BY HeldAlike
<1> QED BY <1>1 DEF Booked

\* The books say as much of a state in which all candidates are delegated to alike.
LEMMA BookedAlike ==
  ASSUME NEW CI, NEW DS, NEW DS2, Booked(CI, DS), \A e \in Collators : Alike(DS, DS2, e)
  PROVE  Booked(CI, DS2)
<1>1. \A e \in Collators : Held(DS2, e) = Held(DS, e)
  BY HeldAlike
<1> QED BY <1>1 DEF Booked

\* So do the requests.
LEMMA RequestingAlike ==
  ASSUME NEW RQ, NEW DS, NEW DS2, Requesting(RQ, DS), \A e \in Collators : Alike(DS, DS2, e)
  PROVE  Requesting(RQ, DS2)
BY DEF Requesting, Alike

\* DS2 is DS with s2 as the record of d.
Written(DS, DS2, d, s2) ==
  /\ DOMAIN DS2 = DOMAIN DS \cup {d} /\ DS2[d] = s2
  /\ \A e \in DOMAIN DS \ {d} : DS2[e] = DS[e]

\* A change of less_total concerns nothing else.
LEMMA Charged ==
  ASSUME NEW DS, NEW K, Delegating(DS, K), NEW d \in DOMAIN DS, NEW u \in StakeT,
         NEW DS2, Written(DS, DS2, d, Charge(DS[d], u))
  PROVE  /\ Delegating(DS2, K) /\ \A c : Alike(DS, DS2, c)
         /\ DOMAIN DS2 = DOMAIN DS /\ DS2[d].less_total = u
         /\ \A e \in DOMAIN DS \ {d} : DS2[e] = DS[e]
         /\ DS2[d].total = DS[d].total
<1> DEFINE s2 == Charge(DS[d], u)
<1>1. DOMAIN DS2 = DOMAIN DS /\ DS2[d] = s2 /\ \A e \in DOMAIN DS \ {d} : DS2[e] = DS[e]
  BY DEF Written
<1>2. Kept(d, DS[d]) /\ Kept(d, s2)
  BY KeptLessTotal DEF Delegating
<1>3. /\ s2 \in DelegatorT /\ s2.delegations = DS[d].delegations /\ s2.total = DS[d].total
      /\ s2.less_total = u
  <2>1. DS[d] \in DelegatorT
    BY <1>2 DEF Kept
  <2> QED BY <2>1, LessTotalMade
<1> HIDE DEF s2
<1>4. Delegating(DS2, K)
  BY <1>1, <1>2, <1>3 DEF Delegating
<1>5. \A c : Alike(DS, DS2, c)
  BY <1>1, <1>3 DEF Alike, Has, Stk
<1> QED BY <1>1, <1>3, <1>4, <1>5

\* A function with one value less.
LEMMA DropIs ==
  ASSUME NEW f, NEW x
  PROVE  /\ DOMAIN Drop(f, x) = DOMAIN f \ {x}
         /\ \A y \in DOMAIN f \ {x} : Drop(f, x)[y] = f[y]
BY DEF Drop, Restrict

\* A call names a positive amount.
LEMMA AmountsAre ==
  ASSUME NEW a \in Amounts
  PROVE  a \in Nat /\ a > 0
BY StakingAssumption

\* The delays are numbers of rounds.
LEMMA DelaysAre ==
  /\ LeaveCandidatesDelay \in Nat /\ CandidateBondLessDelay \in Nat
  /\ LeaveDelegatorsDelay \in Nat /\ RevokeDelegationDelay \in Nat
BY StakingAssumption

\* The state at an account.
LEMMA AtCandidate ==
  ASSUME BookInv, NEW c, is_candidate(c)
  PROVE  /\ c \in Collators /\ c \in Accounts /\ c \in DOMAIN CandidateInfo
         /\ BookOf(CandidateInfo[c], Held(DelegatorState, c)) /\ Backed(c, CandidateInfo[c])
         /\ CandidateInfo[c] \in BookT
<1>1. /\ c \in Collators /\ c \in DOMAIN CandidateInfo
      /\ BookOf(CandidateInfo[c], Held(DelegatorState, c)) /\ Backed(c, CandidateInfo[c])
  BY DEF BookInv, Booked, is_candidate
<1> QED BY <1>1, AccountsAre, BookOfFacts

\* What BookInv says of a delegator.
LEMMA AtDelegator ==
  ASSUME BookInv, NEW d, is_delegator(d)
  PROVE  /\ d \in Delegators /\ d \in Accounts /\ d \in DOMAIN DelegatorState
         /\ Kept(d, DelegatorState[d]) /\ DelegatorState[d] \in DelegatorT
         /\ ~is_candidate(d) /\ DOMAIN DelegatorState[d].delegations # {}
         /\ \A c \in DOMAIN DelegatorState[d].delegations :
              is_candidate(c) /\ Has(DelegatorState, d, c)
<1>1. /\ d \in Delegators /\ d \in DOMAIN DelegatorState /\ d \notin DOMAIN CandidateInfo
      /\ Kept(d, DelegatorState[d]) /\ DOMAIN DelegatorState[d].delegations # {}
      /\ DOMAIN DelegatorState[d].delegations \subseteq DOMAIN CandidateInfo
  BY DEF BookInv, Delegating, is_delegator
<1> QED BY <1>1, AccountsAre DEF Kept, Has, is_candidate

\* join_candidates keeps BookInv.
LEMMA JoinStep ==
  ASSUME BookInv, NEW c \in Collators, NEW a \in Amounts, join_candidates(c, a)
  PROVE  BookInv'
<1> DEFINE k == NewBook(power(c, a))
           K == DOMAIN CandidateInfo
<1>1. /\ round \in Nat /\ Delegating(DelegatorState, K) /\ Booked(CandidateInfo, DelegatorState)
      /\ Requesting(Requests, DelegatorState)
  BY DEF BookInv
<1>2. /\ c \notin K /\ c \notin DOMAIN DelegatorState
      /\ CandidateInfo' = Put(CandidateInfo, c, k)
      /\ round' = round /\ DelegatorState' = DelegatorState /\ Requests' = Requests
  BY DEF join_candidates, is_candidate, is_delegator
<1>3. BookOf(k, {}) /\ Backed(c, k)
  BY AmountsAre, AccountsAre, OwnPower, BookNew
<1>4. Held(DelegatorState, c) = {}
  <2>1. \A d : ~Has(DelegatorState, d, c)
    BY <1>1, <1>2 DEF Has, Delegating
  <2> QED BY <2>1, HeldNone
<1> HIDE DEF k
<1>5. DOMAIN CandidateInfo' = K \cup {c} /\ CandidateInfo'[c] = k
      /\ \A e \in K \ {c} : CandidateInfo'[e] = CandidateInfo[e]
  BY <1>2 DEF Put
<1>6. Booked(CandidateInfo', DelegatorState)
  BY <1>1, <1>2, <1>3, <1>4, <1>5 DEF Booked
<1>7. Delegating(DelegatorState, DOMAIN CandidateInfo')
  BY <1>1, <1>2, <1>5 DEF Delegating
<1> QED BY <1>1, <1>2, <1>6, <1>7 DEF BookInv

\* An operation on a candidate that leaves its lists as they are.
LEMMA CandidateStep ==
  ASSUME BookInv, NEW c, is_candidate(c), NEW k,
         BookOf(k, Held(DelegatorState, c)), Backed(c, k),
         CandidateInfo' = [CandidateInfo EXCEPT ![c] = k],
         round' = round, DelegatorState' = DelegatorState, Requests' = Requests
  PROVE  BookInv'
<1>1. /\ round \in Nat /\ Delegating(DelegatorState, DOMAIN CandidateInfo)
      /\ Booked(CandidateInfo, DelegatorState) /\ Requesting(Requests, DelegatorState)
  BY DEF BookInv
<1>2. /\ c \in DOMAIN CandidateInfo
      /\ DOMAIN CandidateInfo' = DOMAIN CandidateInfo /\ CandidateInfo'[c] = k
      /\ \A e \in DOMAIN CandidateInfo \ {c} : CandidateInfo'[e] = CandidateInfo[e]
  BY DEF is_candidate
<1>3. Booked(CandidateInfo', DelegatorState)
  BY <1>1, <1>2 DEF Booked
<1> QED BY <1>1, <1>2, <1>3 DEF BookInv

\* A change of status keeps BookInv.
LEMMA StatusStep ==
  ASSUME BookInv, NEW c, is_candidate(c), NEW status \in {"Active", "Idle", "Leaving"},
         NEW when \in Nat, ChangeStatus(c, status, when)
  PROVE  BookInv'
<1> DEFINE k == WithStatus(CandidateInfo[c], status, when)
<1>1. BookOf(CandidateInfo[c], Held(DelegatorState, c)) /\ Backed(c, CandidateInfo[c])
  BY AtCandidate
<1>2. CandidateInfo' = [CandidateInfo EXCEPT ![c] = k]
      /\ round' = round /\ DelegatorState' = DelegatorState /\ Requests' = Requests
  BY DEF ChangeStatus, WithStatus
<1>3. BookOf(k, Held(DelegatorState, c)) /\ Backed(c, k)
  BY <1>1, BookStatus
<1> HIDE DEF k
<1> QED BY <1>2, <1>3, CandidateStep

\* The calls that change the status keep BookInv.
LEMMA StatusSteps ==
  ASSUME BookInv, NEW c,
         \/ schedule_leave_candidates(c) \/ cancel_leave_candidates(c)
         \/ go_offline(c) \/ go_online(c)
  PROVE  BookInv'
<1>1. round + LeaveCandidatesDelay \in Nat /\ 0 \in Nat
  BY DelaysAre DEF BookInv
<1> QED BY <1>1, StatusStep DEF schedule_leave_candidates, cancel_leave_candidates, go_offline, go_online

\* candidate_bond_more keeps BookInv.
LEMMA CandidateMoreStep ==
  ASSUME BookInv, NEW c, NEW a \in Amounts, candidate_bond_more(c, a)
  PROVE  BookInv'
<1> DEFINE s == power(c, a)
           k == WithMore(CandidateInfo[c], s)
<1>1. /\ is_candidate(c) /\ CandidateInfo' = [CandidateInfo EXCEPT ![c] = k]
      /\ round' = round /\ DelegatorState' = DelegatorState /\ Requests' = Requests
  BY DEF candidate_bond_more, WithMore
<1>2. /\ c \in Accounts /\ BookOf(CandidateInfo[c], Held(DelegatorState, c))
      /\ Backed(c, CandidateInfo[c])
  BY <1>1, AtCandidate
<1>3. Own(c, s)
  BY <1>2, AmountsAre, OwnPower
<1> HIDE DEF s
<1>4. BookOf(k, Held(DelegatorState, c)) /\ Backed(c, k)
  BY <1>2, <1>3, BookBondMore
<1> HIDE DEF k
<1> QED BY <1>1, <1>4, CandidateStep

\* schedule_candidate_bond_less keeps BookInv.
LEMMA CandidateScheduleStep ==
  ASSUME BookInv, NEW c, NEW a \in Amounts, schedule_candidate_bond_less(c, a)
  PROVE  BookInv'
<1> DEFINE q == [amount |-> a, when |-> round + CandidateBondLessDelay]
           k == [CandidateInfo[c] EXCEPT !.request = q]
<1>1. /\ is_candidate(c) /\ CandidateInfo' = [CandidateInfo EXCEPT ![c] = k]
      /\ round' = round /\ DelegatorState' = DelegatorState /\ Requests' = Requests
      /\ CandidateInfo[c].stake.amount > a
  BY DEF schedule_candidate_bond_less
<1>2. /\ c \in Accounts /\ BookOf(CandidateInfo[c], Held(DelegatorState, c))
      /\ Backed(c, CandidateInfo[c]) /\ CandidateInfo[c].stake \in StakeT
  BY <1>1, AtCandidate, BookParts
<1>3. q \in LessRequestT \cup {None} /\ q.amount <= CandidateInfo[c].stake.amount
  BY <1>1, <1>2, AmountsAre, DelaysAre, StakeParts DEF LessRequestT, BookInv
<1> HIDE DEF q
<1>4. BookOf(k, Held(DelegatorState, c)) /\ Backed(c, k)
  BY <1>2, <1>3, BookRequest
<1> HIDE DEF k
<1> QED BY <1>1, <1>4, CandidateStep

\* cancel_candidate_bond_less keeps BookInv.
LEMMA CandidateCancelStep ==
  ASSUME BookInv, NEW c, cancel_candidate_bond_less(c)
  PROVE  BookInv'
<1> DEFINE k == [CandidateInfo[c] EXCEPT !.request = None]
<1>1. /\ is_candidate(c) /\ CandidateInfo' = [CandidateInfo EXCEPT ![c] = k]
      /\ round' = round /\ DelegatorState' = DelegatorState /\ Requests' = Requests
  BY DEF cancel_candidate_bond_less
<1>2. /\ BookOf(CandidateInfo[c], Held(DelegatorState, c)) /\ Backed(c, CandidateInfo[c])
  BY <1>1, AtCandidate
<1>3. BookOf(k, Held(DelegatorState, c)) /\ Backed(c, k)
  BY <1>2, BookRequest
<1> HIDE DEF k
<1> QED BY <1>1, <1>3, CandidateStep

\* execute_candidate_bond_less keeps BookInv.
LEMMA CandidateLessStep ==
  ASSUME BookInv, NEW c, execute_candidate_bond_less(c)
  PROVE  BookInv'
<1> DEFINE s == power(c, CandidateInfo[c].request.amount)
           k == WithLess(CandidateInfo[c], s)
<1>1. /\ is_candidate(c) /\ CandidateInfo' = [CandidateInfo EXCEPT ![c] = k]
      /\ CandidateInfo[c].request # None
      /\ round' = round /\ DelegatorState' = DelegatorState /\ Requests' = Requests
  BY DEF execute_candidate_bond_less, bond_less, WithLess
<1>2. /\ c \in Accounts /\ BookOf(CandidateInfo[c], Held(DelegatorState, c))
      /\ Backed(c, CandidateInfo[c]) /\ CandidateInfo[c] \in BookT
  BY <1>1, AtCandidate
<1>3. CandidateInfo[c].request.amount \in Nat
      /\ CandidateInfo[c].request.amount <= CandidateInfo[c].stake.amount
  BY <1>1, <1>2 DEF BookT, LessRequestT, Backed
<1>4. Own(c, s) /\ s.amount <= CandidateInfo[c].stake.amount
  BY <1>2, <1>3, OwnPower
<1> HIDE DEF s
<1>5. BookOf(k, Held(DelegatorState, c)) /\ Backed(c, k)
  BY <1>2, <1>4, BookBondLess
<1> HIDE DEF k
<1> QED BY <1>1, <1>5, CandidateStep

-----------------------------------------------------------------------------
(***************************************************************************)
(* One delegator's record changed at candidate c.                          *)
(***************************************************************************)
\* The delegations of s2 are those of d but for c.
SameBut(DS, d, c, s2) ==
  \A e : e # c => /\ e \in DOMAIN s2.delegations <=> Has(DS, d, e)
                  /\ Has(DS, d, e) => s2.delegations[e] = Stk(DS, d, e)

\* DS2 is DS without the record of d.
Erased(DS, DS2, d) ==
  /\ DOMAIN DS2 = DOMAIN DS \ {d}
  /\ \A e \in DOMAIN DS \ {d} : DS2[e] = DS[e]

\* A delegator's record that changes for candidate c only.
LEMMA UpdatedAt ==
  ASSUME NEW DS, NEW K, Delegating(DS, K), NEW d \in Delegators, d \notin K, NEW c, NEW s2,
         Kept(d, s2), DOMAIN s2.delegations # {}, DOMAIN s2.delegations \subseteq K,
         SameBut(DS, d, c, s2), NEW DS2, Written(DS, DS2, d, s2)
  PROVE  /\ Delegating(DS2, K) /\ AlikeBut(DS, DS2, c, d) /\ \A e : e # c => Alike(DS, DS2, e)
         /\ Has(DS2, d, c) <=> c \in DOMAIN s2.delegations
         /\ Stk(DS2, d, c) = s2.delegations[c]
<1>1. Delegating(DS2, K)
  BY DEF Delegating, Written
<1>2. \A e, x : e # d => /\ Has(DS2, e, x) <=> Has(DS, e, x)
                         /\ Has(DS, e, x) => Stk(DS2, e, x) = Stk(DS, e, x)
  BY DEF Has, Stk, Written
<1>3. \A x : /\ Has(DS2, d, x) <=> x \in DOMAIN s2.delegations
             /\ Stk(DS2, d, x) = s2.delegations[x]
  BY DEF Has, Stk, Written
<1>4. AlikeBut(DS, DS2, c, d)
  BY <1>2 DEF AlikeBut
<1>5. ASSUME NEW e, e # c PROVE Alike(DS, DS2, e)
  BY <1>2, <1>3, <1>5 DEF Alike, SameBut
<1> QED BY <1>1, <1>3, <1>4, <1>5

\* A delegator leaves that delegates to c only.
LEMMA ErasedAt ==
  ASSUME NEW DS, NEW K, Delegating(DS, K), NEW d, NEW c, \A e : Has(DS, d, e) => e = c,
         NEW DS2, Erased(DS, DS2, d)
  PROVE  /\ Delegating(DS2, K) /\ AlikeBut(DS, DS2, c, d) /\ \A e : e # c => Alike(DS, DS2, e)
         /\ \A e : ~Has(DS2, d, e)
<1>1. Delegating(DS2, K)
  BY DEF Delegating, Erased
<1>2. \A e, x : e # d => /\ Has(DS2, e, x) <=> Has(DS, e, x)
                         /\ Has(DS, e, x) => Stk(DS2, e, x) = Stk(DS, e, x)
  BY DEF Has, Stk, Erased
<1>3. \A x : ~Has(DS2, d, x)
  BY DEF Has, Erased
<1>4. AlikeBut(DS, DS2, c, d)
  BY <1>2 DEF AlikeBut
<1>5. ASSUME NEW e, e # c PROVE Alike(DS, DS2, e)
  BY <1>2, <1>3, <1>5 DEF Alike
<1> QED BY <1>1, <1>3, <1>4, <1>5

\* A call that changes one delegation keeps BookInv if the book of the candidate
\* follows the delegator and the requests follow both.
LEMMA PairStep ==
  ASSUME BookInv, NEW c, is_candidate(c), NEW k,
         CandidateInfo' = [CandidateInfo EXCEPT ![c] = k], round' = round,
         SameCandidate(CandidateInfo[c], k), BookOf(k, Held(DelegatorState', c)),
         Delegating(DelegatorState', DOMAIN CandidateInfo),
         \A e : e # c => Alike(DelegatorState, DelegatorState', e),
         Requesting(Requests', DelegatorState')
  PROVE  BookInv'
<1>1. round \in Nat /\ Booked(CandidateInfo, DelegatorState)
  BY DEF BookInv
<1>2. /\ c \in DOMAIN CandidateInfo
      /\ DOMAIN CandidateInfo' = DOMAIN CandidateInfo /\ CandidateInfo'[c] = k
      /\ \A e \in DOMAIN CandidateInfo \ {c} : CandidateInfo'[e] = CandidateInfo[e]
  BY DEF is_candidate
<1>3. Backed(c, k)
  BY AtCandidate, BackedSame
<1>4. \A e \in DOMAIN CandidateInfo \ {c} : Alike(DelegatorState, DelegatorState', e)
  OBVIOUS
<1>5. BookOf(CandidateInfo'[c], Held(DelegatorState', c)) /\ Backed(c, CandidateInfo'[c])
  BY <1>2, <1>3
<1>6. Booked(CandidateInfo', DelegatorState')
  BY <1>1, <1>2, <1>4, <1>5, BookedAt
<1>7. Delegating(DelegatorState', DOMAIN CandidateInfo')
  BY <1>2
<1> QED BY <1>1, <1>6, <1>7 DEF BookInv

-----------------------------------------------------------------------------
(***************************************************************************)
(* Requests.                                                               *)
(***************************************************************************)
LEMMA RequestPut ==
  ASSUME NEW RQ, NEW DS, Requesting(RQ, DS), NEW c \in Collators, NEW d, Has(DS, d, c),
         NEW q, Asked(d, Stk(DS, d, c), q), NEW RQ2, RQ2 = [RQ EXCEPT ![c] = Put(@, d, q)]
  PROVE  Requesting(RQ2, DS)
<1>1. /\ DOMAIN RQ2 = Collators /\ RQ2[c] = Put(RQ[c], d, q)
      /\ \A e \in Collators \ {c} : RQ2[e] = RQ[e]
  BY DEF Requesting
<1>2. /\ DOMAIN RQ2[c] = DOMAIN RQ[c] \cup {d} /\ RQ2[c][d] = q
      /\ \A x \in DOMAIN RQ[c] \ {d} : RQ2[c][x] = RQ[c][x]
  BY <1>1 DEF Put
<1>3. \A x \in DOMAIN RQ2[c] : Has(DS, x, c) /\ Asked(x, Stk(DS, x, c), RQ2[c][x])
  BY <1>2 DEF Requesting
<1> QED BY <1>1, <1>3 DEF Requesting

\* The request of d at c is dropped and its delegation changes.
LEMMA RequestDrop ==
  ASSUME NEW RQ, NEW DS, Requesting(RQ, DS), NEW c \in Collators, NEW d,
         NEW DS2, \A e : e # c => Alike(DS, DS2, e), AlikeBut(DS, DS2, c, d),
         NEW RQ2, RQ2 = [RQ EXCEPT ![c] = Drop(@, d)]
  PROVE  Requesting(RQ2, DS2)
<1>1. /\ DOMAIN RQ2 = Collators /\ RQ2[c] = Drop(RQ[c], d)
      /\ \A e \in Collators \ {c} : RQ2[e] = RQ[e]
  BY DEF Requesting
<1>2. /\ DOMAIN RQ2[c] = DOMAIN RQ[c] \ {d}
      /\ \A x \in DOMAIN RQ[c] \ {d} : RQ2[c][x] = RQ[c][x]
  BY <1>1 DEF Drop, Restrict
<1>3. \A x \in DOMAIN RQ2[c] : Has(DS2, x, c) /\ Asked(x, Stk(DS2, x, c), RQ2[c][x])
  BY <1>2 DEF Requesting, AlikeBut
<1>4. \A e \in Collators \ {c} : \A x \in DOMAIN RQ2[e] :
        Has(DS2, x, e) /\ Asked(x, Stk(DS2, x, e), RQ2[e][x])
  BY <1>1 DEF Requesting, Alike
<1> QED BY <1>1, <1>3, <1>4 DEF Requesting

\* A request against a delegation: what it says.
LEMMA AtRequest ==
  ASSUME BookInv, NEW c \in Collators, NEW d \in DOMAIN Requests[c]
  PROVE  /\ Has(DelegatorState, d, c) /\ is_delegator(d) /\ is_candidate(c)
         /\ Asked(d, Stk(DelegatorState, d, c), Requests[c][d])
         /\ Requests[c][d].stake \in StakeT
<1>1. /\ Has(DelegatorState, d, c) /\ Asked(d, Stk(DelegatorState, d, c), Requests[c][d])
  BY DEF BookInv, Requesting
<1>2. is_delegator(d) /\ is_candidate(c)
  BY <1>1, AtDelegator DEF Has, is_delegator
<1> QED BY <1>1, <1>2 DEF Asked, Own

\* Only less_total and the requests change.
LEMMA ChargedStep ==
  ASSUME BookInv, NEW d, is_delegator(d), NEW u \in StakeT,
         Written(DelegatorState, DelegatorState', d, Charge(DelegatorState[d], u)),
         Requesting(Requests', DelegatorState), CandidateInfo' = CandidateInfo, round' = round
  PROVE  BookInv'
<1>1. /\ round \in Nat /\ Delegating(DelegatorState, DOMAIN CandidateInfo)
      /\ Booked(CandidateInfo, DelegatorState) /\ d \in DOMAIN DelegatorState
  BY DEF BookInv, is_delegator
<1>2. /\ Delegating(DelegatorState', DOMAIN CandidateInfo)
      /\ \A c : Alike(DelegatorState, DelegatorState', c)
  BY <1>1, Charged
<1>3. Booked(CandidateInfo, DelegatorState')
  BY <1>1, <1>2, BookedAlike
<1>4. Requesting(Requests', DelegatorState')
  BY <1>2, RequestingAlike
<1> QED BY <1>1, <1>2, <1>3, <1>4 DEF BookInv

\* What BookInv says of a delegation.
LEMMA AtPair ==
  ASSUME BookInv, NEW d, is_delegator(d), NEW c \in DOMAIN DelegatorState[d].delegations
  PROVE  /\ Has(DelegatorState, d, c) /\ is_candidate(c) /\ c \in Collators
         /\ Stk(DelegatorState, d, c) = DelegatorState[d].delegations[c]
         /\ Own(d, Stk(DelegatorState, d, c)) /\ Stk(DelegatorState, d, c).amount > 0
         /\ Stk(DelegatorState, d, c) \in StakeT
         /\ Bond(d, Stk(DelegatorState, d, c)) \in Held(DelegatorState, c)
<1>1. /\ Kept(d, DelegatorState[d]) /\ Has(DelegatorState, d, c) /\ is_candidate(c)
  BY AtDelegator
<1>2. c \in Collators
  BY <1>1, AtCandidate
<1>3. /\ Stk(DelegatorState, d, c) = DelegatorState[d].delegations[c]
      /\ Own(d, DelegatorState[d].delegations[c]) /\ DelegatorState[d].delegations[c].amount > 0
  BY <1>1 DEF Kept, Stk
<1>4. Bond(d, Stk(DelegatorState, d, c)) \in Held(DelegatorState, c)
  BY <1>1, HeldIs
<1> QED BY <1>1, <1>2, <1>3, <1>4 DEF Own

\* A new request of d, of the stake s.
LEMMA ScheduleStep ==
  ASSUME BookInv, NEW d, is_delegator(d), NEW c \in DOMAIN DelegatorState[d].delegations,
         NEW q, Asked(d, Stk(DelegatorState, d, c), q), NEW s \in StakeT,
         Requests' = [Requests EXCEPT ![c] = Put(@, d, q)],
         DelegatorState' = [DelegatorState EXCEPT ![d].less_total = Plus(@, s)],
         UnchangedBySchedule
  PROVE  BookInv'
<1>1. Has(DelegatorState, d, c) /\ c \in Collators /\ Requesting(Requests, DelegatorState)
  BY AtPair DEF BookInv
<1>2. Requesting(Requests', DelegatorState)
  BY <1>1, RequestPut
<1>3. DelegatorState[d].less_total \in StakeT /\ d \in DOMAIN DelegatorState
  BY AtDelegator, DelegatorParts
<1> DEFINE u == Plus(DelegatorState[d].less_total, s)
<1>4. u \in StakeT
  BY <1>3, PlusParts
<1>5. Written(DelegatorState, DelegatorState', d, Charge(DelegatorState[d], u))
  BY <1>3 DEF Written, Charge
<1>6. CandidateInfo' = CandidateInfo /\ round' = round
  BY DEF UnchangedBySchedule
<1> HIDE DEF u
<1> QED BY <1>2, <1>4, <1>5, <1>6, ChargedStep

\* schedule_revoke_delegation keeps BookInv.
LEMMA ScheduleRevokeStep ==
  ASSUME BookInv, NEW d, NEW c \in Collators, schedule_revoke_delegation(d, c)
  PROVE  BookInv'
<1> DEFINE s == DelegatorState[d].delegations[c]
           q == Request("Revoke", s, RevokeDelegationDelay)
<1>1. /\ is_delegator(d) /\ c \in DOMAIN DelegatorState[d].delegations
      /\ Requests' = [Requests EXCEPT ![c] = Put(@, d, q)]
      /\ DelegatorState' = [DelegatorState EXCEPT ![d].less_total = Plus(@, s)]
      /\ UnchangedBySchedule
  BY DEF schedule_revoke_delegation
<1>2. /\ Stk(DelegatorState, d, c) = s /\ Own(d, s) /\ s \in StakeT
  BY <1>1, AtPair
<1>3. s.amount \in Nat
  BY <1>2, StakeParts
<1>4. round + RevokeDelegationDelay \in Nat
  BY DelaysAre DEF BookInv
<1>5. Asked(d, Stk(DelegatorState, d, c), q)
  BY <1>2, <1>3, <1>4 DEF Asked, Request, RequestT
<1> HIDE DEF q, s
<1> QED BY <1>1, <1>2, <1>5, ScheduleStep

\* schedule_delegator_bond_less keeps BookInv.
LEMMA ScheduleLessStep ==
  ASSUME BookInv, NEW d, NEW c \in Collators, NEW a \in Amounts, schedule_delegator_bond_less(d, c, a)
  PROVE  BookInv'
<1> DEFINE s == power(d, a)
           q == Request("Decrease", s, RevokeDelegationDelay)
<1>1. /\ is_delegator(d) /\ c \in DOMAIN DelegatorState[d].delegations
      /\ Requests' = [Requests EXCEPT ![c] = Put(@, d, q)]
      /\ DelegatorState' = [DelegatorState EXCEPT ![d].less_total = Plus(@, s)]
      /\ UnchangedBySchedule /\ Below(s, DelegatorState[d].delegations[c])
  BY DEF schedule_delegator_bond_less
<1>2. /\ Stk(DelegatorState, d, c) = DelegatorState[d].delegations[c]
      /\ Own(d, Stk(DelegatorState, d, c)) /\ Stk(DelegatorState, d, c) \in StakeT
  BY <1>1, AtPair
<1>3. d \in Accounts
  BY <1>1, AtDelegator
<1>4. Own(d, s) /\ s \in StakeT
  BY <1>3, AmountsAre, OwnPower DEF Own
<1>5. round + RevokeDelegationDelay \in Nat
  BY DelaysAre DEF BookInv
<1> HIDE DEF s
<1>6. s.amount \in Nat /\ Stk(DelegatorState, d, c).amount \in Nat
      /\ s.amount < Stk(DelegatorState, d, c).amount
  BY <1>1, <1>2, <1>3, <1>4, OwnOrder, StakeParts
<1>7. Asked(d, Stk(DelegatorState, d, c), q)
  BY <1>4, <1>5, <1>6 DEF Asked, Request, RequestT
<1> HIDE DEF q
<1> QED BY <1>1, <1>4, <1>7, ScheduleStep

\* cancel_delegation_request keeps BookInv.
LEMMA CancelStep ==
  ASSUME BookInv, NEW d, NEW c \in Collators, cancel_delegation_request(d, c)
  PROVE  BookInv'
<1> DEFINE u == Minus(DelegatorState[d].less_total, Requests[c][d].stake)
<1>1. /\ is_delegator(d) /\ d \in DOMAIN Requests[c]
      /\ Requests' = [Requests EXCEPT ![c] = Drop(@, d)]
      /\ DelegatorState' = [DelegatorState EXCEPT
                          ![d].less_total = Minus(@, Requests[c][d].stake)]
      /\ UnchangedBySchedule
  BY DEF cancel_delegation_request
<1>2. d \in DOMAIN DelegatorState /\ DelegatorState[d].less_total \in StakeT
  BY <1>1, AtDelegator, DelegatorParts
<1>3. u \in StakeT
  BY <1>1, <1>2, AtRequest, MinusParts
<1>4. Written(DelegatorState, DelegatorState', d, Charge(DelegatorState[d], u))
  BY <1>1, <1>2 DEF Written, Charge
<1>5. Requesting(Requests', DelegatorState)
  <2>1. Requesting(Requests, DelegatorState)
    BY DEF BookInv
  <2>2. (\A e : e # c => Alike(DelegatorState, DelegatorState, e))
        /\ AlikeBut(DelegatorState, DelegatorState, c, d)
    BY DEF Alike, AlikeBut
  <2> QED BY <1>1, <2>1, <2>2, RequestDrop
<1>6. CandidateInfo' = CandidateInfo /\ round' = round
  BY <1>1 DEF UnchangedBySchedule
<1> HIDE DEF u
<1> QED BY <1>1, <1>3, <1>4, <1>5, <1>6, ChargedStep

\* A delegation made greater, in the record of its delegator and in the book of its candidate.
LEMMA RaisedAt ==
  ASSUME NEW CI, NEW DS, Delegating(DS, DOMAIN CI), Booked(CI, DS), Requesting(Requests, DS),
         NEW d, NEW c, Has(DS, d, c), NEW more, Own(d, more), ~RevokePending(c, d),
         NEW k, k = increase_delegation(CI[c], d, DS[d].delegations[c], more),
         NEW CI2, DOMAIN CI2 = DOMAIN CI, CI2[c] = k, \A e \in DOMAIN CI \ {c} : CI2[e] = CI[e],
         NEW DS2, Written(DS, DS2, d, Raised(DS[d], c, more))
  PROVE  /\ Delegating(DS2, DOMAIN CI2) /\ Booked(CI2, DS2) /\ Requesting(Requests, DS2)
         /\ SameCandidate(CI[c], k)
<1> DEFINE b == Bond(d, Stk(DS, d, c))
           s == Raised(DS[d], c, more)
<1>1. /\ d \in DOMAIN DS /\ c \in DOMAIN DS[d].delegations /\ c \in DOMAIN CI /\ c \in Collators
      /\ d \in Delegators /\ d \in Accounts /\ Kept(d, DS[d]) /\ d \notin DOMAIN CI
      /\ DOMAIN DS[d].delegations \subseteq DOMAIN CI
  BY AccountsAre DEF Delegating, Booked, Has
<1>2. /\ Stk(DS, d, c) = DS[d].delegations[c] /\ Stk(DS, d, c) \in StakeT
      /\ b \in Held(DS, c)
  BY <1>1, HeldIs DEF Stk, Kept, Own
<1>3. b.owner = d /\ b.stake = Stk(DS, d, c) /\ more \in StakeT
  BY DEF Bond, Own
<1>4. BookOf(CI[c], Held(DS, c)) /\ Backed(c, CI[c])
  BY <1>1 DEF Booked
<1>5. /\ Kept(d, s) /\ DOMAIN s.delegations = DOMAIN DS[d].delegations
      /\ s.delegations[c] = Plus(DS[d].delegations[c], more)
      /\ \A e \in DOMAIN DS[d].delegations \ {c} : s.delegations[e] = DS[d].delegations[e]
  BY <1>1, KeptMore
<1>6. /\ BookOf(k, Leave(Held(DS, c), d) \cup {Bond(d, Plus(Stk(DS, d, c), more))})
      /\ SameCandidate(CI[c], k)
  <2> HIDE DEF b
  <2>1. /\ BookOf(increase_delegation(CI[c], b.owner, b.stake, more),
                   Leave(Held(DS, c), b.owner) \cup {Bond(b.owner, Plus(b.stake, more))})
        /\ SameCandidate(CI[c], increase_delegation(CI[c], b.owner, b.stake, more))
    BY <1>2, <1>3, <1>4, BookInc
  <2> QED BY <1>2, <1>3, <2>1
<1> HIDE DEF s, b
<1>7. SameBut(DS, d, c, s)
  BY <1>1, <1>5 DEF SameBut, Has, Stk
<1>8. /\ Delegating(DS2, DOMAIN CI) /\ AlikeBut(DS, DS2, c, d)
      /\ \A e : e # c => Alike(DS, DS2, e)
      /\ Has(DS2, d, c) /\ Stk(DS2, d, c) = Plus(Stk(DS, d, c), more)
  <2>1. /\ Delegating(DS2, DOMAIN CI) /\ AlikeBut(DS, DS2, c, d)
        /\ \A e : e # c => Alike(DS, DS2, e)
        /\ Has(DS2, d, c) <=> c \in DOMAIN s.delegations
        /\ Stk(DS2, d, c) = s.delegations[c]
    <3>1. DOMAIN s.delegations # {} /\ DOMAIN s.delegations \subseteq DOMAIN CI
      BY <1>1, <1>5
    <3>2. Written(DS, DS2, d, s)
      BY DEF s
    <3> QED BY <1>1, <1>5, <1>7, <3>1, <3>2, UpdatedAt
  <2> QED BY <1>1, <1>2, <1>5, <2>1
<1>9. Booked(CI2, DS2)
  <2>1. Held(DS2, c) = Leave(Held(DS, c), d) \cup {Bond(d, Stk(DS2, d, c))}
    BY <1>8, HeldSet
  <2>2. BookOf(CI2[c], Held(DS2, c)) /\ Backed(c, CI2[c])
    BY <1>4, <1>6, <1>8, <2>1, BackedSame
  <2> QED BY <1>1, <1>8, <2>2, BookedAt
<1>10. Requesting(Requests, DS2)
  <2>1. ASSUME NEW e \in Collators, NEW x \in DOMAIN Requests[e], <<e, x>> # <<c, d>>
        PROVE  Has(DS2, x, e) /\ Asked(x, Stk(DS2, x, e), Requests[e][x])
    <3>1. Has(DS, x, e) /\ Asked(x, Stk(DS, x, e), Requests[e][x])
      BY DEF Requesting
    <3>2. Has(DS2, x, e) /\ Stk(DS2, x, e) = Stk(DS, x, e)
      BY <1>8, <2>1, <3>1 DEF Alike, AlikeBut
    <3> QED BY <3>1, <3>2
  <2>2. ASSUME d \in DOMAIN Requests[c]
        PROVE  Asked(d, Stk(DS2, d, c), Requests[c][d])
    <3> DEFINE q == Requests[c][d]
    <3>1. /\ q \in RequestT /\ Own(d, q.stake) /\ q.stake.amount <= Stk(DS, d, c).amount
          /\ q.action # "Revoke"
      BY <1>1, <2>2 DEF Requesting, Asked, RevokePending
    <3>2. Stk(DS2, d, c).amount = Stk(DS, d, c).amount + more.amount
      BY <1>2, <1>3, <1>8, PlusParts
    <3>3. q.stake.amount \in Nat /\ Stk(DS, d, c).amount \in Nat /\ more.amount \in Nat
      BY <1>2, <1>3, <3>1, StakeParts DEF Own
    <3> HIDE DEF q
    <3>4. q.stake.amount <= Stk(DS2, d, c).amount
      BY <3>1, <3>2, <3>3
    <3>5. Asked(d, Stk(DS2, d, c), q)
      BY <3>1, <3>4 DEF Asked
    <3> QED BY <3>5 DEF q
  <2> QED BY <1>8, <2>1, <2>2 DEF Requesting
<1> QED BY <1>6, <1>8, <1>9, <1>10

\* delegation_bond_more_without_event, for a stake of d.
LEMMA MoreStep ==
  ASSUME BookInv, NEW d, NEW c, NEW more, Own(d, more), CanBondMore(d, c, more),
         delegation_bond_more_without_event(d, c, more), round' = round, Requests' = Requests
  PROVE  BookInv'
<1> DEFINE DS == DelegatorState
           DS2 == DelegatorState'
           CI == CandidateInfo
           CI2 == CandidateInfo'
           k == increase_delegation(CI[c], d, DS[d].delegations[c], more)
<1>1. /\ is_delegator(d) /\ c \in DOMAIN DS[d].delegations /\ is_candidate(c)
      /\ ~RevokePending(c, d)
  BY DEF CanBondMore
<1>2. CI2 = [CI EXCEPT ![c] = k] /\ DS2 = [DS EXCEPT ![d] = Raised(DS[d], c, more)]
  BY DEF delegation_bond_more_without_event, Raised
<1>3. /\ Delegating(DS, DOMAIN CI) /\ Booked(CI, DS) /\ Requesting(Requests, DS)
      /\ Has(DS, d, c) /\ c \in DOMAIN CI /\ d \in DOMAIN DS
  BY <1>1 DEF BookInv, Has, is_delegator, is_candidate
<1>4. Written(DS, DS2, d, Raised(DS[d], c, more))
  BY <1>2, <1>3 DEF Written
<1>5. /\ DOMAIN CI2 = DOMAIN CI /\ CI2[c] = k /\ \A e \in DOMAIN CI \ {c} : CI2[e] = CI[e]
  BY <1>2, <1>3
<1>6. PICK kk : kk = k
  OBVIOUS
<1> HIDE DEF DS, DS2, CI, CI2
<1>7. Delegating(DS2, DOMAIN CI2) /\ Booked(CI2, DS2) /\ Requesting(Requests, DS2)
  BY <1>1, <1>3, <1>4, <1>5, <1>6, RaisedAt
<1> QED BY <1>7 DEF BookInv, DS2, CI2

\* delegator_bond_more keeps BookInv.
LEMMA BondMoreStep ==
  ASSUME BookInv, NEW d, NEW c, NEW a \in Amounts, delegator_bond_more(d, c, a)
  PROVE  BookInv'
<1> DEFINE more == power(d, a)
<1>1. /\ CanBondMore(d, c, more) /\ delegation_bond_more_without_event(d, c, more)
      /\ round' = round /\ Requests' = Requests
  BY DEF delegator_bond_more
<1>2. d \in Accounts
  BY <1>1, AtDelegator DEF CanBondMore
<1>3. Own(d, more)
  BY <1>2, AmountsAre, OwnPower
<1> HIDE DEF more
<1> QED BY <1>1, <1>3, MoreStep

\* A delegator without the delegation to c: its record, or nothing.
LEMMA TakenOut ==
  ASSUME NEW DS, NEW K, Delegating(DS, K), NEW d \in DOMAIN DS, NEW c \in DOMAIN DS[d].delegations,
         NEW s, Kept(d, s), DOMAIN s.delegations = DOMAIN DS[d].delegations \ {c},
         \A e \in DOMAIN DS[d].delegations \ {c} : s.delegations[e] = DS[d].delegations[e],
         NEW DS2, IF DOMAIN s.delegations = {} THEN Erased(DS, DS2, d) ELSE Written(DS, DS2, d, s)
  PROVE  /\ Delegating(DS2, K) /\ AlikeBut(DS, DS2, c, d) /\ \A e : e # c => Alike(DS, DS2, e)
         /\ ~Has(DS2, d, c) /\ Held(DS2, c) = Leave(Held(DS, c), d)
<1>1. d \in Delegators /\ d \notin K /\ DOMAIN DS[d].delegations \subseteq K
  BY DEF Delegating
<1>2. CASE DOMAIN s.delegations = {}
  <2>1. \A e : Has(DS, d, e) => e = c
    BY <1>2 DEF Has
  <2>2. Erased(DS, DS2, d)
    BY <1>2
  <2>3. /\ Delegating(DS2, K) /\ AlikeBut(DS, DS2, c, d) /\ \A e : e # c => Alike(DS, DS2, e)
        /\ ~Has(DS2, d, c)
    BY <2>1, <2>2, ErasedAt
  <2> QED BY <2>3, HeldDropped
<1>3. CASE DOMAIN s.delegations # {}
  <2>1. SameBut(DS, d, c, s)
    BY DEF SameBut, Has, Stk
  <2>2. Written(DS, DS2, d, s)
    BY <1>3
  <2>3. DOMAIN s.delegations \subseteq K /\ c \notin DOMAIN s.delegations
    BY <1>1
  <2>4. /\ Delegating(DS2, K) /\ AlikeBut(DS, DS2, c, d) /\ \A e : e # c => Alike(DS, DS2, e)
        /\ ~Has(DS2, d, c)
    BY <1>1, <1>3, <2>1, <2>2, <2>3, UpdatedAt
  <2> QED BY <2>4, HeldDropped
<1> QED BY <1>2, <1>3

\* The record of a delegator that revokes a delegation.
LEMMA RevokedIs ==
  ASSUME NEW d \in Accounts, NEW s, Kept(d, s), NEW c \in DOMAIN s.delegations, NEW stake \in StakeT
  PROVE  /\ Kept(d, Revoked(s, c, stake))
         /\ DOMAIN Revoked(s, c, stake).delegations = DOMAIN s.delegations \ {c}
         /\ \A e \in DOMAIN s.delegations \ {c} :
              Revoked(s, c, stake).delegations[e] = s.delegations[e]
         /\ Revoked(s, c, stake).total.amount = s.total.amount - s.delegations[c].amount
         /\ Revoked(s, c, stake).less_total = Minus(s.less_total, stake)
<1> DEFINE u == Minus(s.less_total, stake)
           r == Charge(s, u)
<1>1. s \in DelegatorT /\ s.less_total \in StakeT
  BY DelegatorParts DEF Kept
<1>2. u \in StakeT
  BY <1>1, MinusParts
<1>3. Kept(d, r) /\ r.delegations = s.delegations /\ r.total = s.total /\ r.less_total = u
  BY <1>1, <1>2, KeptLessTotal, LessTotalMade
<1>4. Revoked(s, c, stake) = rm_delegation(r, c)
  BY <1>1 DEF Revoked, Charge
<1> HIDE DEF r
<1>5. /\ Kept(d, rm_delegation(r, c))
      /\ DOMAIN rm_delegation(r, c).delegations = DOMAIN r.delegations \ {c}
      /\ \A e \in DOMAIN r.delegations \ {c} :
           rm_delegation(r, c).delegations[e] = r.delegations[e]
      /\ rm_delegation(r, c).total.amount = r.total.amount - r.delegations[c].amount
      /\ rm_delegation(r, c).less_total = r.less_total
  BY <1>3, KeptRm
<1> QED BY <1>3, <1>4, <1>5

\* execute_delegation_request of a Revoke keeps BookInv: the stake of the request is
\* still that of the delegation, so that the guess of the list is right.
LEMMA RevokeStep ==
  ASSUME BookInv, NEW d, NEW c \in Collators, execute_delegation_request(d, c),
         Requests[c][d].action = "Revoke"
  PROVE  BookInv'
<1> DEFINE DS == DelegatorState
           stake == Requests[c][d].stake
           s == Revoked(DS[d], c, stake)
           k == rm_delegation_if_exists(CandidateInfo[c], d, stake)
           b == Bond(d, Stk(DS, d, c))
<1>1. /\ d \in DOMAIN Requests[c] /\ is_delegator(d) /\ is_candidate(c)
      /\ c \in DOMAIN DS[d].delegations /\ execute_revoke(d, c, stake)
      /\ Requests' = [Requests EXCEPT ![c] = Drop(@, d)] /\ round' = round
  BY DEF execute_delegation_request
<1>2. /\ DS' = IF DOMAIN s.delegations = {} THEN Drop(DS, d) ELSE [DS EXCEPT ![d] = s]
      /\ CandidateInfo' = [CandidateInfo EXCEPT ![c] = k]
  BY <1>1 DEF execute_revoke
<1>3. /\ Stk(DS, d, c) = stake /\ stake \in StakeT /\ b \in Held(DS, c)
  BY <1>1, AtRequest, AtPair DEF Asked
<1>4. /\ d \in Accounts /\ Kept(d, DS[d]) /\ d \in DOMAIN DS
  BY <1>1, AtDelegator
<1>5. /\ Kept(d, s) /\ DOMAIN s.delegations = DOMAIN DS[d].delegations \ {c}
      /\ \A e \in DOMAIN DS[d].delegations \ {c} : s.delegations[e] = DS[d].delegations[e]
  <2> HIDE DEF stake
  <2> QED BY <1>1, <1>3, <1>4, RevokedIs
<1>6. BookOf(k, Leave(Held(DS, c), d)) /\ SameCandidate(CandidateInfo[c], k)
  <2>1. BookOf(CandidateInfo[c], Held(DS, c))
    BY <1>1, AtCandidate
  <2>2. b.owner = d /\ b.stake = stake
    BY <1>3 DEF Bond
  <2> HIDE DEF b, stake
  <2>3. /\ BookOf(rm_delegation_if_exists(CandidateInfo[c], b.owner, b.stake), Leave(Held(DS, c), b.owner))
        /\ SameCandidate(CandidateInfo[c], rm_delegation_if_exists(CandidateInfo[c], b.owner, b.stake))
    BY <1>3, <2>1, BookRm
  <2> QED BY <2>2, <2>3
<1> HIDE DEF s, k, b, stake
<1>7. IF DOMAIN s.delegations = {} THEN Erased(DS, DS', d) ELSE Written(DS, DS', d, s)
  <2>1. CASE DOMAIN s.delegations = {}
    BY <1>2, <2>1 DEF Erased, Drop, Restrict
  <2>2. CASE DOMAIN s.delegations # {}
    BY <1>2, <1>4, <2>2 DEF Written
  <2> QED BY <2>1, <2>2
<1>8. Delegating(DS, DOMAIN CandidateInfo) /\ Requesting(Requests, DS)
  BY DEF BookInv
<1>9. /\ Delegating(DS', DOMAIN CandidateInfo) /\ AlikeBut(DS, DS', c, d)
      /\ \A e : e # c => Alike(DS, DS', e)
      /\ Held(DS', c) = Leave(Held(DS, c), d)
  BY <1>1, <1>4, <1>5, <1>7, <1>8, TakenOut
<1>10. Requesting(Requests', DS')
  BY <1>1, <1>8, <1>9, RequestDrop
<1>11. BookOf(k, Held(DS', c))
  BY <1>6, <1>9
<1> QED BY <1>1, <1>2, <1>6, <1>9, <1>10, <1>11, PairStep

\* The record of a delegator with a delegation made smaller.
LEMMA DecreasedIs ==
  ASSUME NEW d \in Accounts, NEW s, Kept(d, s), NEW c \in DOMAIN s.delegations, NEW stake,
         Own(d, stake), stake.amount < s.delegations[c].amount
  PROVE  /\ Kept(d, Decreased(s, c, stake))
         /\ DOMAIN Decreased(s, c, stake).delegations = DOMAIN s.delegations
         /\ Decreased(s, c, stake).delegations[c] = Minus(s.delegations[c], stake)
         /\ \A e \in DOMAIN s.delegations \ {c} :
              Decreased(s, c, stake).delegations[e] = s.delegations[e]
         /\ Decreased(s, c, stake).total.amount = s.total.amount - stake.amount
         /\ stake.amount <= s.total.amount
         /\ Decreased(s, c, stake).less_total = Minus(s.less_total, stake)
<1> DEFINE u == Minus(s.less_total, stake)
           r == Charge(s, u)
<1>1. s \in DelegatorT /\ s.less_total \in StakeT /\ stake \in StakeT
  BY DelegatorParts DEF Kept, Own
<1>2. u \in StakeT
  BY <1>1, MinusParts
<1>3. Kept(d, r) /\ r.delegations = s.delegations /\ r.total = s.total /\ r.less_total = u
  BY <1>1, <1>2, KeptLessTotal, LessTotalMade
<1>4. Decreased(s, c, stake) = Lowered(r, c, stake)
  BY <1>1 DEF Decreased, Lowered, Charge, DelegatorT
<1> HIDE DEF r
<1> DEFINE l == Lowered(r, c, stake)
<1>5. /\ Kept(d, l) /\ DOMAIN l.delegations = DOMAIN r.delegations
      /\ l.delegations[c] = Minus(r.delegations[c], stake)
      /\ \A e \in DOMAIN r.delegations \ {c} : l.delegations[e] = r.delegations[e]
      /\ l.total.amount = r.total.amount - stake.amount /\ stake.amount <= r.total.amount
      /\ l.less_total = r.less_total
  BY <1>3, KeptLess
<1> QED BY <1>3, <1>4, <1>5

\* execute_delegation_request of a Decrease keeps BookInv.
LEMMA DecreaseStep ==
  ASSUME BookInv, NEW d, NEW c \in Collators, execute_delegation_request(d, c),
         Requests[c][d].action # "Revoke"
  PROVE  BookInv'
<1> DEFINE DS == DelegatorState
           stake == Requests[c][d].stake
           s == Decreased(DS[d], c, stake)
           k == decrease_delegation(CandidateInfo[c], d, DS[d].delegations[c], stake)
           b == Bond(d, Stk(DS, d, c))
<1>1. /\ d \in DOMAIN Requests[c] /\ is_delegator(d) /\ is_candidate(c)
      /\ c \in DOMAIN DS[d].delegations /\ execute_decrease(d, c, stake)
      /\ Requests' = [Requests EXCEPT ![c] = Drop(@, d)] /\ round' = round
  BY DEF execute_delegation_request
<1>2. /\ DS' = [DS EXCEPT ![d] = s] /\ CandidateInfo' = [CandidateInfo EXCEPT ![c] = k]
      /\ Below(stake, DS[d].delegations[c])
  BY <1>1 DEF execute_decrease, CanDecrease
<1>3. /\ Stk(DS, d, c) = DS[d].delegations[c] /\ Own(d, Stk(DS, d, c)) /\ Own(d, stake)
      /\ b \in Held(DS, c) /\ stake \in StakeT /\ Stk(DS, d, c) \in StakeT
  BY <1>1, AtRequest, AtPair DEF Asked
<1>4. /\ d \in Accounts /\ Kept(d, DS[d]) /\ d \in DOMAIN DS /\ d \in Delegators
      /\ d \notin DOMAIN CandidateInfo
  BY <1>1, AtDelegator DEF is_candidate
<1> HIDE DEF stake
<1>5. stake.amount < Stk(DS, d, c).amount /\ Within(stake, Stk(DS, d, c))
  <2>1. stake.amount < Stk(DS, d, c).amount
    BY <1>2, <1>3, <1>4, OwnOrder
  <2>2. stake.amount \in Nat /\ Stk(DS, d, c).amount \in Nat
    BY <1>3, StakeParts
  <2>3. stake.amount <= Stk(DS, d, c).amount
    BY <2>1, <2>2
  <2> QED BY <1>3, <1>4, <2>1, <2>3, OwnOrder
<1>6. /\ Kept(d, s) /\ DOMAIN s.delegations = DOMAIN DS[d].delegations
      /\ s.delegations[c] = Minus(DS[d].delegations[c], stake)
      /\ \A e \in DOMAIN DS[d].delegations \ {c} : s.delegations[e] = DS[d].delegations[e]
  BY <1>1, <1>3, <1>4, <1>5, DecreasedIs
<1>7. /\ BookOf(k, Leave(Held(DS, c), d) \cup {Bond(d, Minus(Stk(DS, d, c), stake))})
      /\ SameCandidate(CandidateInfo[c], k)
  <2>1. BookOf(CandidateInfo[c], Held(DS, c))
    BY <1>1, AtCandidate
  <2>2. b.owner = d /\ b.stake = Stk(DS, d, c)
    BY DEF Bond
  <2> HIDE DEF b
  <2>3. /\ BookOf(decrease_delegation(CandidateInfo[c], b.owner, b.stake, stake),
                   Leave(Held(DS, c), b.owner) \cup {Bond(b.owner, Minus(b.stake, stake))})
        /\ SameCandidate(CandidateInfo[c], decrease_delegation(CandidateInfo[c], b.owner, b.stake, stake))
    BY <1>3, <1>5, <2>1, <2>2, BookDec
  <2> QED BY <1>3, <2>2, <2>3
<1> HIDE DEF s, k, b
<1>8. Delegating(DS, DOMAIN CandidateInfo) /\ Requesting(Requests, DS)
      /\ DOMAIN DS[d].delegations \subseteq DOMAIN CandidateInfo
  BY <1>4 DEF BookInv, Delegating
<1>9. Written(DS, DS', d, s) /\ SameBut(DS, d, c, s)
  BY <1>2, <1>4, <1>6 DEF Written, SameBut, Has, Stk
<1>10. /\ Delegating(DS', DOMAIN CandidateInfo) /\ AlikeBut(DS, DS', c, d)
       /\ \A e : e # c => Alike(DS, DS', e)
       /\ Has(DS', d, c) /\ Stk(DS', d, c) = Minus(Stk(DS, d, c), stake)
  <2>1. /\ Delegating(DS', DOMAIN CandidateInfo) /\ AlikeBut(DS, DS', c, d)
        /\ \A e : e # c => Alike(DS, DS', e)
        /\ Has(DS', d, c) <=> c \in DOMAIN s.delegations
        /\ Stk(DS', d, c) = s.delegations[c]
    <3>1. DOMAIN s.delegations # {} /\ DOMAIN s.delegations \subseteq DOMAIN CandidateInfo
      BY <1>1, <1>6, <1>8
    <3> QED BY <1>4, <1>6, <1>8, <1>9, <3>1, UpdatedAt
  <2> QED BY <1>1, <1>3, <1>6, <2>1
<1>11. BookOf(k, Held(DS', c))
  <2>1. Held(DS', c) = Leave(Held(DS, c), d) \cup {Bond(d, Stk(DS', d, c))}
    BY <1>10, HeldSet
  <2> QED BY <1>7, <1>10, <2>1
<1>12. Requesting(Requests', DS')
  BY <1>1, <1>8, <1>10, RequestDrop
<1> QED BY <1>1, <1>2, <1>7, <1>10, <1>11, <1>12, PairStep

\* What the candidate's request takes off the less_total of a delegator.
LetGoLess(s, c, d) ==
  IF d \in DOMAIN Requests[c] THEN Minus(s.less_total, Requests[c][d].stake) ELSE s.less_total

\* The record of a delegator that c lets go of.
LEMMA LetGoIs ==
  ASSUME BookInv, NEW d, is_delegator(d), NEW c \in DOMAIN DelegatorState[d].delegations
  PROVE  /\ Kept(d, LetGo(c, d))
         /\ DOMAIN LetGo(c, d).delegations = DOMAIN DelegatorState[d].delegations \ {c}
         /\ \A e \in DOMAIN DelegatorState[d].delegations \ {c} :
              LetGo(c, d).delegations[e] = DelegatorState[d].delegations[e]
         /\ LetGo(c, d).total.amount
              = DelegatorState[d].total.amount - DelegatorState[d].delegations[c].amount
         /\ LetGo(c, d).less_total = LetGoLess(DelegatorState[d], c, d)
<1> DEFINE s == DelegatorState[d]
           r == rm_delegation(s, c)
<1>1. d \in Accounts /\ Kept(d, s) /\ c \in Collators
  BY AtDelegator, AtPair
<1>2. /\ Kept(d, r) /\ DOMAIN r.delegations = DOMAIN s.delegations \ {c}
      /\ \A e \in DOMAIN s.delegations \ {c} : r.delegations[e] = s.delegations[e]
      /\ r.total.amount = s.total.amount - s.delegations[c].amount
      /\ r.less_total = s.less_total
  <2> HIDE DEF s
  <2>1. c \in DOMAIN s.delegations
    BY DEF s
  <2> QED BY <1>1, <2>1, KeptRm
<1>3. LetGo(c, d) = delegation_remove_request_with_state(r, c, d)
  BY DEF LetGo
<1> HIDE DEF r
<1>4. CASE d \in DOMAIN Requests[c]
  <2> DEFINE u == Minus(r.less_total, Requests[c][d].stake)
  <2>1. Requests[c][d].stake \in StakeT /\ r.less_total \in StakeT /\ r \in DelegatorT
    BY <1>1, <1>2, <1>4, AtRequest, DelegatorParts DEF Kept
  <2>2. u \in StakeT
    BY <2>1, MinusParts
  <2>3. LetGo(c, d) = Charge(r, u)
    BY <1>3, <1>4 DEF delegation_remove_request_with_state, Charge
  <2>4. u = LetGoLess(s, c, d)
    BY <1>2, <1>4 DEF LetGoLess
  <2> HIDE DEF u
  <2>5. /\ Kept(d, Charge(r, u)) /\ Charge(r, u).delegations = r.delegations
        /\ Charge(r, u).total = r.total /\ Charge(r, u).less_total = u
    BY <1>2, <2>1, <2>2, KeptLessTotal, LessTotalMade
  <2> QED BY <1>2, <2>3, <2>4, <2>5
<1>5. CASE d \notin DOMAIN Requests[c]
  <2>1. LetGo(c, d) = r /\ LetGoLess(s, c, d) = s.less_total
    BY <1>3, <1>5 DEF delegation_remove_request_with_state, LetGoLess
  <2> QED BY <1>2, <2>1
<1> QED BY <1>4, <1>5

\* The record of d once it delegates s to c.
Enters(d, c, s) ==
  IF is_delegator(d) THEN Joined(DelegatorState[d], c, s) ELSE NewDelegator(c, s)

\* The state of the delegators once c has kicked x.
Leaves(c, x) ==
  IF x = None THEN DelegatorState
  ELSE IF Cardinality(DOMAIN DelegatorState[x].delegations) = 1 THEN Drop(DelegatorState, x)
  ELSE [DelegatorState EXCEPT ![x] = LetGo(c, x)]

\* A set without one of its elements is empty if it had no other.
LEMMA OneLeft ==
  ASSUME NEW S, IsFiniteSet(S), NEW c \in S
  PROVE  Cardinality(S) = 1 <=> S \ {c} = {}
<1>1. IsFiniteSet(S \ {c}) /\ Cardinality(S \ {c}) = Cardinality(S) - 1 /\ Cardinality(S) \in Nat
  BY FS_RemoveElement, FS_CardinalityType
<1>2. Cardinality(S \ {c}) = 0 <=> S \ {c} = {}
  BY <1>1, FS_EmptySet
<1>3. Cardinality(S) = 1 <=> Cardinality(S \ {c}) = 0
  BY <1>1
<1> QED BY <1>2, <1>3

\* The delegators once c has kicked x, or nobody.
LEMMA LeavesIs ==
  ASSUME BookInv, NEW c \in Collators, NEW x, x # None => Has(DelegatorState, x, c)
  PROVE  LET DS == DelegatorState
             DS1 == Leaves(c, x)
         IN  /\ Delegating(DS1, DOMAIN CandidateInfo) /\ AlikeBut(DS, DS1, c, x)
             /\ \A e : e # c => Alike(DS, DS1, e)
             /\ ~Has(DS1, x, c) /\ Held(DS1, c) = Leave(Held(DS, c), x)
             /\ \A e : e # x /\ e \in DOMAIN DS => e \in DOMAIN DS1 /\ DS1[e] = DS[e]
             /\ DOMAIN DS1 \subseteq DOMAIN DS
<1> DEFINE DS == DelegatorState
           DS1 == Leaves(c, x)
<1>1. Delegating(DS, DOMAIN CandidateInfo)
  BY DEF BookInv
<1>2. CASE x = None
  <2>1. DS1 = DS
    BY <1>2 DEF Leaves
  <2>2. None \notin DOMAIN DS
    BY <1>1, AccountsAre DEF Delegating
  <2>3. ~Has(DS, x, c)
    BY <1>2, <2>2 DEF Has
  <2>4. Alike(DS, DS, c) /\ AlikeBut(DS, DS, c, x) /\ \A e : e # c => Alike(DS, DS, e)
    BY DEF Alike, AlikeBut
  <2>5. Held(DS, c) = Leave(Held(DS, c), x)
    BY <2>3, <2>4, HeldDropped
  <2> HIDE DEF DS1
  <2> QED BY <1>1, <2>1, <2>3, <2>4, <2>5 DEF DS1
<1>3. CASE x # None
  <2> DEFINE s == LetGo(c, x)
             D == DOMAIN DS[x].delegations
  <2>1. is_delegator(x) /\ x \in DOMAIN DS /\ c \in D
    BY <1>3 DEF Has, is_delegator
  <2>2. /\ Kept(x, s) /\ DOMAIN s.delegations = D \ {c}
        /\ \A e \in D \ {c} : s.delegations[e] = DS[x].delegations[e]
    BY <2>1, LetGoIs
  <2>3. IsFiniteSet(D)
    <3>1. D \subseteq Collators
      BY <2>1, AtDelegator, DelegatorParts, StakesParts DEF Kept
    <3> QED BY <3>1, AccountsAre, FS_Subset
  <2>4. Cardinality(D) = 1 <=> DOMAIN s.delegations = {}
    BY <2>1, <2>2, <2>3, OneLeft
  <2> HIDE DEF s
  <2>5. IF DOMAIN s.delegations = {} THEN Erased(DS, DS1, x) ELSE Written(DS, DS1, x, s)
    <3>1. CASE DOMAIN s.delegations = {}
      BY <1>3, <2>4, <3>1 DEF Erased, Drop, Restrict, Leaves
    <3>2. CASE DOMAIN s.delegations # {}
      BY <1>3, <2>1, <2>4, <3>2 DEF Written, Leaves, s
    <3> QED BY <3>1, <3>2
  <2> HIDE DEF DS1
  <2>6. /\ Delegating(DS1, DOMAIN CandidateInfo) /\ AlikeBut(DS, DS1, c, x)
        /\ \A e : e # c => Alike(DS, DS1, e)
        /\ ~Has(DS1, x, c) /\ Held(DS1, c) = Leave(Held(DS, c), x)
    BY <1>1, <2>1, <2>2, <2>5, TakenOut
  <2>7. /\ \A e : e # x /\ e \in DOMAIN DS => e \in DOMAIN DS1 /\ DS1[e] = DS[e]
        /\ DOMAIN DS1 \subseteq DOMAIN DS
    BY <2>1, <2>5 DEF Erased, Written
  <2> QED BY <2>6, <2>7 DEF DS1
<1> QED BY <1>2, <1>3

\* What delegating means for the two books and the requests.
LEMMA DelegateIs ==
  ASSUME BookInv, NEW d \in Delegators, NEW c \in Collators, NEW a \in Amounts, NEW p,
         delegate_with_auto_compound(d, c, a, p)
  PROVE  LET DS == DelegatorState
             s  == power(d, a)
             b  == Bond(d, s)
             k  == CandidateInfo[c]
             x  == KickedBy(k, b)
         IN  /\ Own(d, s) /\ s.amount = a /\ is_candidate(c) /\ ~is_candidate(d) /\ ~Has(DS, d, c)
             /\ CanAdd(k, b) /\ x # d
             /\ x # None => Has(DS, x, c)
             /\ CandidateInfo' = [CandidateInfo EXCEPT ![c] = add_delegation(k, b)]
             /\ Requests' = [Requests EXCEPT ![c] = Drop(@, x)] /\ round' = round
             /\ Written(Leaves(c, x), DS', d, Enters(d, c, s))
             /\ BookOf(add_delegation(k, b), Leave(Held(DS, c), x) \cup {b})
             /\ SameCandidate(k, add_delegation(k, b))
<1> DEFINE DS == DelegatorState
           s  == power(d, a)
           b  == Bond(d, s)
           k  == CandidateInfo[c]
           x  == KickedBy(k, b)
           leaves == x # None /\ Cardinality(DOMAIN DS[x].delegations) = 1
           rest == IF x = None THEN Empty ELSE LetGo(c, x)
<1>1. d \in Accounts /\ a \in Nat
  BY AccountsAre, AmountsAre
<1>2. Own(d, s) /\ s.amount = a
  BY <1>1, OwnPower DEF power, Stake
<1>3. /\ is_candidate(c) /\ CanAdd(k, b)
      /\ CandidateInfo' = [CandidateInfo EXCEPT ![c] = add_delegation(k, b)]
      /\ Requests' = [Requests EXCEPT ![c] = Drop(@, x)] /\ round' = round
      /\ IF is_delegator(d) THEN c \notin DOMAIN DS[d].delegations ELSE ~is_candidate(d)
  BY DEF delegate_with_auto_compound
<1>4. ~Has(DS, d, c) /\ ~is_candidate(d)
  BY <1>3, AtDelegator DEF Has, is_delegator
<1>5. BookOf(k, Held(DS, c)) /\ b \in BondT /\ b.owner \notin Owners(Held(DS, c))
  <2>1. b \in BondT /\ b.owner = d
    BY <1>1, <1>2 DEF BondT, Bond, Own
  <2> QED BY <1>3, <1>4, <2>1, AtCandidate, HeldIs
<1>6. /\ BookOf(add_delegation(k, b), Leave(Held(DS, c), x) \cup {b})
      /\ SameCandidate(k, add_delegation(k, b))
      /\ x # None => x \in Owners(Held(DS, c))
  <2> HIDE DEF k, b
  <2> QED BY <1>3, <1>5, BookAdd
<1>7. (x # None => Has(DS, x, c)) /\ (x # None => x \in DOMAIN DS)
  <2> HIDE DEF x
  <2> QED BY <1>6, HeldIs DEF Has
<1>8. x # d
  <2> HIDE DEF x
  <2> QED BY <1>1, <1>4, <1>7, AccountsAre
<1> DEFINE G(e) == CASE e = d -> Enters(d, c, s) [] e = x -> rest [] OTHER -> DS[e]
           N == (DOMAIN DS \ (IF leaves THEN {x} ELSE {})) \cup {d}
<1>9. DS' = [e \in N |-> G(e)]
  BY DEF delegate_with_auto_compound, Enters, Joined
<1> HIDE DEF x, s
<1>12. /\ G(d) = Enters(d, c, s) /\ G(x) = rest
       /\ \A e : e # d /\ e # x => G(e) = DS[e]
  BY <1>8
<1> HIDE DEF G
<1>10. None \notin DOMAIN DS
  BY AccountsAre DEF BookInv, Delegating
<1>11. Written(Leaves(c, x), DS', d, Enters(d, c, s))
  <2>1. DOMAIN DS' = (DOMAIN DS \ (IF leaves THEN {x} ELSE {})) \cup {d}
        /\ DS'[d] = Enters(d, c, s)
    <3> HIDE DEF leaves
    <3> QED BY <1>9, <1>12
  <2>2. \A e \in DOMAIN DS' : e # d /\ e # x => DS'[e] = DS[e]
    <3> HIDE DEF N
    <3> QED BY <1>9, <1>12
  <2>3. x \in DOMAIN DS' => x # None /\ DS'[x] = LetGo(c, x)
    <3>1. x \in DOMAIN DS' => x # None
      BY <1>1, <1>10, <2>1, AccountsAre
    <3>2. x \in DOMAIN DS' => DS'[x] = G(x)
      <4> HIDE DEF N
      <4> QED BY <1>9
    <3> QED BY <1>12, <3>1, <3>2
  <2>4. CASE x = None
    BY <1>10, <2>1, <2>2, <2>4 DEF Leaves, Written
  <2>5. CASE leaves
    BY <1>8, <2>1, <2>2, <2>5 DEF Leaves, Written, Drop, Restrict
  <2>6. CASE x # None /\ ~leaves
    <3>1. Leaves(c, x) = [DS EXCEPT ![x] = LetGo(c, x)]
      BY <2>6 DEF Leaves
    <3>2. x \in DOMAIN DS' /\ DS'[x] = LetGo(c, x)
      BY <1>7, <2>1, <2>3, <2>6
    <3> HIDE DEF leaves, rest
    <3>3. DOMAIN DS' = DOMAIN DS \cup {d}
      BY <2>1, <2>6
    <3> QED BY <1>7, <2>1, <2>2, <3>1, <3>2, <3>3 DEF Written
  <2> QED BY <2>4, <2>5, <2>6
<1> QED BY <1>2, <1>3, <1>4, <1>6, <1>7, <1>8, <1>11 DEF x, s

\* The record that delegating leaves.
LEMMA EntersIs ==
  ASSUME BookInv, NEW d \in Delegators, NEW c \in Collators, ~Has(DelegatorState, d, c),
         NEW s, Own(d, s), s.amount > 0
  PROVE  LET D == IF is_delegator(d) THEN DOMAIN DelegatorState[d].delegations ELSE {}
             r == Enters(d, c, s)
         IN  /\ Kept(d, r) /\ DOMAIN r.delegations = D \cup {c} /\ r.delegations[c] = s
             /\ \A e \in D : r.delegations[e] = DelegatorState[d].delegations[e]
             /\ r.total.amount = s.amount + (IF is_delegator(d) THEN DelegatorState[d].total.amount
                                                               ELSE 0)
             /\ r.less_total = IF is_delegator(d) THEN DelegatorState[d].less_total
                                                  ELSE ZeroStake
<1>1. d \in Accounts /\ s.amount \in Nat
  BY AccountsAre, StakeParts DEF Own
<1>2. CASE is_delegator(d)
  <2> DEFINE t == DelegatorState[d]
             r == Joined(t, c, s)
  <2>1. Enters(d, c, s) = r
    BY <1>2 DEF Enters
  <2>2. Kept(d, t) /\ c \notin DOMAIN t.delegations /\ t.total.amount \in Nat
    <3>1. Kept(d, t)
      BY <1>2, AtDelegator
    <3>2. t.total \in StakeT
      BY <3>1, DelegatorParts DEF Kept
    <3> QED BY <1>2, <3>1, <3>2, StakeParts DEF Has, is_delegator
  <2> HIDE DEF t, r
  <2>3. r = Joined(t, c, s)
    BY DEF r
  <2>4. /\ Kept(d, r) /\ DOMAIN r.delegations = DOMAIN t.delegations \cup {c}
        /\ r.delegations[c] = s /\ r.total.amount = t.total.amount + s.amount
        /\ \A e \in DOMAIN t.delegations : r.delegations[e] = t.delegations[e]
        /\ r.less_total = t.less_total
    BY <1>1, <2>2, <2>3, KeptAdd
  <2>5. r.total.amount = s.amount + t.total.amount
    BY <1>1, <2>2, <2>4
  <2> QED BY <1>2, <2>1, <2>4, <2>5 DEF t
<1>3. CASE ~is_delegator(d)
  <2>1. Enters(d, c, s) = NewDelegator(c, s)
    BY <1>3 DEF Enters
  <2>2. /\ Kept(d, NewDelegator(c, s)) /\ DOMAIN NewDelegator(c, s).delegations = {c}
        /\ NewDelegator(c, s).delegations[c] = s /\ NewDelegator(c, s).total = s
        /\ NewDelegator(c, s).less_total = ZeroStake
    BY <1>1, KeptNew
  <2>3. s.amount + 0 = s.amount
    BY <1>1
  <2> QED BY <1>3, <2>1, <2>2, <2>3
<1> QED BY <1>2, <1>3

\* delegate_with_auto_compound keeps BookInv, whoever it kicks.
LEMMA DelegateStep ==
  ASSUME BookInv, NEW d \in Delegators, NEW c \in Collators, NEW a \in Amounts, NEW p,
         delegate_with_auto_compound(d, c, a, p)
  PROVE  BookInv'
<1> DEFINE DS == DelegatorState
           s  == power(d, a)
           b  == Bond(d, s)
           k  == CandidateInfo[c]
           x  == KickedBy(k, b)
           k2 == add_delegation(k, b)
           DS1 == Leaves(c, x)
           r  == Enters(d, c, s)
           D  == IF is_delegator(d) THEN DOMAIN DS[d].delegations ELSE {}
           K  == DOMAIN CandidateInfo
<1>1. /\ Own(d, s) /\ s.amount = a /\ is_candidate(c) /\ ~is_candidate(d) /\ ~Has(DS, d, c)
      /\ x # None => Has(DS, x, c)
      /\ x # d
      /\ CandidateInfo' = [CandidateInfo EXCEPT ![c] = k2]
      /\ Requests' = [Requests EXCEPT ![c] = Drop(@, x)] /\ round' = round
      /\ Written(DS1, DS', d, r)
      /\ BookOf(k2, Leave(Held(DS, c), x) \cup {b})
      /\ SameCandidate(k, k2)
  BY DelegateIs
<1> HIDE DEF x, s, k2
<1>2. /\ Kept(d, r) /\ DOMAIN r.delegations = D \cup {c} /\ r.delegations[c] = s
      /\ \A e \in D : r.delegations[e] = DS[d].delegations[e]
  BY <1>1, AmountsAre, EntersIs
<1>3. /\ Delegating(DS1, K) /\ AlikeBut(DS, DS1, c, x) /\ \A e : e # c => Alike(DS, DS1, e)
      /\ ~Has(DS1, x, c) /\ Held(DS1, c) = Leave(Held(DS, c), x)
      /\ \A e : e # x /\ e \in DOMAIN DS => e \in DOMAIN DS1 /\ DS1[e] = DS[e]
      /\ DOMAIN DS1 \subseteq DOMAIN DS
  BY <1>1, LeavesIs
<1> HIDE DEF DS1, r
<1>4. /\ \A e : Has(DS, d, e) <=> e \in D
      /\ \A e : Has(DS1, d, e) <=> e \in D
      /\ \A e \in D : Stk(DS1, d, e) = DS[d].delegations[e]
  <2>1. CASE is_delegator(d)
    BY <1>1, <1>3, <2>1 DEF Has, Stk, is_delegator
  <2>2. CASE ~is_delegator(d)
    BY <1>3, <2>2 DEF Has, is_delegator
  <2> QED BY <2>1, <2>2
<1>5. SameBut(DS1, d, c, r)
  BY <1>2, <1>4 DEF SameBut
<1>6. DOMAIN r.delegations # {} /\ DOMAIN r.delegations \subseteq K /\ d \notin K
  <2>1. D \subseteq K
    BY AtDelegator DEF is_candidate
  <2> QED BY <1>1, <1>2, <2>1 DEF is_candidate
<1>7. /\ Delegating(DS', K) /\ AlikeBut(DS1, DS', c, d) /\ \A e : e # c => Alike(DS1, DS', e)
      /\ Has(DS', d, c) /\ Stk(DS', d, c) = s
  <2>1. /\ Delegating(DS', K) /\ AlikeBut(DS1, DS', c, d) /\ \A e : e # c => Alike(DS1, DS', e)
        /\ Has(DS', d, c) <=> c \in DOMAIN r.delegations
        /\ Stk(DS', d, c) = r.delegations[c]
    BY <1>1, <1>2, <1>3, <1>5, <1>6, UpdatedAt
  <2> QED BY <1>2, <2>1
<1>8. Held(DS', c) = Leave(Held(DS, c), x) \cup {b}
  <2>1. Held(DS', c) = Leave(Held(DS1, c), d) \cup {Bond(d, Stk(DS', d, c))}
    BY <1>7, HeldSet
  <2>2. \A e \in Held(DS1, c) : e.owner # d
    BY <1>1, <1>4, HeldIs
  <2>3. Leave(Held(DS1, c), d) = Held(DS1, c)
    BY <2>2 DEF Leave
  <2> QED BY <1>3, <1>7, <2>1, <2>3
<1>9. \A e : e # c => Alike(DS, DS', e)
  BY <1>3, <1>7 DEF Alike
<1>10. Requesting(Requests', DS')
  <2>1. Requesting(Requests, DS)
    BY DEF BookInv
  <2>2. Requesting(Requests', DS1)
    BY <1>1, <1>3, <2>1, RequestDrop
  <2>3. ASSUME NEW e \in Collators, NEW y \in DOMAIN Requests'[e]
        PROVE  Has(DS', y, e) /\ Asked(y, Stk(DS', y, e), Requests'[e][y])
    <3>1. Has(DS1, y, e) /\ Asked(y, Stk(DS1, y, e), Requests'[e][y])
      BY <2>2 DEF Requesting
    <3>2. e # c \/ y # d
      BY <1>1, <1>4, <3>1
    <3>3. Has(DS', y, e) /\ Stk(DS', y, e) = Stk(DS1, y, e)
      BY <1>7, <3>1, <3>2 DEF Alike, AlikeBut
    <3> QED BY <3>1, <3>3
  <2> QED BY <2>2, <2>3 DEF Requesting
<1>11. BookOf(k2, Held(DS', c))
  BY <1>1, <1>8
<1> QED BY <1>1, <1>7, <1>9, <1>10, <1>11, PairStep

\* The owners in the lists of a candidate are those that hold a delegation to it.
LEMMA OwnersAre ==
  ASSUME BookInv, NEW c, is_candidate(c)
  PROVE  \A d : d \in owners(c) <=> Has(DelegatorState, d, c)
<1> DEFINE k == CandidateInfo[c]
           S == Held(DelegatorState, c)
<1>1. BookOf(k, S)
  BY AtCandidate
<1>2. PICK T, B : Good(k, T, B) /\ T \cup B = S
  BY <1>1 DEF BookOf
<1>3. ToSet(k.top.delegations) = T /\ ToSet(k.bottom.delegations) = B
  <2>1. Holds(k.top, T) /\ Holds(k.bottom, B)
    BY <1>2, GoodFacts
  <2>2. Listing(k.top.delegations, T) /\ Listing(k.bottom.delegations, B)
    BY <2>1 DEF Holds
  <2> QED BY <2>2 DEF Listing, ToSet
<1>4. owners(c) = Owners(S)
  BY <1>2, <1>3 DEF owners, Owners
<1> QED BY <1>4, HeldIs

\* What execute_leave_candidates does to the delegators.
LEMMA LeaveCandidateIs ==
  ASSUME BookInv, NEW c, execute_leave_candidates(c)
  PROVE  LET DS == DelegatorState
         IN  /\ is_candidate(c) /\ c \in Collators
             /\ DOMAIN DS' = {d \in DOMAIN DS : Has(DS, d, c) => DOMAIN LetGo(c, d).delegations # {}}
             /\ \A d \in DOMAIN DS' : DS'[d] = IF Has(DS, d, c) THEN LetGo(c, d) ELSE DS[d]
             /\ CandidateInfo' = Drop(CandidateInfo, c)
             /\ Requests' = [Requests EXCEPT ![c] = Empty] /\ round' = round
<1> DEFINE DS == DelegatorState
           left == {d \in owners(c) : LetGo(c, d).total = ZeroStake}
<1>1. /\ is_candidate(c) /\ CandidateInfo' = Drop(CandidateInfo, c)
      /\ Requests' = [Requests EXCEPT ![c] = Empty] /\ round' = round
      /\ DS' = [d \in DOMAIN DS \ left |-> IF d \in owners(c) THEN LetGo(c, d) ELSE DS[d]]
  BY DEF execute_leave_candidates, ReleaseAll
<1>2. c \in Collators /\ \A d : d \in owners(c) <=> Has(DS, d, c)
  BY <1>1, AtCandidate, OwnersAre
<1>3. ASSUME NEW d, Has(DS, d, c)
      PROVE  LetGo(c, d).total = ZeroStake <=> DOMAIN LetGo(c, d).delegations = {}
  <2>1. Kept(d, LetGo(c, d))
    BY <1>3, LetGoIs DEF Has, is_delegator
  <2> QED BY <2>1, KeptZero
<1>4. DOMAIN DS \ left = {d \in DOMAIN DS : Has(DS, d, c) => DOMAIN LetGo(c, d).delegations # {}}
  BY <1>2, <1>3
<1> HIDE DEF left
<1>5. \A d \in DOMAIN DS' : DS'[d] = IF Has(DS, d, c) THEN LetGo(c, d) ELSE DS[d]
  BY <1>1, <1>2
<1> QED BY <1>1, <1>2, <1>4, <1>5

\* execute_leave_candidates keeps BookInv: no delegation to the candidate is left.
LEMMA LeaveCandidateStep ==
  ASSUME BookInv, NEW c, execute_leave_candidates(c)
  PROVE  BookInv'
<1> DEFINE DS == DelegatorState
           K == DOMAIN CandidateInfo
<1>1. /\ is_candidate(c) /\ c \in Collators
      /\ DOMAIN DS' = {d \in DOMAIN DS : Has(DS, d, c) => DOMAIN LetGo(c, d).delegations # {}}
      /\ \A d \in DOMAIN DS' : DS'[d] = IF Has(DS, d, c) THEN LetGo(c, d) ELSE DS[d]
      /\ CandidateInfo' = Drop(CandidateInfo, c)
      /\ Requests' = [Requests EXCEPT ![c] = Empty] /\ round' = round
  BY LeaveCandidateIs
<1>2. /\ Delegating(DS, K) /\ Booked(CandidateInfo, DS) /\ Requesting(Requests, DS)
      /\ round \in Nat
  BY DEF BookInv
<1>3. ASSUME NEW d, Has(DS, d, c)
      PROVE  /\ Kept(d, LetGo(c, d))
             /\ DOMAIN LetGo(c, d).delegations = DOMAIN DS[d].delegations \ {c}
             /\ \A e \in DOMAIN DS[d].delegations \ {c} :
                  LetGo(c, d).delegations[e] = DS[d].delegations[e]
  BY <1>3, LetGoIs DEF Has, is_delegator
<1>4. DOMAIN CandidateInfo' = K \ {c} /\ \A e \in K \ {c} : CandidateInfo'[e] = CandidateInfo[e]
  BY <1>1, DropIs
<1>5. ASSUME NEW d \in DOMAIN DS'
      PROVE  /\ Kept(d, DS'[d]) /\ d \notin K \ {c} /\ DOMAIN DS'[d].delegations # {}
             /\ DOMAIN DS'[d].delegations \subseteq K \ {c} /\ d \in Delegators
  <2>1. /\ d \in DOMAIN DS /\ d \in Delegators /\ Kept(d, DS[d]) /\ d \notin K
        /\ DOMAIN DS[d].delegations # {} /\ DOMAIN DS[d].delegations \subseteq K
    BY <1>1, <1>2, <1>5 DEF Delegating
  <2>2. CASE Has(DS, d, c)
    <3>1. DS'[d] = LetGo(c, d) /\ DOMAIN LetGo(c, d).delegations # {}
      BY <1>1, <1>5, <2>2
    <3> QED BY <1>3, <2>1, <2>2, <3>1
  <2>3. CASE ~Has(DS, d, c)
    <3>1. DS'[d] = DS[d]
      BY <1>1, <1>5, <2>3
    <3>2. c \notin DOMAIN DS[d].delegations
      BY <2>1, <2>3 DEF Has
    <3> QED BY <2>1, <3>1, <3>2
  <2> QED BY <2>2, <2>3
<1>6. Delegating(DS', K \ {c})
  BY <1>5 DEF Delegating
<1>7. ASSUME NEW e, e # c
      PROVE  Alike(DS, DS', e)
  <2>1. ASSUME NEW d, Has(DS, d, e)
        PROVE  Has(DS', d, e) /\ Stk(DS', d, e) = Stk(DS, d, e)
    <3>1. CASE Has(DS, d, c)
      <4>1. e \in DOMAIN LetGo(c, d).delegations /\ d \in DOMAIN DS
        BY <1>3, <1>7, <2>1, <3>1 DEF Has
      <4>2. d \in DOMAIN DS' /\ DS'[d] = LetGo(c, d)
        BY <1>1, <3>1, <4>1
      <4> QED BY <1>3, <1>7, <2>1, <3>1, <4>1, <4>2 DEF Has, Stk
    <3>2. CASE ~Has(DS, d, c)
      <4>1. d \in DOMAIN DS' /\ DS'[d] = DS[d]
        BY <1>1, <2>1, <3>2 DEF Has
      <4> QED BY <2>1, <4>1 DEF Has, Stk
    <3> QED BY <3>1, <3>2
  <2>2. ASSUME NEW d, Has(DS', d, e)
        PROVE  Has(DS, d, e)
    <3>1. d \in DOMAIN DS' /\ e \in DOMAIN DS'[d].delegations /\ d \in DOMAIN DS
      BY <1>1, <2>2 DEF Has
    <3>2. CASE Has(DS, d, c)
      BY <1>1, <1>3, <3>1, <3>2 DEF Has
    <3>3. CASE ~Has(DS, d, c)
      BY <1>1, <3>1, <3>3 DEF Has
    <3> QED BY <3>2, <3>3
  <2> QED BY <2>1, <2>2 DEF Alike
<1>8. Booked(CandidateInfo', DS')
  <2>1. ASSUME NEW e \in K \ {c}
        PROVE  BookOf(CandidateInfo'[e], Held(DS', e)) /\ Backed(e, CandidateInfo'[e])
    <3>1. Held(DS', e) = Held(DS, e)
      BY <1>7, HeldAlike
    <3> QED BY <1>2, <1>4, <3>1 DEF Booked
  <2> QED BY <1>2, <1>4, <2>1 DEF Booked
<1>9. Requesting(Requests', DS')
  <2>1. DOMAIN Requests = Collators
    BY <1>2 DEF Requesting
  <2>2. DOMAIN Requests' = Collators /\ DOMAIN Requests'[c] = {}
        /\ \A e \in Collators \ {c} : Requests'[e] = Requests[e]
    BY <1>1, <2>1 DEF Empty
  <2>3. ASSUME NEW e \in Collators \ {c}, NEW d \in DOMAIN Requests[e]
        PROVE  Has(DS', d, e) /\ Asked(d, Stk(DS', d, e), Requests[e][d])
    <3>1. Has(DS, d, e) /\ Asked(d, Stk(DS, d, e), Requests[e][d])
      BY <1>2, <2>3 DEF Requesting
    <3> QED BY <1>7, <3>1 DEF Alike
  <2> QED BY <2>2, <2>3 DEF Requesting
<1> QED BY <1>1, <1>2, <1>4, <1>6, <1>8, <1>9 DEF BookInv

\* schedule_leave_delegators keeps BookInv.
LEMMA ScheduleLeaveStep ==
  ASSUME BookInv, NEW d, schedule_leave_delegators(d)
  PROVE  BookInv'
<1> DEFINE DS == DelegatorState
           ds == DS[d].delegations
           had == {c \in DOMAIN ds : d \in DOMAIN Requests[c]}
           old == SumOver([c \in had |-> Requests[c][d].stake], had)
           q(c) == Request("Revoke", ds[c], LeaveDelegatorsDelay)
           u == Plus(Minus(DS[d].less_total, old), SumOver(ds, DOMAIN ds))
<1>1. /\ is_delegator(d)
      /\ Requests' = [c \in Collators |-> IF c \in DOMAIN ds /\ ~RevokePending(c, d)
                                          THEN Put(Requests[c], d, q(c)) ELSE Requests[c]]
      /\ DS' = [DS EXCEPT ![d].less_total = Plus(Minus(@, old), SumOver(ds, DOMAIN ds))]
      /\ CandidateInfo' = CandidateInfo /\ round' = round
  BY DEF schedule_leave_delegators, UnchangedBySchedule
<1>2. /\ d \in DOMAIN DS /\ DS[d].less_total \in StakeT /\ IsFiniteSet(DOMAIN ds)
      /\ DOMAIN ds \subseteq Collators /\ \A c \in DOMAIN ds : ds[c] \in StakeT
  BY <1>1, AtDelegator, DelegatorParts
<1>3. u \in StakeT
  <2>1. IsFiniteSet(had) /\ \A c \in had : Requests[c][d].stake \in StakeT
    BY <1>2, FS_Subset, AtRequest
  <2> DEFINE g == [c \in had |-> Requests[c][d].stake]
  <2>2. \A c \in had : g[c] \in StakeT
    BY <2>1
  <2> HIDE DEF g, had
  <2>3. SumOver(g, had) \in StakeT
    BY <2>1, <2>2, SumOverType
  <2>4. old \in StakeT
    BY <2>3 DEF g, had
  <2> HIDE DEF old, ds
  <2>5. SumOver(ds, DOMAIN ds) \in StakeT /\ Minus(DS[d].less_total, old) \in StakeT
    BY <1>2, <2>4, SumOverType, MinusParts
  <2> QED BY <2>5, PlusParts
<1>4. Written(DS, DS', d, Charge(DS[d], u))
  BY <1>1, <1>2 DEF Written, Charge
<1>5. \A c \in DOMAIN ds : Has(DS, d, c) /\ Asked(d, Stk(DS, d, c), q(c))
  <2> TAKE c \in DOMAIN ds
  <2>1. /\ Has(DS, d, c) /\ Stk(DS, d, c) = ds[c] /\ Own(d, ds[c]) /\ ds[c] \in StakeT
    BY <1>1, AtPair
  <2>2. ds[c].amount <= ds[c].amount
    BY <2>1, StakeParts
  <2>3. round + LeaveDelegatorsDelay \in Nat
    BY DelaysAre DEF BookInv
  <2>4. q(c) \in RequestT /\ q(c).stake = ds[c]
    <3> HIDE DEF ds
    <3> QED BY <2>1, <2>3 DEF Request, RequestT
  <2> HIDE DEF q, ds
  <2> QED BY <2>1, <2>2, <2>4 DEF Asked
<1> HIDE DEF q, u
<1>6. Requesting(Requests', DS)
  <2>1. Requesting(Requests, DS)
    BY DEF BookInv
  <2>2. DOMAIN Requests' = Collators
    BY <1>1
  <2>3. ASSUME NEW c \in Collators, NEW e \in DOMAIN Requests'[c]
        PROVE  Has(DS, e, c) /\ Asked(e, Stk(DS, e, c), Requests'[c][e])
    <3>1. CASE c \in DOMAIN ds /\ ~RevokePending(c, d)
      <4>1. Requests'[c] = Put(Requests[c], d, q(c))
        BY <1>1, <3>1
      <4>2. DOMAIN Requests'[c] = DOMAIN Requests[c] \cup {d} /\ Requests'[c][d] = q(c)
            /\ \A y \in DOMAIN Requests[c] \ {d} : Requests'[c][y] = Requests[c][y]
        BY <4>1 DEF Put
      <4>3. CASE e = d
        BY <1>5, <3>1, <4>2, <4>3
      <4>4. CASE e # d
        BY <2>1, <2>3, <4>2, <4>4 DEF Requesting
      <4> QED BY <4>3, <4>4
    <3>2. CASE ~(c \in DOMAIN ds /\ ~RevokePending(c, d))
      <4>1. Requests'[c] = Requests[c]
        BY <1>1, <3>2
      <4> QED BY <2>1, <2>3, <4>1 DEF Requesting
    <3> QED BY <3>1, <3>2
  <2> QED BY <2>2, <2>3 DEF Requesting
<1> QED BY <1>1, <1>3, <1>4, <1>6, ChargedStep

\* cancel_leave_delegators keeps BookInv.
LEMMA CancelLeaveStep ==
  ASSUME BookInv, NEW d, cancel_leave_delegators(d)
  PROVE  BookInv'
<1> DEFINE DS == DelegatorState
           cs == DOMAIN DS[d].delegations
           g == [c \in cs |-> Requests[c][d].stake]
           u == Minus(DS[d].less_total, SumOver(g, cs))
<1>1. /\ AllRevoking(d)
      /\ Requests' = [c \in Collators |-> IF c \in cs THEN Drop(Requests[c], d)
                                                      ELSE Requests[c]]
      /\ DS' = [DS EXCEPT ![d].less_total = Minus(@, SumOver(g, cs))]
      /\ CandidateInfo' = CandidateInfo /\ round' = round
  BY DEF cancel_leave_delegators, UnchangedBySchedule
<1>2. /\ is_delegator(d) /\ d \in DOMAIN DS /\ DS[d].less_total \in StakeT /\ IsFiniteSet(cs)
      /\ cs \subseteq Collators /\ \A c \in cs : d \in DOMAIN Requests[c]
  BY <1>1, AtDelegator, DelegatorParts DEF AllRevoking, RevokePending
<1>3. u \in StakeT
  <2>1. \A c \in cs : g[c] \in StakeT
    BY <1>2, AtRequest
  <2> HIDE DEF g, cs
  <2>2. SumOver(g, cs) \in StakeT
    BY <1>2, <2>1, SumOverType
  <2> QED BY <1>2, <2>2, MinusParts
<1>4. Written(DS, DS', d, Charge(DS[d], u))
  BY <1>1, <1>2 DEF Written, Charge
<1>5. Requesting(Requests', DS)
  <2>1. Requesting(Requests, DS)
    BY DEF BookInv
  <2>2. DOMAIN Requests' = Collators
    BY <1>1
  <2> HIDE DEF cs
  <2>3. ASSUME NEW c \in Collators, NEW e \in DOMAIN Requests'[c]
        PROVE  e \in DOMAIN Requests[c] /\ Requests'[c][e] = Requests[c][e]
    <3>1. CASE c \in cs
      <4>1. Requests'[c] = Drop(Requests[c], d)
        BY <1>1, <3>1
      <4> QED BY <2>3, <4>1 DEF Drop, Restrict
    <3>2. CASE c \notin cs
      BY <1>1, <2>3, <3>2
    <3> QED BY <3>1, <3>2
  <2> QED BY <2>1, <2>2, <2>3 DEF Requesting
<1> HIDE DEF u
<1> QED BY <1>1, <1>2, <1>3, <1>4, <1>5, ChargedStep

\* The candidates a leaving delegator is found with are all its candidates.
LEMMA LeaveDelegatorIs ==
  ASSUME BookInv, NEW d, execute_leave_delegators(d)
  PROVE  LET DS == DelegatorState
             ds == DS[d].delegations
             k(c) == rm_delegation_if_exists(CandidateInfo[c], d, ds[c])
         IN  /\ is_delegator(d) /\ DOMAIN ds \subseteq Collators
             /\ \A c \in DOMAIN ds : /\ is_candidate(c) /\ k(c) # None
                                     /\ BookOf(k(c), Leave(Held(DS, c), d))
                                     /\ SameCandidate(CandidateInfo[c], k(c))
                                     /\ d \in DOMAIN Requests[c]
             /\ CandidateInfo' = [c \in DOMAIN CandidateInfo |->
                                    IF c \in DOMAIN ds THEN k(c) ELSE CandidateInfo[c]]
             /\ CandidatePool' = [c \in DOMAIN CandidatePool |->
                                    IF c \in DOMAIN ds THEN PoolAfter(c, k(c))[c]
                                                       ELSE CandidatePool[c]]
             /\ Total' = Minus(Total, SumOver(ds, DOMAIN ds))
             /\ Requests' = [c \in Collators |-> IF c \in DOMAIN ds THEN Drop(Requests[c], d)
                                                                    ELSE Requests[c]]
             /\ DS' = Drop(DS, d) /\ round' = round
<1> DEFINE DS == DelegatorState
           ds == DS[d].delegations
           k(c) == rm_delegation_if_exists(CandidateInfo[c], d, ds[c])
           found == {c \in DOMAIN ds : is_candidate(c) /\ k(c) # None}
<1>1. AllRevoking(d)
  BY DEF execute_leave_delegators
<1>2. /\ is_delegator(d) /\ DOMAIN ds \subseteq Collators
      /\ \A c \in DOMAIN ds : is_candidate(c) /\ d \in DOMAIN Requests[c]
  BY <1>1, AtDelegator, DelegatorParts DEF AllRevoking, RevokePending
<1>3. ASSUME NEW c \in DOMAIN ds
      PROVE  /\ BookOf(k(c), Leave(Held(DS, c), d))
             /\ SameCandidate(CandidateInfo[c], k(c)) /\ k(c) # None
  <2> DEFINE b == Bond(d, Stk(DS, d, c))
  <2>1. BookOf(CandidateInfo[c], Held(DS, c)) /\ b \in Held(DS, c) /\ Stk(DS, d, c) = ds[c]
    BY <1>2, <1>3, AtCandidate, AtPair
  <2>2. b.owner = d /\ b.stake = ds[c]
    BY <2>1 DEF Bond
  <2> HIDE DEF b
  <2>3. /\ BookOf(rm_delegation_if_exists(CandidateInfo[c], b.owner, b.stake), Leave(Held(DS, c), b.owner))
        /\ SameCandidate(CandidateInfo[c], rm_delegation_if_exists(CandidateInfo[c], b.owner, b.stake))
    BY <2>1, BookRm
  <2> QED BY <2>2, <2>3, BookOfFacts
<1>4. found = DOMAIN ds
  BY <1>2, <1>3
<1>5. /\ CandidateInfo' = [c \in DOMAIN CandidateInfo |->
                             IF c \in found THEN k(c) ELSE CandidateInfo[c]]
      /\ CandidatePool' = [c \in DOMAIN CandidatePool |->
                             IF c \in found THEN PoolAfter(c, k(c))[c] ELSE CandidatePool[c]]
      /\ Total' = Minus(Total, SumOver(ds, found))
      /\ Requests' = [c \in Collators |-> IF c \in DOMAIN ds THEN Drop(Requests[c], d)
                                                             ELSE Requests[c]]
      /\ DS' = Drop(DS, d) /\ round' = round
  BY DEF execute_leave_delegators
<1> HIDE DEF found
<1> QED BY <1>2, <1>3, <1>4, <1>5

\* execute_leave_delegators keeps BookInv: it finds every delegation.
LEMMA LeaveDelegatorStep ==
  ASSUME BookInv, NEW d, execute_leave_delegators(d)
  PROVE  BookInv'
<1> DEFINE DS == DelegatorState
           ds == DS[d].delegations
           k(c) == rm_delegation_if_exists(CandidateInfo[c], d, ds[c])
           K == DOMAIN CandidateInfo
<1>1. /\ is_delegator(d) /\ DOMAIN ds \subseteq Collators
      /\ \A c \in DOMAIN ds : /\ is_candidate(c) /\ BookOf(k(c), Leave(Held(DS, c), d))
                              /\ SameCandidate(CandidateInfo[c], k(c))
      /\ CandidateInfo' = [c \in K |-> IF c \in DOMAIN ds THEN k(c) ELSE CandidateInfo[c]]
      /\ Requests' = [c \in Collators |-> IF c \in DOMAIN ds THEN Drop(Requests[c], d)
                                                             ELSE Requests[c]]
      /\ DS' = Drop(DS, d) /\ round' = round
  BY LeaveDelegatorIs
<1>2. /\ Delegating(DS, K) /\ Booked(CandidateInfo, DS) /\ Requesting(Requests, DS)
      /\ round \in Nat /\ d \in DOMAIN DS
  BY <1>1 DEF BookInv, is_delegator
<1> HIDE DEF k
<1>3. DOMAIN DS' = DOMAIN DS \ {d} /\ \A e \in DOMAIN DS \ {d} : DS'[e] = DS[e]
  BY <1>1, DropIs
<1>4. Delegating(DS', K)
  BY <1>2, <1>3 DEF Delegating
<1>5. \A c : AlikeBut(DS, DS', c, d) /\ ~Has(DS', d, c)
  BY <1>3 DEF AlikeBut, Has, Stk
<1>6. \A c : Held(DS', c) = Leave(Held(DS, c), d)
  BY <1>5, HeldDropped
<1>7. ASSUME NEW c \in K
      PROVE  BookOf(CandidateInfo'[c], Held(DS', c)) /\ Backed(c, CandidateInfo'[c])
  <2>1. BookOf(CandidateInfo[c], Held(DS, c)) /\ Backed(c, CandidateInfo[c])
    BY <1>2 DEF Booked
  <2>2. CASE c \in DOMAIN ds
    <3>1. CandidateInfo'[c] = k(c)
      BY <1>1, <2>2
    <3>2. Backed(c, k(c))
      BY <1>1, <2>1, <2>2, BackedSame
    <3> QED BY <1>1, <1>6, <2>2, <3>1, <3>2
  <2>3. CASE c \notin DOMAIN ds
    <3>1. CandidateInfo'[c] = CandidateInfo[c]
      BY <1>1, <2>3
    <3>2. Alike(DS, DS', c)
      BY <1>5, <2>3 DEF Alike, AlikeBut, Has
    <3>3. Held(DS', c) = Held(DS, c)
      BY <3>2, HeldAlike
    <3> QED BY <2>1, <3>1, <3>3
  <2> QED BY <2>2, <2>3
<1>8. DOMAIN CandidateInfo' = K
  BY <1>1
<1>9. Booked(CandidateInfo', DS')
  BY <1>2, <1>7, <1>8 DEF Booked
<1>10. Requesting(Requests', DS')
  <2>1. ASSUME NEW c \in Collators, NEW e \in DOMAIN Requests'[c]
        PROVE  e # d /\ e \in DOMAIN Requests[c] /\ Requests'[c][e] = Requests[c][e]
    <3>1. CASE c \in DOMAIN ds
      <4>1. Requests'[c] = Drop(Requests[c], d)
        BY <1>1, <3>1
      <4> QED BY <2>1, <4>1 DEF Drop, Restrict
    <3>2. CASE c \notin DOMAIN ds
      <4>1. Requests'[c] = Requests[c]
        BY <1>1, <3>2
      <4>2. Has(DS, e, c)
        BY <1>2, <2>1, <4>1 DEF Requesting
      <4> QED BY <2>1, <3>2, <4>1, <4>2 DEF Has
    <3> QED BY <3>1, <3>2
  <2>2. ASSUME NEW c \in Collators, NEW e \in DOMAIN Requests'[c]
        PROVE  Has(DS', e, c) /\ Asked(e, Stk(DS', e, c), Requests'[c][e])
    <3>1. e # d /\ e \in DOMAIN Requests[c] /\ Requests'[c][e] = Requests[c][e]
      BY <2>1, <2>2
    <3>2. Has(DS, e, c) /\ Asked(e, Stk(DS, e, c), Requests[c][e])
      BY <1>2, <3>1 DEF Requesting
    <3> QED BY <1>5, <3>1, <3>2 DEF AlikeBut
  <2>3. DOMAIN Requests' = Collators
    BY <1>1
  <2> QED BY <2>2, <2>3 DEF Requesting
<1> QED BY <1>1, <1>2, <1>4, <1>8, <1>9, <1>10 DEF BookInv

\* The steps that leave the books as they are.
LEMMA SameStep ==
  ASSUME BookInv, round' \in Nat, CandidateInfo' = CandidateInfo,
         DelegatorState' = DelegatorState, Requests' = Requests
  PROVE  BookInv'
BY DEF BookInv

\* hotfix_remove_delegation_requests_exited_candidates keeps BookInv.
LEMMA HotfixStep ==
  ASSUME BookInv, NEW c, hotfix_remove_delegation_requests_exited_candidates(c)
  PROVE  BookInv'
<1>1. /\ round' = round /\ CandidateInfo' = CandidateInfo /\ DelegatorState' = DelegatorState
      /\ Requests[c] = Empty /\ Requests' = [Requests EXCEPT ![c] = Empty]
  BY DEF hotfix_remove_delegation_requests_exited_candidates
<1>2. DOMAIN Requests = Collators /\ round \in Nat
  BY DEF BookInv, Requesting
<1>3. DOMAIN Requests' = Collators /\ \A e \in Collators : Requests'[e] = Requests[e]
  BY <1>1, <1>2
<1>4. Requesting(Requests', DelegatorState)
  BY <1>3 DEF BookInv, Requesting
<1> QED BY <1>1, <1>4 DEF BookInv

\* BookInv holds to begin with.
LEMMA BookInit ==
  ASSUME Init
  PROVE  BookInv
<1>1. /\ round = 1 /\ DOMAIN CandidateInfo = {} /\ DOMAIN DelegatorState = {}
      /\ DOMAIN Requests = Collators /\ \A c \in Collators : DOMAIN Requests[c] = {}
  BY DEF Init, Empty
<1> QED BY <1>1 DEF BookInv, Delegating, Booked, Requesting

\* Every call keeps BookInv.
LEMMA BookStep ==
  ASSUME BookInv, Bonding
  PROVE  BookInv'
<1>1. CASE \E c \in Collators : \E a \in Amounts : \/ join_candidates(c, a)
                                                   \/ candidate_bond_more(c, a)
                                                   \/ schedule_candidate_bond_less(c, a)
  BY <1>1, JoinStep, CandidateMoreStep, CandidateScheduleStep
<1>2. CASE \E c \in Collators : \/ schedule_leave_candidates(c) \/ cancel_leave_candidates(c)
                                \/ go_offline(c) \/ go_online(c)
  BY <1>2, StatusSteps
<1>3. CASE \E c \in Collators : execute_leave_candidates(c)
  BY <1>3, LeaveCandidateStep
<1>4. CASE \E c \in Collators : \/ execute_candidate_bond_less(c)
                                \/ cancel_candidate_bond_less(c)
                                \/ hotfix_remove_delegation_requests_exited_candidates(c)
  BY <1>4, CandidateLessStep, CandidateCancelStep, HotfixStep
<1>5. CASE \E d \in Delegators, c \in Collators : \E a \in Amounts, p \in Percents :
             delegate_with_auto_compound(d, c, a, p)
  BY <1>5, DelegateStep
<1>6. CASE \E d \in Delegators, c \in Collators : \E p \in Percents : set_auto_compound(d, c, p)
  <2>1. /\ round' = round /\ CandidateInfo' = CandidateInfo /\ DelegatorState' = DelegatorState
        /\ Requests' = Requests
    BY <1>6 DEF set_auto_compound
  <2> QED BY <2>1, SameStep DEF BookInv
<1>7. CASE \E d \in Delegators, c \in Collators : \E a \in Amounts :
             \/ delegator_bond_more(d, c, a) \/ schedule_delegator_bond_less(d, c, a)
  BY <1>7, BondMoreStep, ScheduleLessStep
<1>8. CASE \E d \in Delegators, c \in Collators :
             \/ schedule_revoke_delegation(d, c) \/ cancel_delegation_request(d, c)
             \/ execute_delegation_request(d, c)
  BY <1>8, ScheduleRevokeStep, CancelStep, RevokeStep, DecreaseStep
<1>9. CASE \E d \in Delegators : \/ schedule_leave_delegators(d) \/ cancel_leave_delegators(d)
                                 \/ execute_leave_delegators(d)
  BY <1>9, ScheduleLeaveStep, CancelLeaveStep, LeaveDelegatorStep
<1> QED BY <1>1, <1>2, <1>3, <1>4, <1>5, <1>6, <1>7, <1>8, <1>9 DEF Bonding

\* Every step keeps BookInv.
LEMMA BookNext ==
  ASSUME BookInv, [Next]_vars
  PROVE  BookInv'
<1>1. CASE Bonding
  BY <1>1, BookStep
<1>2. CASE StartRound
  <2>1. /\ round' = round + 1 /\ CandidateInfo' = CandidateInfo
        /\ DelegatorState' = DelegatorState /\ Requests' = Requests
    BY <1>2 DEF StartRound, bonding
  <2> QED BY <2>1, SameStep DEF BookInv
<1>3. CASE UNCHANGED vars
  <2>1. /\ round' = round /\ CandidateInfo' = CandidateInfo
        /\ DelegatorState' = DelegatorState /\ Requests' = Requests
    BY <1>3 DEF vars, bonding
  <2> QED BY <2>1, SameStep DEF BookInv
<1> QED BY <1>1, <1>2, <1>3 DEF Next

\* Whatever is called in whatever order, the records of the delegators, the two sorted
\* lists of each candidate with the ends, counts and capacities it caches, and the scheduled
\* requests describe one and the same set of delegations (lib.rs, types.rs and
\* delegation_requests.rs of parachain-staking).
THEOREM BooksHold == Spec => []BookInv
<1>1. Init => BookInv
  BY BookInit
<1>2. BookInv /\ [Next]_vars => BookInv'
  BY BookNext
<1> QED BY <1>1, <1>2, PTL DEF Spec

\* Two listings, the first above the second, are one.
LEMMA ListJoined ==
  ASSUME NEW t, NEW b, NEW T, NEW B, Listing(t, T), Listing(b, B), Split(T, B)
  PROVE  Listing(t \o b, T \cup B)
<1> DEFINE l == t \o b
           m == Len(t)
           n == Len(b)
<1>1. /\ t \in Seq(BondT) /\ b \in Seq(BondT) /\ m \in Nat /\ n \in Nat
      /\ T = {t[i] : i \in 1 .. m} /\ B = {b[i] : i \in 1 .. n}
  BY DEF Listing
<1>2. l \in Seq(BondT) /\ Len(l) = m + n
      /\ \A i \in 1 .. m + n : l[i] = IF i <= m THEN t[i] ELSE b[i - m]
  BY <1>1
<1>3. \A i \in 1 .. m : i \in 1 .. m + n /\ l[i] = t[i]
  BY <1>1, <1>2
<1>4. \A i \in 1 .. n : m + i \in 1 .. m + n /\ l[m + i] = b[i]
  BY <1>1, <1>2
<1> HIDE DEF l
<1>5. ASSUME NEW i \in 1 .. m + n
      PROVE  \/ i \in 1 .. m /\ l[i] = t[i] /\ l[i] \in T
             \/ i - m \in 1 .. n /\ i > m /\ l[i] = b[i - m] /\ l[i] \in B
  <2>1. CASE i <= m
    <3>1. i \in 1 .. m
      BY <1>1, <2>1
    <3> QED BY <1>1, <1>3, <3>1
  <2>2. CASE i > m
    <3>1. i - m \in 1 .. n
      BY <1>1, <2>2
    <3>2. l[i] = b[i - m]
      BY <1>1, <1>2, <2>2
    <3> QED BY <1>1, <2>2, <3>1, <3>2
  <2> QED BY <1>1, <2>1, <2>2
<1>6. T \cup B = {l[i] : i \in 1 .. m + n}
  <2>1. ASSUME NEW x \in T \cup B
        PROVE  \E i \in 1 .. m + n : x = l[i]
    BY <1>1, <1>3, <1>4
  <2>2. \A i \in 1 .. m + n : l[i] \in T \cup B
    BY <1>5
  <2> QED BY <2>1, <2>2
<1>7. ASSUME NEW i \in 1 .. m + n, NEW j \in 1 .. m + n, i < j
      PROVE  l[i].owner # l[j].owner /\ ~Below(l[i].stake, l[j].stake)
  <2>1. CASE j <= m
    <3>1. i \in 1 .. m /\ j \in 1 .. m /\ l[i] = t[i] /\ l[j] = t[j]
      BY <1>1, <1>3, <1>7, <2>1
    <3>2. t[i].owner # t[j].owner /\ ~Below(t[i].stake, t[j].stake)
      BY <1>7, <3>1 DEF Listing
    <3> QED BY <3>1, <3>2
  <2>2. CASE i > m
    <3>1. i - m \in 1 .. n /\ j - m \in 1 .. n /\ i - m < j - m
      BY <1>1, <1>7, <2>2
    <3>2. l[i] = b[i - m] /\ l[j] = b[j - m]
      BY <1>1, <1>5, <1>7, <2>2
    <3> DEFINE p == i - m
               q == j - m
    <3> HIDE DEF p, q
    <3>3. p \in 1 .. n /\ q \in 1 .. n /\ p < q /\ l[i] = b[p] /\ l[j] = b[q] /\ p # q
      BY <1>1, <3>1, <3>2 DEF p, q
    <3>4. b[p].owner # b[q].owner /\ ~Below(b[p].stake, b[q].stake)
      BY <3>3 DEF Listing
    <3> QED BY <3>3, <3>4
  <2>3. CASE i <= m /\ j > m
    <3>1. l[i] \in T /\ l[j] \in B
      BY <1>1, <1>5, <2>3
    <3>2. l[i].owner \in Owners(T) /\ l[j].owner \in Owners(B)
      BY <3>1 DEF Owners
    <3> QED BY <3>1, <3>2 DEF Split
  <2> QED BY <1>1, <2>1, <2>2, <2>3
<1>8. \A i, j \in 1 .. m + n : l[i].owner = l[j].owner => i = j
  <2> TAKE i, j \in 1 .. m + n
  <2>1. i < j \/ j < i \/ i = j
    BY <1>1
  <2> QED BY <1>7, <2>1
<1>9. \A i, j \in 1 .. m + n : i < j => ~Below(l[i].stake, l[j].stake)
  BY <1>7
<1> HIDE DEF m, n
<1>10. Listing(l, T \cup B)
  BY <1>2, <1>6, <1>8, <1>9 DEF Listing
<1> QED BY <1>10 DEF l

\* One bond for each owner.
LEMMA OwnersCount ==
  ASSUME NEW S, IsFiniteSet(S), OneEach(S)
  PROVE  Cardinality(Owners(S)) = Cardinality(S)
<1> DEFINE f == [b \in S |-> b.owner]
<1>1. f \in Bijection(S, Owners(S))
  <2>1. f \in Injection(S, Owners(S))
    BY DEF Injection, IsInjective, OneEach, Owners
  <2>2. f \in Surjection(S, Owners(S))
    BY DEF Surjection, Owners
  <2> QED BY <2>1, <2>2 DEF Bijection
<1>2. ExistsBijection(S, Owners(S))
  BY <1>1 DEF ExistsBijection
<1> QED BY <1>2, FS_Bijection

\* The two lists of a candidate, one after the other, list what is held of it.
LEMMA ListedIs ==
  ASSUME BookInv, NEW c, is_candidate(c)
  PROVE  /\ Listing(Listed(c), Held(DelegatorState, c))
         /\ CandidateInfo[c].delegation_count = Len(Listed(c))
         /\ Len(Listed(c)) = Cardinality(owners(c))
<1> DEFINE k == CandidateInfo[c]
           S == Held(DelegatorState, c)
<1>1. BookOf(k, S)
  BY AtCandidate
<1>2. PICK T, B : Good(k, T, B) /\ T \cup B = S
  BY <1>1 DEF BookOf
<1>3. /\ Holds(k.top, T) /\ Holds(k.bottom, B) /\ Split(T, B)
      /\ k.delegation_count = Cardinality(T) + Cardinality(B)
  BY <1>2 DEF Good, TopHolds, BottomHolds
<1>4. Listing(k.top.delegations, T) /\ Listing(k.bottom.delegations, B)
  BY <1>3 DEF Holds
<1>5. Listing(Listed(c), S)
  <2> HIDE DEF k, S
  <2>1. Listing(k.top.delegations \o k.bottom.delegations, T \cup B)
    BY <1>3, <1>4, ListJoined
  <2> QED BY <1>2, <2>1 DEF Listed, k
<1>6. k.delegation_count = Len(Listed(c))
  <2>1. Cardinality(T) = Len(k.top.delegations) /\ Cardinality(B) = Len(k.bottom.delegations)
    BY <1>4, ListFacts
  <2>2. k.top.delegations \in Seq(BondT) /\ k.bottom.delegations \in Seq(BondT)
    BY <1>4 DEF Listing
  <2> QED BY <1>3, <2>1, <2>2 DEF Listed
<1>7. Len(Listed(c)) = Cardinality(owners(c))
  <2> HIDE DEF S
  <2>1. IsFiniteSet(S) /\ OneEach(S) /\ Cardinality(S) = Len(Listed(c))
    BY <1>5, ListFacts
  <2>2. Cardinality(Owners(S)) = Cardinality(S)
    BY <2>1, OwnersCount
  <2>3. owners(c) = Owners(S)
    <3>1. \A d : d \in Owners(S) <=> Has(DelegatorState, d, c)
      BY HeldIs DEF S
    <3> QED BY <3>1, OwnersAre
  <2> QED BY <2>1, <2>2, <2>3
<1> QED BY <1>5, <1>6, <1>7

\* BooksAgree follows from BookInv.
LEMMA BookInvAgree ==
  ASSUME BookInv
  PROVE  BooksAgree
<1>1. ASSUME NEW d \in DOMAIN DelegatorState
      PROVE  /\ ~is_candidate(d) /\ DOMAIN DelegatorState[d].delegations # {}
             /\ DelegatorState[d].total =
                  SumOver(DelegatorState[d].delegations, DOMAIN DelegatorState[d].delegations)
             /\ \A c \in DOMAIN DelegatorState[d].delegations :
                  /\ is_candidate(c)
                  /\ Bond(d, DelegatorState[d].delegations[c]) \in ToSet(Listed(c))
  <2>1. is_delegator(d)
    BY DEF is_delegator
  <2>2. /\ ~is_candidate(d) /\ DOMAIN DelegatorState[d].delegations # {}
        /\ Kept(d, DelegatorState[d])
    BY <2>1, AtDelegator
  <2>3. ASSUME NEW c \in DOMAIN DelegatorState[d].delegations
        PROVE  is_candidate(c) /\ Bond(d, DelegatorState[d].delegations[c]) \in ToSet(Listed(c))
    <3>1. /\ is_candidate(c) /\ Stk(DelegatorState, d, c) = DelegatorState[d].delegations[c]
          /\ Bond(d, Stk(DelegatorState, d, c)) \in Held(DelegatorState, c)
      BY <2>1, <2>3, AtPair
    <3>2. Listing(Listed(c), Held(DelegatorState, c))
      BY <3>1, ListedIs
    <3>3. ToSet(Listed(c)) = Held(DelegatorState, c)
      BY <3>2 DEF Listing, ToSet
    <3> QED BY <3>1, <3>3
  <2> QED BY <2>2, <2>3 DEF Kept
<1>2. ASSUME NEW c \in DOMAIN CandidateInfo
      PROVE  /\ Len(Listed(c)) = Cardinality(owners(c))
             /\ CandidateInfo[c].delegation_count = Len(Listed(c))
             /\ \A d \in owners(c) : is_delegator(d) /\ c \in DOMAIN DelegatorState[d].delegations
  <2>1. is_candidate(c)
    BY DEF is_candidate
  <2> QED BY <2>1, ListedIs, OwnersAre DEF Has, is_delegator
<1> QED BY <1>1, <1>2 DEF BooksAgree

\* A book whose caches are those of its lists.
LEMMA CachedIs ==
  ASSUME NEW k \in BookT,
         k.lowest_top_delegation = lowest_delegation_amount(k.top),
         k.top_capacity = top_capacity(k.top),
         k.lowest_bottom_delegation = lowest_delegation_amount(k.bottom),
         k.highest_bottom_delegation = highest_delegation_amount(k.bottom),
         k.bottom_capacity = bottom_capacity(k.bottom)
  PROVE  k = [reset_bottom_data(reset_top_data(k, k.top), k.bottom)
              EXCEPT !.total_stake_counted = k.total_stake_counted]
BY DEF BookT, reset_bottom_data, reset_top_data

\* BooksOrdered follows from BookInv.
LEMMA BookInvOrdered ==
  ASSUME BookInv
  PROVE  BooksOrdered
<1> SUFFICES ASSUME NEW c \in DOMAIN CandidateInfo
             PROVE  LET k == CandidateInfo[c]
                    IN  /\ Descending(Listed(c))
                        /\ k.bottom.delegations # <<>> => k.top_capacity = "Full"
                        /\ Len(k.top.delegations) <= MaxTopDelegationsPerCandidate
                        /\ Len(k.bottom.delegations) <= MaxBottomDelegationsPerCandidate
                        /\ k = [reset_bottom_data(reset_top_data(k, k.top), k.bottom)
                                EXCEPT !.total_stake_counted = k.total_stake_counted]
                        /\ k.top.total = SumStakes(k.top.delegations)
  BY DEF BooksOrdered
<1> DEFINE k == CandidateInfo[c]
           S == Held(DelegatorState, c)
<1>1. BookOf(k, S) /\ is_candidate(c)
  BY AtCandidate DEF is_candidate
<1>2. PICK T, B : Good(k, T, B)
  BY <1>1 DEF BookOf
<1>3. Descending(Listed(c))
  <2>1. Listing(Listed(c), S)
    BY <1>1, ListedIs
  <2> QED BY <2>1 DEF Listing, Descending
<1> HIDE DEF k
<1>4. /\ k \in BookT /\ TopHolds(k, T) /\ BottomHolds(k, B) /\ Split(T, B)
  BY <1>2 DEF Good
<1>5. /\ Cardinality(T) = Len(k.top.delegations) /\ Cardinality(B) = Len(k.bottom.delegations)
      /\ k.top_capacity = "Full" <=> Cardinality(T) = MaxTop
  BY <1>4, TopFacts, BottomFacts
<1>6. B = {} <=> k.bottom.delegations = <<>>
  BY <1>4, HoldsEnds DEF BottomHolds
<1>7. /\ Len(k.top.delegations) <= MaxTop /\ Len(k.bottom.delegations) <= MaxBottom
      /\ k.bottom.delegations # <<>> => k.top_capacity = "Full"
  BY <1>4, <1>5, <1>6 DEF TopHolds, BottomHolds, Split
<1>8. k = [reset_bottom_data(reset_top_data(k, k.top), k.bottom)
           EXCEPT !.total_stake_counted = k.total_stake_counted]
  BY <1>4, CachedIs DEF TopHolds, BottomHolds
<1>9. k.top.total = SumStakes(k.top.delegations)
  <2>1. Listing(k.top.delegations, T) /\ k.top.total = Weight(T)
    BY <1>4 DEF TopHolds, Holds
  <2> QED BY <2>1, WeightList
<1> QED BY <1>3, <1>7, <1>8, <1>9 DEF k, MaxTop, MaxBottom

\* A delegation is in the lists of its candidate exactly if it is in the record of its
\* delegator, with the same stake, once: add_delegation, rm_delegation_if_exists,
\* increase_delegation and decrease_delegation of types.rs never lose or double one.
THEOREM BooksAlwaysAgree == Spec => []BooksAgree
BY BooksHold, BookInvAgree, PTL

\* The lists of a candidate stay sorted and within their limits, the bottom is used only
\* when the top is full and never outranks it, and the cached ends and capacities
\* (reset_top_data, reset_bottom_data) are those of the lists.
THEOREM BooksAlwaysOrdered == Spec => []BooksOrdered
BY BooksHold, BookInvOrdered, PTL

\* The pool CP is that of the active candidates of CI.
Pooled(CP, CI) ==
  /\ DOMAIN CP = {c \in DOMAIN CI : CI[c].status = "Active"}
  /\ \A c \in DOMAIN CP : CP[c] = CI[c].total_stake_counted

PoolInv == Pooled(CandidatePool, CandidateInfo)

\* A candidate's book changes, its status does not.
LEMMA PoolUpdated ==
  ASSUME PoolInv, NEW c, is_candidate(c), NEW k, k.status = CandidateInfo[c].status,
         CandidateInfo' = [CandidateInfo EXCEPT ![c] = k],
         \/ CandidatePool' = update_active(c, k)
         \/ CandidatePool' = PoolAfter(c, k)
         \/ /\ CandidatePool' = CandidatePool
            /\ k.total_stake_counted = CandidateInfo[c].total_stake_counted
  PROVE  PoolInv'
<1> DEFINE CI == CandidateInfo
           CP == CandidatePool
<1>1. /\ DOMAIN CP = {e \in DOMAIN CI : CI[e].status = "Active"}
      /\ \A e \in DOMAIN CP : CP[e] = CI[e].total_stake_counted
  BY DEF PoolInv, Pooled
<1>2. /\ DOMAIN CI' = DOMAIN CI /\ CI'[c] = k /\ \A e \in DOMAIN CI \ {c} : CI'[e] = CI[e]
      /\ c \in DOMAIN CI
  BY DEF is_candidate
<1>3. {e \in DOMAIN CI' : CI'[e].status = "Active"} = {e \in DOMAIN CI : CI[e].status = "Active"}
  BY <1>2
<1>4. CASE CP' = CP /\ k.total_stake_counted = CI[c].total_stake_counted
  BY <1>1, <1>2, <1>3, <1>4 DEF PoolInv, Pooled
<1>5. CASE CP' = update_active(c, k)
  <2>1. CASE k.status = "Active"
    <3>1. CP' = Put(CP, c, k.total_stake_counted) /\ c \in DOMAIN CP
      BY <1>1, <1>2, <1>5, <2>1 DEF update_active
    <3>2. /\ DOMAIN CP' = DOMAIN CP /\ CP'[c] = k.total_stake_counted
          /\ \A e \in DOMAIN CP \ {c} : CP'[e] = CP[e]
      BY <3>1 DEF Put
    <3> QED BY <1>1, <1>2, <1>3, <3>2 DEF PoolInv, Pooled
  <2>2. CASE k.status # "Active"
    <3>1. CP' = CP /\ c \notin DOMAIN CP
      BY <1>1, <1>2, <1>5, <2>2 DEF update_active
    <3> QED BY <1>1, <1>2, <1>3, <3>1 DEF PoolInv, Pooled
  <2> QED BY <2>1, <2>2
<1>6. CASE CP' = PoolAfter(c, k)
  BY <1>4, <1>5, <1>6 DEF PoolAfter
<1> QED BY <1>4, <1>5, <1>6

\* join_candidates keeps the pool current.
LEMMA PoolJoin ==
  ASSUME PoolInv, NEW c, NEW a, join_candidates(c, a)
  PROVE  PoolInv'
<1> DEFINE CI == CandidateInfo
           CP == CandidatePool
           k == NewBook(power(c, a))
<1>1. /\ CI' = Put(CI, c, k) /\ CP' = Put(CP, c, power(c, a)) /\ c \notin DOMAIN CI
  BY DEF join_candidates, is_candidate
<1>2. k.status = "Active" /\ k.total_stake_counted = power(c, a)
  BY DEF NewBook
<1> HIDE DEF k
<1>3. /\ DOMAIN CI' = DOMAIN CI \cup {c} /\ CI'[c] = k /\ \A e \in DOMAIN CI : CI'[e] = CI[e]
      /\ DOMAIN CP' = DOMAIN CP \cup {c} /\ CP'[c] = power(c, a)
      /\ \A e \in DOMAIN CP \ {c} : CP'[e] = CP[e]
  BY <1>1 DEF Put
<1> QED BY <1>1, <1>2, <1>3 DEF PoolInv, Pooled

\* A change of status keeps the pool current.
LEMMA PoolStatus ==
  ASSUME BookInv, PoolInv, NEW c, is_candidate(c), NEW status, NEW when, ChangeStatus(c, status, when)
  PROVE  PoolInv'
<1> DEFINE CI == CandidateInfo
           CP == CandidatePool
           k == [CI[c] EXCEPT !.status = status, !.when = when]
<1>1. /\ CI' = [CI EXCEPT ![c] = k]
      /\ CP' = IF status = "Active" THEN Put(CP, c, CI[c].total_stake_counted) ELSE Drop(CP, c)
  BY DEF ChangeStatus

<1>2. k.status = status /\ k.total_stake_counted = CI[c].total_stake_counted /\ c \in Collators
      /\ c \in DOMAIN CI
  BY AtCandidate DEF BookT
<1> HIDE DEF k
<1>3. DOMAIN CI' = DOMAIN CI /\ CI'[c] = k /\ \A e \in DOMAIN CI \ {c} : CI'[e] = CI[e]
  BY <1>1, <1>2
<1>4. CASE status = "Active"
  <2>1. /\ DOMAIN CP' = DOMAIN CP \cup {c} /\ CP'[c] = CI[c].total_stake_counted
        /\ \A e \in DOMAIN CP \ {c} : CP'[e] = CP[e]
    BY <1>1, <1>4 DEF Put
  <2> QED BY <1>2, <1>3, <1>4, <2>1 DEF PoolInv, Pooled
<1>5. CASE status # "Active"
  <2>1. /\ DOMAIN CP' = DOMAIN CP \ {c} /\ \A e \in DOMAIN CP \ {c} : CP'[e] = CP[e]
    BY <1>1, <1>5 DEF Drop, Restrict
  <2> QED BY <1>2, <1>3, <1>5, <2>1 DEF PoolInv, Pooled
<1> QED BY <1>4, <1>5

\* The calls that change the status keep the pool current.
LEMMA PoolStatuses ==
  ASSUME BookInv, PoolInv, NEW c,
         \/ schedule_leave_candidates(c) \/ cancel_leave_candidates(c)
         \/ go_offline(c) \/ go_online(c)
  PROVE  PoolInv'
<1>1. CASE schedule_leave_candidates(c)
  BY <1>1, PoolStatus DEF schedule_leave_candidates
<1>2. CASE cancel_leave_candidates(c)
  BY <1>2, PoolStatus DEF cancel_leave_candidates
<1>3. CASE go_offline(c)
  BY <1>3, PoolStatus DEF go_offline
<1>4. CASE go_online(c)
  BY <1>4, PoolStatus DEF go_online
<1> QED BY <1>1, <1>2, <1>3, <1>4

\* The calls about the candidate's own bond keep the pool current.
LEMMA PoolCandidate ==
  ASSUME BookInv, PoolInv, NEW c,
         \/ \E a \in Amounts : candidate_bond_more(c, a) \/ schedule_candidate_bond_less(c, a)
         \/ execute_candidate_bond_less(c) \/ cancel_candidate_bond_less(c)
  PROVE  PoolInv'
<1> DEFINE CI == CandidateInfo
<1>1. ASSUME NEW a \in Amounts, candidate_bond_more(c, a)
      PROVE  PoolInv'
  <2> DEFINE s == power(c, a)
             k == [CI[c] EXCEPT !.stake = Plus(@, s), !.total_stake_counted = Plus(@, s)]
  <2>1. is_candidate(c) /\ CI' = [CI EXCEPT ![c] = k] /\ CandidatePool' = update_active(c, k)
    BY <1>1, Zenon DEF candidate_bond_more
  <2>2. k.status = CI[c].status
    BY <2>1, AtCandidate DEF BookT
  <2> HIDE DEF k
  <2> QED BY <2>1, <2>2, PoolUpdated
<1>2. ASSUME NEW a \in Amounts, schedule_candidate_bond_less(c, a)
      PROVE  PoolInv'
  <2> DEFINE k == [CI[c] EXCEPT !.request = [amount |-> a, when |-> round + CandidateBondLessDelay]]
  <2>1. is_candidate(c) /\ CI' = [CI EXCEPT ![c] = k] /\ CandidatePool' = CandidatePool
    BY <1>2 DEF schedule_candidate_bond_less
  <2>2. k.status = CI[c].status /\ k.total_stake_counted = CI[c].total_stake_counted
    BY <2>1, AtCandidate DEF BookT
  <2> HIDE DEF k
  <2> QED BY <2>1, <2>2, PoolUpdated
<1>3. ASSUME execute_candidate_bond_less(c)
      PROVE  PoolInv'
  <2> DEFINE s == power(c, CI[c].request.amount)
             k == [CI[c] EXCEPT !.stake = Minus(@, s), !.total_stake_counted = Minus(@, s),
                                !.request = None]
  <2>1. is_candidate(c) /\ CI' = [CI EXCEPT ![c] = k] /\ CandidatePool' = update_active(c, k)
    BY <1>3 DEF execute_candidate_bond_less, bond_less
  <2>2. k.status = CI[c].status
    BY <2>1, AtCandidate DEF BookT
  <2> HIDE DEF k
  <2> QED BY <2>1, <2>2, PoolUpdated
<1>4. ASSUME cancel_candidate_bond_less(c)
      PROVE  PoolInv'
  <2> DEFINE k == [CI[c] EXCEPT !.request = None]
  <2>1. is_candidate(c) /\ CI' = [CI EXCEPT ![c] = k] /\ CandidatePool' = CandidatePool
    BY <1>4 DEF cancel_candidate_bond_less
  <2>2. k.status = CI[c].status /\ k.total_stake_counted = CI[c].total_stake_counted
    BY <2>1, AtCandidate DEF BookT
  <2> HIDE DEF k
  <2> QED BY <2>1, <2>2, PoolUpdated
<1> QED BY <1>1, <1>2, <1>3, <1>4

\* The operations on a delegation that exists leave the candidate's own data.
LEMMA PairBooks ==
  ASSUME BookInv, NEW d, is_delegator(d), NEW c \in DOMAIN DelegatorState[d].delegations,
         NEW s, s = DelegatorState[d].delegations[c]
  PROVE  LET k == CandidateInfo[c]
         IN  /\ SameCandidate(k, rm_delegation_if_exists(k, d, s))
             /\ \A more \in StakeT : SameCandidate(k, increase_delegation(k, d, s, more))
             /\ \A less \in StakeT : Within(less, s) =>
                  SameCandidate(k, decrease_delegation(k, d, s, less))
<1> DEFINE k == CandidateInfo[c]
           S == Held(DelegatorState, c)
           b == Bond(d, s)
<1>1. b \in S /\ is_candidate(c) /\ s \in StakeT
  BY AtPair
<1>2. BookOf(k, S)
  BY <1>1, AtCandidate
<1>3. b.owner = d /\ b.stake = s
  BY DEF Bond
<1> HIDE DEF b, S, k
<1>4. /\ SameCandidate(k, rm_delegation_if_exists(k, b.owner, b.stake))
      /\ \A more \in StakeT : SameCandidate(k, increase_delegation(k, b.owner, b.stake, more))
      /\ \A less \in StakeT : Within(less, b.stake) =>
           SameCandidate(k, decrease_delegation(k, b.owner, b.stake, less))
  BY <1>1, <1>2, BookRm, BookInc, BookDec
<1> QED BY <1>3, <1>4 DEF k

\* The request that is executed, against what is bonded.
LEMMA ExecuteRequest ==
  ASSUME BookInv, NEW d, NEW c \in Collators, execute_delegation_request(d, c)
  PROVE  LET s == DelegatorState[d].delegations[c]
             q == Requests[c][d]
         IN  /\ is_delegator(d) /\ is_candidate(c) /\ c \in DOMAIN DelegatorState[d].delegations
             /\ d \in DOMAIN Requests[c] /\ Own(d, q.stake) /\ Own(d, s)
             /\ Within(q.stake, s) /\ q.stake.amount <= s.amount
             /\ q.action = "Revoke" => q.stake = s
             /\ q.action # "Revoke" => q.stake.amount < s.amount
<1> DEFINE s == DelegatorState[d].delegations[c]
           q == Requests[c][d]
<1>1. /\ is_delegator(d) /\ is_candidate(c) /\ c \in DOMAIN DelegatorState[d].delegations
      /\ d \in DOMAIN Requests[c]
      /\ q.action # "Revoke" => Below(q.stake, s)
  BY DEF execute_delegation_request, execute_decrease, CanDecrease
<1>2. Stk(DelegatorState, d, c) = s /\ Own(d, s)
  BY <1>1, AtPair
<1>3. Asked(d, s, q)
  BY <1>1, <1>2, AtRequest
<1>4. d \in Accounts
  BY <1>1, AtDelegator
<1> HIDE DEF s, q
<1>5. Own(d, q.stake) /\ q.stake.amount <= s.amount /\ (q.action = "Revoke" => q.stake = s)
  BY <1>3 DEF Asked
<1>6. Within(q.stake, s) /\ (Below(q.stake, s) => q.stake.amount < s.amount)
  BY <1>2, <1>4, <1>5, OwnOrder
<1> QED BY <1>1, <1>2, <1>5, <1>6 DEF s, q

\* execute_delegation_request keeps the pool current.
LEMMA PoolExecute ==
  ASSUME BookInv, PoolInv, NEW d, NEW c \in Collators, execute_delegation_request(d, c)
  PROVE  PoolInv'
<1> DEFINE k == CandidateInfo[c]
           s == DelegatorState[d].delegations[c]
           q == Requests[c][d]
<1>1. /\ is_delegator(d) /\ is_candidate(c) /\ c \in DOMAIN DelegatorState[d].delegations
      /\ d \in DOMAIN Requests[c] /\ Own(d, q.stake) /\ Within(q.stake, s)
      /\ q.action = "Revoke" => q.stake = s
  BY ExecuteRequest
<1>2. /\ SameCandidate(k, rm_delegation_if_exists(k, d, s))
      /\ SameCandidate(k, decrease_delegation(k, d, s, q.stake))
  BY <1>1, PairBooks DEF Own
<1>3. CASE q.action = "Revoke"
  <2>1. /\ CandidateInfo' = [CandidateInfo EXCEPT ![c] = rm_delegation_if_exists(k, d, q.stake)]
        /\ CandidatePool' = PoolAfter(c, rm_delegation_if_exists(k, d, q.stake))
    BY <1>3 DEF execute_delegation_request, execute_revoke
  <2> QED BY <1>1, <1>2, <1>3, <2>1, PoolUpdated DEF SameCandidate
<1>4. CASE q.action # "Revoke"
  <2>1. /\ CandidateInfo' = [CandidateInfo EXCEPT ![c] = decrease_delegation(k, d, s, q.stake)]
        /\ CandidatePool' = PoolAfter(c, decrease_delegation(k, d, s, q.stake))
    BY <1>4 DEF execute_delegation_request, execute_decrease
  <2> QED BY <1>1, <1>2, <2>1, PoolUpdated DEF SameCandidate
<1> QED BY <1>3, <1>4

\* delegator_bond_more keeps the pool current.
LEMMA PoolMore ==
  ASSUME BookInv, PoolInv, NEW d, NEW c, NEW a \in Amounts, delegator_bond_more(d, c, a)
  PROVE  PoolInv'
<1> DEFINE k == increase_delegation(CandidateInfo[c], d, DelegatorState[d].delegations[c],
                                    power(d, a))
<1>1. /\ is_delegator(d) /\ c \in DOMAIN DelegatorState[d].delegations /\ is_candidate(c)
      /\ CandidateInfo' = [CandidateInfo EXCEPT ![c] = k] /\ CandidatePool' = PoolAfter(c, k)
  BY DEF delegator_bond_more, CanBondMore, delegation_bond_more_without_event
<1>2. power(d, a) \in StakeT
  BY <1>1, AtDelegator, AmountsAre, OwnPower DEF Own
<1>3. SameCandidate(CandidateInfo[c], k)
  BY <1>1, <1>2, PairBooks
<1> HIDE DEF k
<1> QED BY <1>1, <1>3, PoolUpdated DEF SameCandidate

\* delegate_with_auto_compound keeps the pool current.
LEMMA PoolDelegate ==
  ASSUME BookInv, PoolInv, NEW d \in Delegators, NEW c \in Collators, NEW a \in Amounts, NEW p,
         delegate_with_auto_compound(d, c, a, p)
  PROVE  PoolInv'
<1> DEFINE k == add_delegation(CandidateInfo[c], Bond(d, power(d, a)))
<1>1. /\ is_candidate(c) /\ CandidateInfo' = [CandidateInfo EXCEPT ![c] = k]
      /\ SameCandidate(CandidateInfo[c], k)
  BY DelegateIs
<1>2. CandidatePool' = PoolAfter(c, k)
  BY DEF delegate_with_auto_compound
<1> HIDE DEF k
<1> QED BY <1>1, <1>2, PoolUpdated DEF SameCandidate

\* execute_leave_candidates keeps the pool current.
LEMMA PoolLeave ==
  ASSUME PoolInv, NEW c, execute_leave_candidates(c)
  PROVE  PoolInv'
<1>1. /\ CandidateInfo' = Drop(CandidateInfo, c) /\ CandidatePool' = CandidatePool
      /\ CandidateInfo[c].status = "Leaving"
  BY DEF execute_leave_candidates, can_leave, is_leaving
<1>2. /\ DOMAIN CandidateInfo' = DOMAIN CandidateInfo \ {c}
      /\ \A e \in DOMAIN CandidateInfo \ {c} : CandidateInfo'[e] = CandidateInfo[e]
  BY <1>1 DEF Drop, Restrict
<1> QED BY <1>1, <1>2 DEF PoolInv, Pooled

\* execute_leave_delegators keeps the pool current.
LEMMA PoolLeaveDelegators ==
  ASSUME BookInv, PoolInv, NEW d, execute_leave_delegators(d)
  PROVE  PoolInv'
<1> DEFINE ds == DelegatorState[d].delegations
           k(c) == rm_delegation_if_exists(CandidateInfo[c], d, ds[c])
           CI == CandidateInfo
           CP == CandidatePool
<1>1. /\ \A c \in DOMAIN ds : is_candidate(c) /\ SameCandidate(CI[c], k(c))
      /\ CI' = [c \in DOMAIN CI |-> IF c \in DOMAIN ds THEN k(c) ELSE CI[c]]
      /\ CP' = [c \in DOMAIN CP |-> IF c \in DOMAIN ds THEN PoolAfter(c, k(c))[c] ELSE CP[c]]
  BY LeaveDelegatorIs
<1> HIDE DEF k
<1>2. /\ DOMAIN CI' = DOMAIN CI /\ DOMAIN CP' = DOMAIN CP
      /\ \A c \in DOMAIN CI : CI'[c].status = CI[c].status
  BY <1>1 DEF SameCandidate
<1>3. /\ DOMAIN CP = {c \in DOMAIN CI : CI[c].status = "Active"}
      /\ \A c \in DOMAIN CP : CP[c] = CI[c].total_stake_counted
  BY DEF PoolInv, Pooled
<1>4. ASSUME NEW c \in DOMAIN CP
      PROVE  CP'[c] = CI'[c].total_stake_counted
  <2>1. CASE c \in DOMAIN ds
    <3>1. CI'[c] = k(c) /\ CP'[c] = PoolAfter(c, k(c))[c]
      BY <1>1, <1>3, <2>1
    <3>2. k(c).status = "Active"
      BY <1>1, <1>3, <2>1 DEF SameCandidate
    <3>3. CASE k(c).total_stake_counted = CI[c].total_stake_counted
      BY <1>3, <3>1, <3>3 DEF PoolAfter
    <3>4. CASE k(c).total_stake_counted # CI[c].total_stake_counted
      <4>1. PoolAfter(c, k(c)) = Put(CP, c, k(c).total_stake_counted)
        BY <3>2, <3>4 DEF PoolAfter, update_active
      <4> QED BY <3>1, <4>1 DEF Put
    <3> QED BY <3>3, <3>4
  <2>2. CASE c \notin DOMAIN ds
    BY <1>1, <1>3, <2>2
  <2> QED BY <2>1, <2>2
<1>5. DOMAIN CP' = {c \in DOMAIN CI' : CI'[c].status = "Active"}
  BY <1>2, <1>3
<1> QED BY <1>2, <1>4, <1>5 DEF PoolInv, Pooled

\* Every step keeps the pool current.
LEMMA PoolNext ==
  ASSUME BookInv, PoolInv, [Next]_vars
  PROVE  PoolInv'
<1>1. ASSUME CandidateInfo' = CandidateInfo, CandidatePool' = CandidatePool
      PROVE  PoolInv'
  BY <1>1 DEF PoolInv
<1>2. CASE \E c \in Collators : \E a \in Amounts : join_candidates(c, a)
  BY <1>2, PoolJoin
<1>3. CASE \E c \in Collators :
             \/ schedule_leave_candidates(c) \/ cancel_leave_candidates(c)
             \/ go_offline(c) \/ go_online(c)
  BY <1>3, PoolStatuses
<1>4. CASE \E c \in Collators :
             \/ \E a \in Amounts : candidate_bond_more(c, a) \/ schedule_candidate_bond_less(c, a)
             \/ execute_candidate_bond_less(c) \/ cancel_candidate_bond_less(c)
  BY <1>4, PoolCandidate
<1>5. CASE \E c \in Collators : execute_leave_candidates(c)
  BY <1>5, PoolLeave
<1>6. CASE \E c \in Collators : hotfix_remove_delegation_requests_exited_candidates(c)
  BY <1>1, <1>6 DEF hotfix_remove_delegation_requests_exited_candidates
<1>7. CASE \E d \in Delegators, c \in Collators :
             \/ \E a \in Amounts, p \in Percents : delegate_with_auto_compound(d, c, a, p)
             \/ \E a \in Amounts : delegator_bond_more(d, c, a)
             \/ execute_delegation_request(d, c)
  BY <1>7, PoolDelegate, PoolMore, PoolExecute
<1>8. CASE \E d \in Delegators, c \in Collators :
             \/ \E p \in Percents : set_auto_compound(d, c, p)
             \/ \E a \in Amounts : schedule_delegator_bond_less(d, c, a)
             \/ schedule_revoke_delegation(d, c) \/ cancel_delegation_request(d, c)
  BY <1>1, <1>8 DEF set_auto_compound, schedule_delegator_bond_less, schedule_revoke_delegation,
                    cancel_delegation_request, UnchangedBySchedule
<1>9. CASE \E d \in Delegators : schedule_leave_delegators(d) \/ cancel_leave_delegators(d)
  BY <1>1, <1>9 DEF schedule_leave_delegators, cancel_leave_delegators, UnchangedBySchedule
<1>10. CASE \E d \in Delegators : execute_leave_delegators(d)
  BY <1>10, PoolLeaveDelegators
<1>11. CASE StartRound \/ UNCHANGED vars
  BY <1>1, <1>11 DEF StartRound, vars, bonding
<1> QED BY <1>2, <1>3, <1>4, <1>5, <1>6, <1>7, <1>8, <1>9, <1>10, <1>11 DEF Next, Bonding

\* PoolIsCurrent follows.
LEMMA PoolCurrent ==
  ASSUME BookInv, PoolInv
  PROVE  PoolIsCurrent
<1>1. ASSUME NEW c \in DOMAIN CandidateInfo
      PROVE  CandidateInfo[c].total_stake_counted =
               Plus(CandidateInfo[c].stake, SumStakes(CandidateInfo[c].top.delegations))
  <2> DEFINE k == CandidateInfo[c]
  <2>1. BookOf(k, Held(DelegatorState, c))
    BY AtCandidate DEF is_candidate
  <2>2. k.total_stake_counted = Plus(k.stake, k.top.total)
    BY <2>1, CountedIs
  <2>3. k.top.total = SumStakes(k.top.delegations)
    BY BookInvOrdered DEF BooksOrdered
  <2> QED BY <2>2, <2>3
<1> QED BY <1>1 DEF PoolInv, Pooled, PoolIsCurrent

\* The stake by which a candidate is selected is the one its book counts, although
\* reset_top_data calls update_active only when it sees the counted total change.
THEOREM PoolAlwaysCurrent == Spec => []PoolIsCurrent
<1>1. Init => PoolInv
  BY DEF Init, PoolInv, Pooled, Empty
<1>2. BookInv /\ PoolInv /\ [Next]_vars => PoolInv'
  BY PoolNext
<1>3. BookInv /\ PoolInv => PoolIsCurrent
  BY PoolCurrent
<1> QED BY <1>1, <1>2, <1>3, BooksHold, PTL DEF Spec

\* What the locks of an account are to be.
CLock(CI, a) == IF a \in DOMAIN CI THEN CI[a].stake.amount ELSE 0

DLock(DS, a) == IF a \in DOMAIN DS THEN DS[a].total.amount ELSE 0

CLockInv ==
  /\ free \in [Accounts -> Nat]
  /\ DOMAIN collatorLock = Accounts
  /\ \A a \in Accounts : /\ collatorLock[a] = CLock(CandidateInfo, a)
                         /\ collatorLock[a] <= free[a]

DLockInv ==
  /\ free \in [Accounts -> Nat]
  /\ DOMAIN delegatorLock = Accounts
  /\ \A a \in Accounts : /\ delegatorLock[a] = DLock(DelegatorState, a)
                         /\ delegatorLock[a] <= free[a]

\* The bond of a candidate is a number.
LEMMA CLockNat ==
  ASSUME BookInv, NEW a
  PROVE  CLock(CandidateInfo, a) \in Nat
<1>1. CASE a \in DOMAIN CandidateInfo
  <2>1. CandidateInfo[a].stake \in StakeT
    BY <1>1, AtCandidate, BookOfFacts DEF is_candidate
  <2> QED BY <1>1, <2>1, StakeParts DEF CLock
<1>2. CASE a \notin DOMAIN CandidateInfo
  BY <1>2 DEF CLock
<1> QED BY <1>1, <1>2

\* The total of a delegator is a number.
LEMMA DLockNat ==
  ASSUME BookInv, NEW a
  PROVE  DLock(DelegatorState, a) \in Nat
<1>1. CASE a \in DOMAIN DelegatorState
  <2>1. DelegatorState[a].total \in StakeT
    BY <1>1, AtDelegator, DelegatorParts DEF is_delegator
  <2> QED BY <1>1, <2>1, StakeParts DEF DLock
<1>2. CASE a \notin DOMAIN DelegatorState
  BY <1>2 DEF DLock
<1> QED BY <1>1, <1>2

-----------------------------------------------------------------------------
(***************************************************************************)
(* The locks of the candidates.                                            *)
(***************************************************************************)
\* Nothing that concerns the bonds of the candidates.
LEMMA CLockSame ==
  ASSUME CLockInv, free' = free, collatorLock' = collatorLock,
         DOMAIN CandidateInfo' = DOMAIN CandidateInfo,
         \A c \in DOMAIN CandidateInfo : CandidateInfo'[c].stake = CandidateInfo[c].stake
  PROVE  CLockInv'
BY DEF CLockInv, CLock

\* A step that leaves the candidate's own bond alone leaves its lock right.
LEMMA CLockBook ==
  ASSUME CLockInv, NEW c, is_candidate(c), NEW k, k.stake = CandidateInfo[c].stake,
         free' = free, collatorLock' = collatorLock,
         CandidateInfo' = [CandidateInfo EXCEPT ![c] = k]
  PROVE  CLockInv'
<1>1. /\ DOMAIN CandidateInfo' = DOMAIN CandidateInfo
      /\ \A e \in DOMAIN CandidateInfo : CandidateInfo'[e].stake = CandidateInfo[e].stake
  BY DEF is_candidate
<1> QED BY <1>1, CLockSame

\* The bond of c becomes that of k, or goes.
LEMMA CLockSet ==
  ASSUME CLockInv, NEW c \in Accounts, NEW m, m <= free[c],
         free' = free, collatorLock' = [collatorLock EXCEPT ![c] = m],
         CLock(CandidateInfo', c) = m,
         \A e : e # c => CLock(CandidateInfo', e) = CLock(CandidateInfo, e)
  PROVE  CLockInv'
<1>1. DOMAIN collatorLock' = Accounts /\ collatorLock'[c] = m
      /\ \A e \in Accounts \ {c} : collatorLock'[e] = collatorLock[e]
  BY DEF CLockInv
<1>2. ASSUME NEW a \in Accounts
      PROVE  collatorLock'[a] = CLock(CandidateInfo', a) /\ collatorLock'[a] <= free'[a]
  <2>1. CASE a = c
    BY <1>1, <2>1
  <2>2. CASE a # c
    BY <1>1, <2>2 DEF CLockInv
  <2> QED BY <2>1, <2>2
<1> QED BY <1>1, <1>2 DEF CLockInv

\* join_candidates keeps the locks of the candidates.
LEMMA CLockJoin ==
  ASSUME CLockInv, NEW c \in Collators, NEW a \in Amounts, join_candidates(c, a)
  PROVE  CLockInv'
<1> DEFINE k == NewBook(power(c, a))
<1>1. /\ c \notin DOMAIN CandidateInfo /\ free[c] >= a /\ free' = free
      /\ CandidateInfo' = Put(CandidateInfo, c, k)
      /\ collatorLock' = [collatorLock EXCEPT ![c] = a]
  BY DEF join_candidates, is_candidate, get_collator_stakable_free_balance
<1>2. k.stake.amount = a
  BY DEF NewBook, power, Stake
<1> HIDE DEF k
<1>3. /\ CLock(CandidateInfo', c) = a
      /\ \A e : e # c => CLock(CandidateInfo', e) = CLock(CandidateInfo, e)
  BY <1>1, <1>2 DEF Put, CLock
<1>4. c \in Accounts /\ free[c] \in Nat /\ a \in Nat
  BY AccountsAre, AmountsAre DEF CLockInv
<1>5. a <= free[c]
  BY <1>1, <1>4
<1> QED BY <1>1, <1>3, <1>4, <1>5, CLockSet

\* candidate_bond_more keeps the locks of the candidates.
LEMMA CLockMore ==
  ASSUME BookInv, CLockInv, NEW c, NEW a \in Amounts, candidate_bond_more(c, a)
  PROVE  CLockInv'
<1> DEFINE s == power(c, a)
           k == WithMore(CandidateInfo[c], s)
<1>1. /\ is_candidate(c) /\ get_collator_stakable_free_balance(c) >= a /\ free' = free
      /\ CandidateInfo' = [CandidateInfo EXCEPT ![c] = k]
      /\ collatorLock' = [collatorLock EXCEPT ![c] = k.stake.amount]
  BY DEF candidate_bond_more, WithMore
<1>2. /\ c \in Accounts /\ BookOf(CandidateInfo[c], Held(DelegatorState, c))
      /\ Backed(c, CandidateInfo[c]) /\ c \in DOMAIN CandidateInfo
  BY <1>1, AtCandidate
<1>3. Own(c, s) /\ s.amount = a
  BY <1>2, AmountsAre, OwnPower DEF power, Stake
<1> HIDE DEF s
<1>4. k.stake.amount = CandidateInfo[c].stake.amount + a
  BY <1>2, <1>3, BookBondMore
<1> HIDE DEF k
<1>5. CandidateInfo[c].stake.amount \in Nat /\ a \in Nat /\ a > 0 /\ free[c] \in Nat
  BY <1>2, AmountsAre, CLockNat DEF CLock, CLockInv
<1>6. k.stake.amount <= free[c]
  <2>1. SaturatingSub(free[c], CandidateInfo[c].stake.amount) >= a
    BY <1>1 DEF get_collator_stakable_free_balance
  <2> QED BY <1>4, <1>5, <2>1 DEF SaturatingSub
<1>7. /\ CLock(CandidateInfo', c) = k.stake.amount
      /\ \A e : e # c => CLock(CandidateInfo', e) = CLock(CandidateInfo, e)
  BY <1>1, <1>2 DEF CLock
<1> QED BY <1>1, <1>2, <1>6, <1>7, CLockSet

\* execute_candidate_bond_less keeps the locks of the candidates.
LEMMA CLockLess ==
  ASSUME BookInv, CLockInv, NEW c, execute_candidate_bond_less(c)
  PROVE  CLockInv'
<1> DEFINE m == CandidateInfo[c].request.amount
           s == power(c, m)
           k == WithLess(CandidateInfo[c], s)
<1>1. /\ is_candidate(c) /\ CandidateInfo[c].request # None /\ free' = free
      /\ CandidateInfo' = [CandidateInfo EXCEPT ![c] = k]
      /\ collatorLock' = [collatorLock EXCEPT ![c] = k.stake.amount]
  BY DEF execute_candidate_bond_less, bond_less, WithLess
<1>2. /\ c \in Accounts /\ BookOf(CandidateInfo[c], Held(DelegatorState, c))
      /\ Backed(c, CandidateInfo[c]) /\ c \in DOMAIN CandidateInfo /\ CandidateInfo[c] \in BookT
  BY <1>1, AtCandidate
<1>3. m \in Nat /\ m <= CandidateInfo[c].stake.amount
  <2>1. CandidateInfo[c].request \in LessRequestT
    BY <1>1, <1>2 DEF BookT
  <2> QED BY <1>1, <1>2, <2>1 DEF LessRequestT, Backed
<1>4. Own(c, s) /\ s.amount = m
  BY <1>2, <1>3, OwnPower DEF power, Stake
<1> HIDE DEF s
<1>5. k.stake.amount = CandidateInfo[c].stake.amount - m
  <2> HIDE DEF m
  <2>1. k = WithLess(CandidateInfo[c], s)
    OBVIOUS
  <2> HIDE DEF k
  <2> QED BY <1>2, <1>3, <1>4, <2>1, BookBondLess
<1> HIDE DEF k
<1>6. /\ CandidateInfo[c].stake.amount \in Nat /\ free[c] \in Nat
      /\ CandidateInfo[c].stake.amount <= free[c]
  BY <1>2, CLockNat DEF CLock, CLockInv
<1>7. k.stake.amount <= free[c]
  <2> HIDE DEF m
  <2> QED BY <1>3, <1>5, <1>6
<1>8. /\ CLock(CandidateInfo', c) = k.stake.amount
      /\ \A e : e # c => CLock(CandidateInfo', e) = CLock(CandidateInfo, e)
  BY <1>1, <1>2 DEF CLock
<1> QED BY <1>1, <1>2, <1>7, <1>8, CLockSet

\* execute_leave_candidates keeps the locks of the candidates.
LEMMA CLockLeave ==
  ASSUME BookInv, CLockInv, NEW c, execute_leave_candidates(c)
  PROVE  CLockInv'
<1>1. /\ is_candidate(c) /\ CandidateInfo' = Drop(CandidateInfo, c) /\ free' = free
      /\ collatorLock' = [collatorLock EXCEPT ![c] = 0]
  BY DEF execute_leave_candidates
<1>2. c \in Accounts /\ 0 <= free[c]
  BY <1>1, AtCandidate DEF CLockInv
<1>3. /\ CLock(CandidateInfo', c) = 0
      /\ \A e : e # c => CLock(CandidateInfo', e) = CLock(CandidateInfo, e)
  BY <1>1 DEF Drop, Restrict, CLock
<1> QED BY <1>1, <1>2, <1>3, CLockSet

\* The calls about status and requests keep the locks of the candidates.
LEMMA CLockStatus ==
  ASSUME BookInv, CLockInv, NEW c,
         \/ schedule_leave_candidates(c) \/ cancel_leave_candidates(c)
         \/ go_offline(c) \/ go_online(c)
         \/ \E a \in Amounts : schedule_candidate_bond_less(c, a)
         \/ cancel_candidate_bond_less(c)
  PROVE  CLockInv'
<1>1. ASSUME NEW status, NEW when, is_candidate(c), ChangeStatus(c, status, when)
      PROVE  CLockInv'
  <2> DEFINE k == [CandidateInfo[c] EXCEPT !.status = status, !.when = when]
  <2>1. CandidateInfo' = [CandidateInfo EXCEPT ![c] = k] /\ free' = free
        /\ collatorLock' = collatorLock
    BY <1>1 DEF ChangeStatus
  <2>2. k.stake = CandidateInfo[c].stake
    BY <1>1, AtCandidate DEF BookT
  <2> HIDE DEF k
  <2> QED BY <1>1, <2>1, <2>2, CLockBook
<1>2. ASSUME NEW q, is_candidate(c), free' = free, collatorLock' = collatorLock,
             CandidateInfo' = [CandidateInfo EXCEPT ![c].request = q]
      PROVE  CLockInv'
  <2> DEFINE k == [CandidateInfo[c] EXCEPT !.request = q]
  <2>1. CandidateInfo' = [CandidateInfo EXCEPT ![c] = k]
    BY <1>2
  <2>2. k.stake = CandidateInfo[c].stake
    BY <1>2, AtCandidate DEF BookT
  <2> HIDE DEF k
  <2> QED BY <1>2, <2>1, <2>2, CLockBook
<1>3. CASE schedule_leave_candidates(c)
  BY <1>1, <1>3 DEF schedule_leave_candidates
<1>4. CASE cancel_leave_candidates(c)
  BY <1>1, <1>4 DEF cancel_leave_candidates
<1>5. CASE go_offline(c)
  BY <1>1, <1>5 DEF go_offline
<1>6. CASE go_online(c)
  BY <1>1, <1>6 DEF go_online
<1>7. CASE \E a \in Amounts : schedule_candidate_bond_less(c, a)
  BY <1>2, <1>7 DEF schedule_candidate_bond_less
<1>8. CASE cancel_candidate_bond_less(c)
  BY <1>2, <1>8 DEF cancel_candidate_bond_less
<1> QED BY <1>3, <1>4, <1>5, <1>6, <1>7, <1>8

\* The calls about one delegation keep the locks of the candidates.
LEMMA CLockPair ==
  ASSUME BookInv, CLockInv, NEW d \in Delegators, NEW c \in Collators,
         \/ \E a \in Amounts, p \in Percents : delegate_with_auto_compound(d, c, a, p)
         \/ \E a \in Amounts : delegator_bond_more(d, c, a)
         \/ execute_delegation_request(d, c)
  PROVE  CLockInv'
<1>1. ASSUME NEW a \in Amounts, NEW p \in Percents, delegate_with_auto_compound(d, c, a, p)
      PROVE  CLockInv'
  <2> DEFINE k == add_delegation(CandidateInfo[c], Bond(d, power(d, a)))
  <2>1. /\ is_candidate(c) /\ CandidateInfo' = [CandidateInfo EXCEPT ![c] = k]
        /\ SameCandidate(CandidateInfo[c], k)
    BY <1>1, DelegateIs, Zenon
  <2>2. free' = free /\ collatorLock' = collatorLock
    BY <1>1, Zenon DEF delegate_with_auto_compound
  <2> HIDE DEF k
  <2> QED BY <2>1, <2>2, CLockBook DEF SameCandidate
<1>2. ASSUME NEW a \in Amounts, delegator_bond_more(d, c, a)
      PROVE  CLockInv'
  <2> DEFINE k == increase_delegation(CandidateInfo[c], d, DelegatorState[d].delegations[c],
                                      power(d, a))
  <2>1. /\ is_delegator(d) /\ c \in DOMAIN DelegatorState[d].delegations /\ is_candidate(c)
        /\ CandidateInfo' = [CandidateInfo EXCEPT ![c] = k] /\ free' = free
        /\ collatorLock' = collatorLock
    BY <1>2, Zenon DEF delegator_bond_more, CanBondMore, delegation_bond_more_without_event
  <2>2. power(d, a) \in StakeT
    BY <2>1, AtDelegator, AmountsAre, OwnPower DEF Own
  <2>3. SameCandidate(CandidateInfo[c], k)
    BY <2>1, <2>2, PairBooks
  <2> HIDE DEF k
  <2> QED BY <2>1, <2>3, CLockBook DEF SameCandidate
<1>3. ASSUME execute_delegation_request(d, c)
      PROVE  CLockInv'
  <2> DEFINE k == CandidateInfo[c]
             s == DelegatorState[d].delegations[c]
             q == Requests[c][d]
  <2>1. /\ is_delegator(d) /\ is_candidate(c) /\ c \in DOMAIN DelegatorState[d].delegations
        /\ Own(d, q.stake) /\ Within(q.stake, s)
        /\ q.action = "Revoke" => q.stake = s
    BY <1>3, ExecuteRequest
  <2>2. /\ SameCandidate(k, rm_delegation_if_exists(k, d, s))
        /\ SameCandidate(k, decrease_delegation(k, d, s, q.stake))
    BY <2>1, PairBooks DEF Own
  <2>3. free' = free /\ collatorLock' = collatorLock
    BY <1>3 DEF execute_delegation_request
  <2>4. CASE q.action = "Revoke"
    <3>1. CandidateInfo' = [CandidateInfo EXCEPT ![c] = rm_delegation_if_exists(k, d, q.stake)]
      BY <1>3, <2>4 DEF execute_delegation_request, execute_revoke
    <3> QED BY <2>1, <2>2, <2>3, <2>4, <3>1, CLockBook DEF SameCandidate
  <2>5. CASE q.action # "Revoke"
    <3>1. CandidateInfo' = [CandidateInfo EXCEPT ![c] = decrease_delegation(k, d, s, q.stake)]
      BY <1>3, <2>5 DEF execute_delegation_request, execute_decrease
    <3> QED BY <2>1, <2>2, <2>3, <3>1, CLockBook DEF SameCandidate
  <2> QED BY <2>4, <2>5
<1> QED BY <1>1, <1>2, <1>3

\* execute_leave_delegators keeps the locks of the candidates.
LEMMA CLockLeaveDelegators ==
  ASSUME BookInv, CLockInv, NEW d, execute_leave_delegators(d)
  PROVE  CLockInv'
<1> DEFINE ds == DelegatorState[d].delegations
           k(c) == rm_delegation_if_exists(CandidateInfo[c], d, ds[c])
           CI == CandidateInfo
<1>1. /\ \A c \in DOMAIN ds : SameCandidate(CI[c], k(c))
      /\ CI' = [c \in DOMAIN CI |-> IF c \in DOMAIN ds THEN k(c) ELSE CI[c]]
  BY LeaveDelegatorIs
<1>2. free' = free /\ collatorLock' = collatorLock
  BY DEF execute_leave_delegators
<1> HIDE DEF k
<1>3. DOMAIN CI' = DOMAIN CI /\ \A c \in DOMAIN CI : CI'[c].stake = CI[c].stake
  BY <1>1 DEF SameCandidate
<1> QED BY <1>2, <1>3, CLockSame

\* Every step keeps the locks of the candidates.
LEMMA CLockNext ==
  ASSUME BookInv, CLockInv, [Next]_vars
  PROVE  CLockInv'
<1>1. ASSUME CandidateInfo' = CandidateInfo, free' = free, collatorLock' = collatorLock
      PROVE  CLockInv'
  BY <1>1 DEF CLockInv
<1>2. CASE \E c \in Collators : \E a \in Amounts : \/ join_candidates(c, a)
                                                   \/ candidate_bond_more(c, a)
  BY <1>2, CLockJoin, CLockMore
<1>3. CASE \E c \in Collators :
             \/ schedule_leave_candidates(c) \/ cancel_leave_candidates(c)
             \/ go_offline(c) \/ go_online(c)
             \/ \E a \in Amounts : schedule_candidate_bond_less(c, a)
             \/ cancel_candidate_bond_less(c)
  BY <1>3, CLockStatus
<1>4. CASE \E c \in Collators : execute_candidate_bond_less(c) \/ execute_leave_candidates(c)
  BY <1>4, CLockLess, CLockLeave
<1>5. CASE \E c \in Collators : hotfix_remove_delegation_requests_exited_candidates(c)
  BY <1>1, <1>5 DEF hotfix_remove_delegation_requests_exited_candidates
<1>6. CASE \E d \in Delegators, c \in Collators :
             \/ \E a \in Amounts, p \in Percents : delegate_with_auto_compound(d, c, a, p)
             \/ \E a \in Amounts : delegator_bond_more(d, c, a)
             \/ execute_delegation_request(d, c)
  BY <1>6, CLockPair
<1>7. CASE \E d \in Delegators, c \in Collators :
             \/ \E p \in Percents : set_auto_compound(d, c, p)
             \/ \E a \in Amounts : schedule_delegator_bond_less(d, c, a)
             \/ schedule_revoke_delegation(d, c) \/ cancel_delegation_request(d, c)
  BY <1>1, <1>7 DEF set_auto_compound, schedule_delegator_bond_less, schedule_revoke_delegation,
                    cancel_delegation_request, UnchangedBySchedule
<1>8. CASE \E d \in Delegators : schedule_leave_delegators(d) \/ cancel_leave_delegators(d)
  BY <1>1, <1>8 DEF schedule_leave_delegators, cancel_leave_delegators, UnchangedBySchedule
<1>9. CASE \E d \in Delegators : execute_leave_delegators(d)
  BY <1>9, CLockLeaveDelegators
<1>10. CASE StartRound \/ UNCHANGED vars
  BY <1>1, <1>10 DEF StartRound, vars, bonding
<1> QED BY <1>2, <1>3, <1>4, <1>5, <1>6, <1>7, <1>8, <1>9, <1>10 DEF Next, Bonding

-----------------------------------------------------------------------------
(***************************************************************************)
(* The locks of the delegators.                                            *)
(***************************************************************************)
\* The totals and the locks follow each other, and grow only within what is
\* free.
LEMMA DLockSet ==
  ASSUME DLockInv, BookInv, free' = free, DOMAIN delegatorLock' = Accounts,
         \A a \in Accounts : /\ delegatorLock'[a] = DLock(DelegatorState', a)
                             /\ \/ delegatorLock'[a] <= free[a]
                                \/ /\ delegatorLock'[a] \in Int
                                   /\ delegatorLock'[a] <= delegatorLock[a]
  PROVE  DLockInv'
<1>1. ASSUME NEW a \in Accounts
      PROVE  delegatorLock'[a] <= free[a]
  <2>1. /\ delegatorLock[a] \in Nat /\ free[a] \in Nat /\ delegatorLock[a] <= free[a]
    BY DLockNat DEF DLockInv
  <2> QED BY <2>1
<1> QED BY <1>1 DEF DLockInv

\* Only less_total changes.
LEMMA DLockCharged ==
  ASSUME BookInv, DLockInv, NEW d, is_delegator(d), NEW u,
         DelegatorState' = [DelegatorState EXCEPT ![d] = Charge(DelegatorState[d], u)],
         free' = free, delegatorLock' = delegatorLock
  PROVE  DLockInv'
<1>1. Charge(DelegatorState[d], u).total = DelegatorState[d].total
  BY AtDelegator DEF Charge, DelegatorT
<1>2. \A a : DLock(DelegatorState', a) = DLock(DelegatorState, a)
  BY <1>1 DEF DLock, is_delegator
<1> QED BY <1>2 DEF DLockInv

\* Scheduling and cancelling keep the locks of the delegators.
LEMMA DLockSchedule ==
  ASSUME BookInv, DLockInv, NEW d,
         \/ \E c \in Collators : \/ \E a \in Amounts : schedule_delegator_bond_less(d, c, a)
                                 \/ schedule_revoke_delegation(d, c)
                                 \/ cancel_delegation_request(d, c)
         \/ schedule_leave_delegators(d) \/ cancel_leave_delegators(d)
  PROVE  DLockInv'
<1> DEFINE DS == DelegatorState
<1>1. ASSUME NEW u, is_delegator(d), DS' = [DS EXCEPT ![d].less_total = u],
             UnchangedBySchedule
      PROVE  DLockInv'
  <2>1. DS' = [DS EXCEPT ![d] = Charge(DS[d], u)]
    BY <1>1 DEF Charge
  <2>2. free' = free /\ delegatorLock' = delegatorLock
    BY <1>1 DEF UnchangedBySchedule
  <2> QED BY <1>1, <2>1, <2>2, DLockCharged
<1>2. CASE \E c \in Collators : \E a \in Amounts : schedule_delegator_bond_less(d, c, a)
  <2>1. PICK c \in Collators, a \in Amounts : schedule_delegator_bond_less(d, c, a)
    BY <1>2
  <2>2. /\ is_delegator(d) /\ UnchangedBySchedule
        /\ DS' = [DS EXCEPT ![d].less_total = Plus(DS[d].less_total, power(d, a))]
    BY <2>1 DEF schedule_delegator_bond_less
  <2> QED BY <1>1, <2>2
<1>3. CASE \E c \in Collators : schedule_revoke_delegation(d, c)
  <2>1. PICK c \in Collators : schedule_revoke_delegation(d, c)
    BY <1>3
  <2>2. /\ is_delegator(d) /\ UnchangedBySchedule
        /\ DS' = [DS EXCEPT ![d].less_total = Plus(DS[d].less_total, DS[d].delegations[c])]
    BY <2>1 DEF schedule_revoke_delegation
  <2> QED BY <1>1, <2>2
<1>4. CASE \E c \in Collators : cancel_delegation_request(d, c)
  <2>1. PICK c \in Collators : cancel_delegation_request(d, c)
    BY <1>4
  <2>2. /\ is_delegator(d) /\ UnchangedBySchedule
        /\ DS' = [DS EXCEPT ![d].less_total = Minus(DS[d].less_total, Requests[c][d].stake)]
    BY <2>1 DEF cancel_delegation_request
  <2> QED BY <1>1, <2>2
<1>5. CASE schedule_leave_delegators(d)
  <2> DEFINE ds  == DS[d].delegations
             had == {c \in DOMAIN ds : d \in DOMAIN Requests[c]}
             old == SumOver([c \in had |-> Requests[c][d].stake], had)
  <2>1. /\ is_delegator(d) /\ UnchangedBySchedule
        /\ DS' = [DS EXCEPT ![d].less_total =
                    Plus(Minus(DS[d].less_total, old), SumOver(ds, DOMAIN ds))]
    BY <1>5 DEF schedule_leave_delegators
  <2> HIDE DEF old
  <2> QED BY <1>1, <2>1
<1>6. CASE cancel_leave_delegators(d)
  <2> DEFINE cs  == DOMAIN DS[d].delegations
             old == SumOver([c \in cs |-> Requests[c][d].stake], cs)
  <2>1. /\ is_delegator(d) /\ UnchangedBySchedule
        /\ DS' = [DS EXCEPT ![d].less_total = Minus(DS[d].less_total, old)]
    BY <1>6 DEF cancel_leave_delegators, AllRevoking
  <2> HIDE DEF old
  <2> QED BY <1>1, <2>1
<1> QED BY <1>2, <1>3, <1>4, <1>5, <1>6

\* The record of one delegator is replaced.
LEMMA DLockAt ==
  ASSUME BookInv, DLockInv, NEW d \in Accounts, NEW m, free' = free,
         delegatorLock' = [delegatorLock EXCEPT ![d] = m], DLock(DelegatorState', d) = m,
         \A a : a # d => DLock(DelegatorState', a) = DLock(DelegatorState, a),
         \/ m <= free[d]
         \/ m \in Int /\ m <= delegatorLock[d]
  PROVE  DLockInv'
<1>1. /\ DOMAIN delegatorLock' = Accounts /\ delegatorLock'[d] = m
      /\ \A a \in Accounts \ {d} : delegatorLock'[a] = delegatorLock[a]
  BY DEF DLockInv
<1>2. ASSUME NEW a \in Accounts
      PROVE  /\ delegatorLock'[a] = DLock(DelegatorState', a)
             /\ \/ delegatorLock'[a] <= free[a]
                \/ delegatorLock'[a] \in Int /\ delegatorLock'[a] <= delegatorLock[a]
  <2>1. CASE a = d
    BY <1>1, <2>1
  <2>2. CASE a # d
    <3>1. delegatorLock'[a] = delegatorLock[a] /\ delegatorLock[a] = DLock(DelegatorState, a)
          /\ delegatorLock[a] <= free[a]
      BY <1>1, <2>2 DEF DLockInv
    <3> QED BY <2>2, <3>1
  <2> QED BY <2>1, <2>2
<1> QED BY <1>1, <1>2, DLockSet

\* What can be staked of a free balance.
LEMMA Stakable ==
  ASSUME BookInv, NEW d \in Accounts, free[d] \in Nat, NEW s, Own(d, s), s.amount > 0,
         ~Below(get_delegator_stakable_free_balance(d), s)
  PROVE  DLock(DelegatorState, d) + s.amount <= free[d]
<1> DEFINE f == power(d, free[d])
<1>1. Own(d, f) /\ f.amount = free[d]
  BY OwnPower DEF power, Stake
<1>2. s.amount \in Nat
  BY StakeParts DEF Own
<1> HIDE DEF f
<1>3. CASE is_delegator(d)
  <2> DEFINE t == DelegatorState[d].total
  <2>1. Own(d, t) /\ DLock(DelegatorState, d) = t.amount
    BY <1>3, AtDelegator DEF Kept, DLock, is_delegator
  <2>2. t.amount \in Nat
    BY <2>1, StakeParts DEF Own
  <2> HIDE DEF t
  <2>3. ~Below(Minus(f, t), s)
    BY <1>3 DEF get_delegator_stakable_free_balance, f, t
  <2>4. Own(d, Minus(f, t)) /\ Minus(f, t).amount = SaturatingSub(free[d], t.amount)
    BY <1>1, <2>1, OwnMinus
  <2>5. s.amount <= SaturatingSub(free[d], t.amount)
    BY <2>3, <2>4, OwnOrder
  <2>6. t.amount + s.amount <= free[d]
    BY <1>2, <2>2, <2>5 DEF SaturatingSub
  <2> QED BY <2>1, <2>6
<1>4. CASE ~is_delegator(d)
  <2>1. DLock(DelegatorState, d) = 0
    BY <1>4 DEF DLock, is_delegator
  <2>2. ~Below(f, s)
    BY <1>4 DEF get_delegator_stakable_free_balance, f
  <2>3. s.amount <= free[d]
    BY <1>1, <2>2, OwnOrder
  <2> QED BY <1>2, <2>1, <2>3
<1> QED BY <1>3, <1>4

\* delegator_bond_more keeps the locks of the delegators.
LEMMA DLockMore ==
  ASSUME BookInv, DLockInv, NEW d, NEW c, NEW a \in Amounts, delegator_bond_more(d, c, a)
  PROVE  DLockInv'
<1> DEFINE DS == DelegatorState
           more == power(d, a)
           s == Raised(DS[d], c, more)
<1>1. /\ is_delegator(d) /\ c \in DOMAIN DS[d].delegations
      /\ ~Below(get_delegator_stakable_free_balance(d), more)
      /\ DS' = [DS EXCEPT ![d] = s] /\ free' = free
      /\ delegatorLock' = [delegatorLock EXCEPT ![d] = s.total.amount]
  BY DEF delegator_bond_more, CanBondMore, delegation_bond_more_without_event, Raised
<1>2. d \in Accounts /\ Kept(d, DS[d]) /\ d \in DOMAIN DS
  BY <1>1, AtDelegator
<1>3. Own(d, more) /\ more.amount = a /\ more.amount > 0
  BY <1>2, AmountsAre, OwnPower DEF power, Stake
<1> HIDE DEF more
<1>4. s.total.amount = DS[d].total.amount + more.amount
  BY <1>1, <1>2, <1>3, KeptMore
<1> HIDE DEF s
<1>5. DLock(DS, d) = DS[d].total.amount /\ free[d] \in Nat
  BY <1>2 DEF DLock, DLockInv
<1>6. s.total.amount <= free[d]
  BY <1>1, <1>2, <1>3, <1>4, <1>5, Stakable
<1>7. DLock(DS', d) = s.total.amount /\ \A e : e # d => DLock(DS', e) = DLock(DS, e)
  BY <1>1, <1>2 DEF DLock
<1> QED BY <1>1, <1>2, <1>6, <1>7, DLockAt

\* A record without a delegation has nothing locked.
LEMMA KeptNothing ==
  ASSUME NEW d, NEW s, Kept(d, s), DOMAIN s.delegations = {}
  PROVE  s.total.amount = 0
<1>1. s.total = ZeroStake
  BY KeptZero
<1> QED BY <1>1 DEF ZeroStake, Stake

\* execute_delegation_request keeps the locks of the delegators.
LEMMA DLockExecute ==
  ASSUME BookInv, DLockInv, NEW d, NEW c \in Collators, execute_delegation_request(d, c)
  PROVE  DLockInv'
<1> DEFINE DS == DelegatorState
           q == Requests[c][d]
           b == DS[d].delegations[c]
<1>1. /\ is_delegator(d) /\ c \in DOMAIN DS[d].delegations /\ Own(d, q.stake)
      /\ q.action # "Revoke" => q.stake.amount < b.amount
      /\ Own(d, b)
  BY ExecuteRequest
<1>2. /\ d \in Accounts /\ Kept(d, DS[d]) /\ d \in DOMAIN DS
  BY <1>1, AtDelegator
<1>3. free' = free
  BY DEF execute_delegation_request
<1>4. delegatorLock[d] = DS[d].total.amount /\ DS[d].total.amount \in Nat
      /\ b.amount \in Nat /\ q.stake.amount \in Nat /\ q.stake \in StakeT
  <2>1. DS[d].total \in StakeT /\ b \in StakeT /\ q.stake \in StakeT
    BY <1>1, <1>2, DelegatorParts DEF Kept, Own
  <2> QED BY <1>2, <2>1, StakeParts DEF DLockInv, DLock
<1>5. CASE q.action = "Revoke"
  <2> DEFINE s == Revoked(DS[d], c, q.stake)
  <2>1. /\ DS' = IF DOMAIN s.delegations = {} THEN Drop(DS, d) ELSE [DS EXCEPT ![d] = s]
        /\ delegatorLock' = [delegatorLock EXCEPT ![d] = s.total.amount]
    BY <1>5 DEF execute_delegation_request, execute_revoke
  <2>2. Kept(d, s) /\ s.total.amount = DS[d].total.amount - b.amount
    <3> HIDE DEF q
    <3> QED BY <1>1, <1>2, <1>4, RevokedIs
  <2> HIDE DEF s
  <2>3. s.total.amount \in Int /\ s.total.amount <= delegatorLock[d]
    BY <1>4, <2>2
  <2>4. \A e : e # d => DLock(DS', e) = DLock(DS, e)
    <3>1. CASE DOMAIN s.delegations = {}
      BY <2>1, <3>1 DEF DLock, Drop, Restrict
    <3>2. CASE DOMAIN s.delegations # {}
      BY <2>1, <3>2 DEF DLock
    <3> QED BY <3>1, <3>2
  <2>5. DLock(DS', d) = s.total.amount
    <3>1. CASE DOMAIN s.delegations = {}
      <4>1. s.total.amount = 0
        BY <2>2, <3>1, KeptNothing
      <4> QED BY <2>1, <3>1, <4>1 DEF DLock, Drop, Restrict
    <3>2. CASE DOMAIN s.delegations # {}
      BY <1>2, <2>1, <3>2 DEF DLock
    <3> QED BY <3>1, <3>2
  <2> QED BY <1>2, <1>3, <2>1, <2>3, <2>4, <2>5, DLockAt
<1>6. CASE q.action # "Revoke"
  <2> DEFINE s == Decreased(DS[d], c, q.stake)
  <2>1. /\ DS' = [DS EXCEPT ![d] = s]
        /\ delegatorLock' = [delegatorLock EXCEPT ![d] = s.total.amount]
    BY <1>6 DEF execute_delegation_request, execute_decrease
  <2>2. s.total.amount = DS[d].total.amount - q.stake.amount
    <3> HIDE DEF q
    <3>1. q.stake.amount < DS[d].delegations[c].amount
      BY <1>1, <1>6
    <3> DEFINE x == q.stake
    <3> HIDE DEF x
    <3>2. Decreased(DS[d], c, x).total.amount = DS[d].total.amount - x.amount
      BY <1>1, <1>2, <3>1, DecreasedIs DEF x
    <3> QED BY <3>2 DEF x
  <2> HIDE DEF s
  <2>3. s.total.amount \in Int /\ s.total.amount <= delegatorLock[d]
    BY <1>4, <2>2
  <2>4. DLock(DS', d) = s.total.amount /\ \A e : e # d => DLock(DS', e) = DLock(DS, e)
    BY <1>2, <2>1 DEF DLock
  <2> QED BY <1>2, <1>3, <2>1, <2>3, <2>4, DLockAt
<1> QED BY <1>5, <1>6

\* execute_leave_delegators keeps the locks of the delegators.
LEMMA DLockLeaveDelegators ==
  ASSUME BookInv, DLockInv, NEW d, execute_leave_delegators(d)
  PROVE  DLockInv'
<1>1. /\ is_delegator(d) /\ DelegatorState' = Drop(DelegatorState, d) /\ free' = free
      /\ delegatorLock' = [delegatorLock EXCEPT ![d] = 0]
  BY DEF execute_leave_delegators, AllRevoking
<1>2. d \in Accounts
  BY <1>1, AtDelegator
<1>3. 0 <= free[d]
  BY <1>2 DEF DLockInv
<1>4. /\ DLock(DelegatorState', d) = 0
      /\ \A e : e # d => DLock(DelegatorState', e) = DLock(DelegatorState, e)
  BY <1>1 DEF DLock, Drop, Restrict
<1> QED BY <1>1, <1>2, <1>3, <1>4, DLockAt

\* A delegator that c lets go of.
LEMMA LetGoLock ==
  ASSUME BookInv, DLockInv, NEW d, NEW c, Has(DelegatorState, d, c)
  PROVE  /\ LetGo(c, d).total.amount \in Int
         /\ LetGo(c, d).total.amount <= delegatorLock[d]
         /\ DOMAIN LetGo(c, d).delegations = {} => LetGo(c, d).total.amount = 0
<1> DEFINE s == DelegatorState[d]
<1>1. is_delegator(d) /\ c \in DOMAIN s.delegations /\ d \in DOMAIN DelegatorState
  BY DEF Has, is_delegator
<1>2. /\ Kept(d, LetGo(c, d)) /\ LetGo(c, d).total.amount = s.total.amount - s.delegations[c].amount
  BY <1>1, LetGoIs
<1>3. d \in Accounts /\ s.total.amount \in Nat /\ s.delegations[c].amount \in Nat
  <2>1. d \in Accounts /\ s.total \in StakeT /\ s.delegations[c] \in StakeT
    BY <1>1, AtDelegator, DelegatorParts
  <2> QED BY <2>1, StakeParts
<1>4. delegatorLock[d] = s.total.amount
  BY <1>1, <1>3 DEF DLockInv, DLock
<1>5. DOMAIN LetGo(c, d).delegations = {} => LetGo(c, d).total.amount = 0
  BY <1>2, KeptNothing
<1> HIDE DEF s
<1> QED BY <1>2, <1>3, <1>4, <1>5

\* execute_leave_candidates keeps the locks of the delegators.
LEMMA DLockLeaveCandidates ==
  ASSUME BookInv, DLockInv, NEW c, execute_leave_candidates(c)
  PROVE  DLockInv'
<1> DEFINE DS == DelegatorState
<1>1. /\ is_candidate(c)
      /\ DOMAIN DS' = {d \in DOMAIN DS : Has(DS, d, c) => DOMAIN LetGo(c, d).delegations # {}}
      /\ \A d \in DOMAIN DS' : DS'[d] = IF Has(DS, d, c) THEN LetGo(c, d) ELSE DS[d]
  BY LeaveCandidateIs
<1>2. /\ delegatorLock' = [d \in Accounts |-> IF d \in owners(c) THEN LetGo(c, d).total.amount
                                                                ELSE delegatorLock[d]]
      /\ free' = free
  BY DEF execute_leave_candidates, ReleaseAll
<1>3. \A d : d \in owners(c) <=> Has(DS, d, c)
  BY <1>1, OwnersAre
<1>4. ASSUME NEW a \in Accounts
      PROVE  /\ delegatorLock'[a] = DLock(DS', a)
             /\ \/ delegatorLock'[a] <= free[a]
                \/ delegatorLock'[a] \in Int /\ delegatorLock'[a] <= delegatorLock[a]
  <2>1. CASE Has(DS, a, c)
    <3>1. /\ delegatorLock'[a] = LetGo(c, a).total.amount
          /\ LetGo(c, a).total.amount \in Int /\ LetGo(c, a).total.amount <= delegatorLock[a]
          /\ DOMAIN LetGo(c, a).delegations = {} => LetGo(c, a).total.amount = 0
      BY <1>2, <1>3, <2>1, LetGoLock
    <3>2. a \in DOMAIN DS
      BY <2>1 DEF Has
    <3>3. DLock(DS', a) = LetGo(c, a).total.amount
      BY <1>1, <2>1, <3>1, <3>2 DEF DLock
    <3> QED BY <3>1, <3>3
  <2>2. CASE ~Has(DS, a, c)
    <3>1. delegatorLock'[a] = delegatorLock[a]
      BY <1>2, <1>3, <2>2
    <3>2. DLock(DS', a) = DLock(DS, a)
      BY <1>1, <2>2 DEF DLock
    <3> QED BY <3>1, <3>2 DEF DLockInv
  <2> QED BY <2>1, <2>2
<1>5. DOMAIN delegatorLock' = Accounts
  BY <1>2
<1> QED BY <1>2, <1>4, <1>5, DLockSet

\* delegate_with_auto_compound keeps the locks of the delegators.
LEMMA DLockDelegate ==
  ASSUME BookInv, DLockInv, NEW d \in Delegators, NEW c \in Collators, NEW a \in Amounts, NEW p,
         delegate_with_auto_compound(d, c, a, p)
  PROVE  DLockInv'
<1> DEFINE DS == DelegatorState
           s  == power(d, a)
           x  == KickedBy(CandidateInfo[c], Bond(d, s))
           r  == Enters(d, c, s)
           DS1 == Leaves(c, x)
           rest == IF x = None THEN Empty ELSE LetGo(c, x)
<1>1. /\ Own(d, s) /\ s.amount = a /\ ~Has(DS, d, c)
      /\ x # None => Has(DS, x, c)
      /\ x # d /\ Written(DS1, DS', d, r)
  BY DelegateIs
<1>2. /\ ~Below(get_delegator_stakable_free_balance(d), s) /\ free' = free
      /\ delegatorLock' = [e \in Accounts |-> CASE e = d -> r.total.amount
                                                [] e = x -> rest.total.amount
                                                [] OTHER -> delegatorLock[e]]
  BY DEF delegate_with_auto_compound, Enters, Joined
<1> HIDE DEF s, x
<1>3. d \in Accounts /\ None \notin Accounts /\ a > 0 /\ a \in Nat
  BY AccountsAre, AmountsAre
<1>4. /\ Delegating(DS1, DOMAIN CandidateInfo)
      /\ \A e : e # x /\ e \in DOMAIN DS => e \in DOMAIN DS1 /\ DS1[e] = DS[e]
      /\ DOMAIN DS1 \subseteq DOMAIN DS
  BY <1>1, LeavesIs
<1>5. r.total.amount = s.amount + DLock(DS, d)
  BY <1>1, <1>3, EntersIs DEF DLock, is_delegator
<1>6. r.total.amount <= free[d]
  <2>1. free[d] \in Nat /\ DLock(DS, d) \in Nat
    BY <1>3, DLockNat DEF DLockInv
  <2>2. DLock(DS, d) + s.amount <= free[d]
    BY <1>1, <1>2, <1>3, <2>1, Stakable
  <2> QED BY <1>1, <1>3, <1>5, <2>1, <2>2
<1> HIDE DEF r
<1>9. delegatorLock'[d] = r.total.amount
  <2> DEFINE L(e) == CASE e = d -> r.total.amount [] e = x -> rest.total.amount
                       [] OTHER -> delegatorLock[e]
  <2>1. delegatorLock' = [e \in Accounts |-> L(e)]
    BY <1>2
  <2>2. L(d) = r.total.amount
    BY <1>1
  <2> HIDE DEF L
  <2> QED BY <1>3, <2>1, <2>2
<1>7. ASSUME NEW e \in Accounts
      PROVE  /\ delegatorLock'[e] = DLock(DS', e)
             /\ \/ delegatorLock'[e] <= free[e]
                \/ delegatorLock'[e] \in Int /\ delegatorLock'[e] <= delegatorLock[e]
  <2>1. CASE e = d
    <3>1. delegatorLock'[e] = r.total.amount
      BY <1>9, <2>1
    <3>2. DLock(DS', e) = r.total.amount
      BY <1>1, <2>1 DEF DLock, Written
    <3> QED BY <1>6, <2>1, <3>1, <3>2
  <2>2. CASE e = x
    <3>1. x # None /\ e # d /\ Has(DS, x, c)
      BY <1>1, <1>3, <2>2
    <3>2. delegatorLock'[e] = LetGo(c, x).total.amount
      BY <1>2, <2>2, <3>1
    <3>3. /\ LetGo(c, x).total.amount \in Int /\ LetGo(c, x).total.amount <= delegatorLock[x]
          /\ DOMAIN LetGo(c, x).delegations = {} => LetGo(c, x).total.amount = 0
      BY <3>1, LetGoLock
    <3>4. DLock(DS', e) = DLock(DS1, e)
      BY <1>1, <3>1 DEF DLock, Written
    <3>5. DLock(DS1, x) = LetGo(c, x).total.amount
      <4> DEFINE D == DOMAIN DS[x].delegations
      <4>1. x \in DOMAIN DS /\ c \in D /\ is_delegator(x)
        BY <3>1 DEF Has, is_delegator
      <4>2. DOMAIN LetGo(c, x).delegations = D \ {c}
        BY <4>1, LetGoIs
      <4>3. IsFiniteSet(D)
        BY <4>1, AtDelegator, DelegatorParts
      <4>4. Cardinality(D) = 1 <=> DOMAIN LetGo(c, x).delegations = {}
        <5> HIDE DEF D
        <5> QED BY <4>1, <4>2, <4>3, OneLeft
      <4>5. CASE Cardinality(D) = 1
        <5>1. DS1 = Drop(DS, x)
          BY <3>1, <4>5 DEF Leaves
        <5>2. x \notin DOMAIN DS1
          BY <5>1 DEF Drop, Restrict
        <5> QED BY <3>3, <4>4, <4>5, <5>2 DEF DLock
      <4>6. CASE Cardinality(D) # 1
        <5>1. DS1 = [DS EXCEPT ![x] = LetGo(c, x)]
          BY <3>1, <4>6 DEF Leaves
        <5>2. x \in DOMAIN DS1 /\ DS1[x] = LetGo(c, x)
          BY <4>1, <5>1
        <5> QED BY <5>2 DEF DLock
      <4> QED BY <4>5, <4>6
    <3> QED BY <2>2, <3>2, <3>3, <3>4, <3>5
  <2>3. CASE e # d /\ e # x
    <3>1. delegatorLock'[e] = delegatorLock[e]
      BY <1>2, <2>3
    <3>2. DLock(DS', e) = DLock(DS, e)
      BY <1>1, <1>4, <2>3 DEF DLock, Written
    <3> QED BY <3>1, <3>2 DEF DLockInv
  <2> QED BY <2>1, <2>2, <2>3
<1>8. DOMAIN delegatorLock' = Accounts
  BY <1>2
<1> QED BY <1>2, <1>7, <1>8, DLockSet

\* Every step keeps the locks of the delegators.
LEMMA DLockNext ==
  ASSUME BookInv, DLockInv, [Next]_vars
  PROVE  DLockInv'
<1>1. ASSUME DelegatorState' = DelegatorState, free' = free, delegatorLock' = delegatorLock
      PROVE  DLockInv'
  BY <1>1 DEF DLockInv
<1>2. CASE \E c \in Collators : \E a \in Amounts : \/ join_candidates(c, a)
                                                   \/ candidate_bond_more(c, a)
                                                   \/ schedule_candidate_bond_less(c, a)
  BY <1>1, <1>2 DEF join_candidates, candidate_bond_more, schedule_candidate_bond_less
<1>3. CASE \E c \in Collators : \/ schedule_leave_candidates(c) \/ cancel_leave_candidates(c)
                                \/ go_offline(c) \/ go_online(c)
  BY <1>1, <1>3 DEF schedule_leave_candidates, cancel_leave_candidates, go_offline, go_online,
                    ChangeStatus
<1>4. CASE \E c \in Collators : \/ execute_candidate_bond_less(c) \/ cancel_candidate_bond_less(c)
                                \/ hotfix_remove_delegation_requests_exited_candidates(c)
  BY <1>1, <1>4 DEF execute_candidate_bond_less, cancel_candidate_bond_less,
                    hotfix_remove_delegation_requests_exited_candidates
<1>5. CASE \E c \in Collators : execute_leave_candidates(c)
  BY <1>5, DLockLeaveCandidates
<1>6. CASE \E d \in Delegators, c \in Collators :
             \/ \E a \in Amounts, p \in Percents : delegate_with_auto_compound(d, c, a, p)
             \/ \E a \in Amounts : delegator_bond_more(d, c, a)
             \/ execute_delegation_request(d, c)
  BY <1>6, DLockDelegate, DLockMore, DLockExecute
<1>7. CASE \E d \in Delegators, c \in Collators : \E p \in Percents : set_auto_compound(d, c, p)
  BY <1>1, <1>7 DEF set_auto_compound
<1>8. CASE \E d \in Delegators, c \in Collators :
             \/ \E a \in Amounts : schedule_delegator_bond_less(d, c, a)
             \/ schedule_revoke_delegation(d, c) \/ cancel_delegation_request(d, c)
  BY <1>8, DLockSchedule
<1>9. CASE \E d \in Delegators : schedule_leave_delegators(d) \/ cancel_leave_delegators(d)
  BY <1>9, DLockSchedule
<1>10. CASE \E d \in Delegators : execute_leave_delegators(d)
  BY <1>10, DLockLeaveDelegators
<1>11. CASE StartRound \/ UNCHANGED vars
  BY <1>1, <1>11 DEF StartRound, vars, bonding
<1> QED BY <1>2, <1>3, <1>4, <1>5, <1>6, <1>7, <1>8, <1>9, <1>10, <1>11 DEF Next, Bonding

\* LocksMatch follows.
LEMMA LocksAre ==
  ASSUME CLockInv, DLockInv
  PROVE  LocksMatch
BY DEF CLockInv, DLockInv, CLock, DLock, LocksMatch, is_candidate, is_delegator

\* The locks match to begin with.
LEMMA LocksInit ==
  ASSUME Init
  PROVE  CLockInv /\ DLockInv
<1>1. free \in [Accounts -> Nat]
  BY StakingAssumption DEF Init
<1>2. /\ DOMAIN CandidateInfo = {} /\ DOMAIN DelegatorState = {}
      /\ collatorLock = [a \in Accounts |-> 0] /\ delegatorLock = [a \in Accounts |-> 0]
  BY DEF Init, Empty
<1>3. \A a \in Accounts : 0 <= free[a]
  BY <1>1
<1> QED BY <1>1, <1>2, <1>3 DEF CLockInv, DLockInv, CLock, DLock

\* What is locked of an account is what it has bonded, also after it has been kicked or
\* its candidate has left, and no more than its free balance (set_lock and remove_lock in
\* lib.rs and types.rs).
THEOREM LocksAlwaysMatch == Spec => []LocksMatch
<1>1. Init => CLockInv /\ DLockInv
  BY LocksInit
<1>2. BookInv /\ CLockInv /\ [Next]_vars => CLockInv'
  BY CLockNext
<1>3. BookInv /\ DLockInv /\ [Next]_vars => DLockInv'
  BY DLockNext
<1>4. CLockInv /\ DLockInv => LocksMatch
  BY LocksAre
<1> QED BY <1>1, <1>2, <1>3, <1>4, BooksHold, PTL DEF Spec

-----------------------------------------------------------------------------
(***************************************************************************)
(* What the requests of a delegator take away.                             *)
(***************************************************************************)
Pending(RQ, d) == {c \in Collators : d \in DOMAIN RQ[c]}

Charges(RQ, d) == SumOver([c \in Pending(RQ, d) |-> RQ[c][d].stake], Pending(RQ, d))

LessInv == \A d \in DOMAIN DelegatorState : DelegatorState[d].less_total = Charges(Requests, d)

\* The requests of d are the same, but perhaps the one for c.
SameFor(RQ, RQ2, d) ==
  \A c \in Collators : /\ d \in DOMAIN RQ2[c] <=> d \in DOMAIN RQ[c]
                       /\ d \in DOMAIN RQ[c] => RQ2[c][d] = RQ[c][d]

SameForBut(RQ, RQ2, d, e) ==
  \A c \in Collators \ {e} : /\ d \in DOMAIN RQ2[c] <=> d \in DOMAIN RQ[c]
                             /\ d \in DOMAIN RQ[c] => RQ2[c][d] = RQ[c][d]

\* The candidates at which d has a request.
LEMMA PendingIs ==
  ASSUME NEW RQ, NEW d
  PROVE  Pending(RQ, d) \subseteq Collators /\ IsFiniteSet(Pending(RQ, d))
BY AccountsAre, FS_Subset DEF Pending

\* The same requests charge the same.
LEMMA ChargesSame ==
  ASSUME NEW RQ, NEW RQ2, NEW d, SameFor(RQ, RQ2, d)
  PROVE  Charges(RQ2, d) = Charges(RQ, d)
<1>1. Pending(RQ2, d) = Pending(RQ, d)
  BY DEF SameFor, Pending
<1>2. \A c \in Pending(RQ, d) : RQ2[c][d] = RQ[c][d]
  BY DEF SameFor, Pending
<1>3. [c \in Pending(RQ, d) |-> RQ2[c][d].stake] = [c \in Pending(RQ, d) |-> RQ[c][d].stake]
  BY <1>2
<1> QED BY <1>1, <1>3 DEF Charges

\* No requests charge nothing.
LEMMA ChargesNone ==
  ASSUME NEW RQ, NEW d, \A c \in Collators : d \notin DOMAIN RQ[c]
  PROVE  Charges(RQ, d) = ZeroStake
<1>1. Pending(RQ, d) = {}
  BY DEF Pending
<1>2. SumOver([c \in Pending(RQ, d) |-> RQ[c][d].stake], {}) = ZeroStake
  BY SumOverEmpty
<1> QED BY <1>1, <1>2 DEF Charges

\* The stakes of the requests of d.
Typed(RQ, d) == \A c \in Collators : d \in DOMAIN RQ[c] => RQ[c][d].stake \in StakeT

\* A request more.
LEMMA ChargesMore ==
  ASSUME NEW RQ, NEW RQ2, NEW d, NEW c \in Collators, SameForBut(RQ, RQ2, d, c), Typed(RQ, d),
         d \notin DOMAIN RQ[c], d \in DOMAIN RQ2[c], RQ2[c][d].stake \in StakeT
  PROVE  Charges(RQ2, d) = Plus(Charges(RQ, d), RQ2[c][d].stake)
<1> DEFINE P == Pending(RQ, d)
           f == [e \in P |-> RQ[e][d].stake]
           P2 == Pending(RQ2, d)
           g == [e \in P2 |-> RQ2[e][d].stake]
<1>1. P2 = P \cup {c} /\ c \notin P
  BY DEF Pending, SameForBut
<1>2. IsFiniteSet(P) /\ \A e \in P : f[e] \in StakeT
  BY PendingIs DEF Pending, Typed
<1>3. g[c] = RQ2[c][d].stake
  BY <1>1
<1>4. \A e \in P : g[e] = f[e]
  BY <1>1 DEF Pending, SameForBut
<1> HIDE DEF P, P2, f, g
<1>5. SumOver(g, P \cup {c}) = Plus(SumOver(f, P), g[c])
  BY <1>1, <1>2, <1>3, <1>4, SumOverAdd
<1> QED BY <1>1, <1>3, <1>5 DEF Charges, P, P2, f, g

\* A request less.
LEMMA ChargesLess ==
  ASSUME NEW RQ, NEW RQ2, NEW d, NEW c \in Collators, SameForBut(RQ, RQ2, d, c), Typed(RQ, d),
         d \in DOMAIN RQ[c], d \notin DOMAIN RQ2[c]
  PROVE  Charges(RQ2, d) = Minus(Charges(RQ, d), RQ[c][d].stake)
<1> DEFINE P == Pending(RQ, d)
           f == [e \in P |-> RQ[e][d].stake]
           P2 == Pending(RQ2, d)
           g == [e \in P2 |-> RQ2[e][d].stake]
<1>1. P2 = P \ {c} /\ c \in P
  BY DEF Pending, SameForBut
<1>2. IsFiniteSet(P) /\ \A e \in P : f[e] \in StakeT
  BY PendingIs DEF Pending, Typed
<1>3. f[c] = RQ[c][d].stake
  BY <1>1
<1>4. \A e \in P \ {c} : g[e] = f[e]
  BY <1>1 DEF Pending, SameForBut
<1> HIDE DEF P, P2, f, g
<1>5. SumOver(g, P \ {c}) = Minus(SumOver(f, P), f[c])
  BY <1>1, <1>2, <1>4, SumOverRemove
<1> QED BY <1>1, <1>3, <1>5 DEF Charges, P, P2, f, g

\* Requests carry stakes.
LEMMA RequestsTyped ==
  ASSUME BookInv, NEW d
  PROVE  Typed(Requests, d)
BY AtRequest DEF Typed

\* A request that is dropped.
LEMMA DroppedRequests ==
  ASSUME BookInv, NEW c \in Collators, NEW x, NEW RQ2, RQ2 = [Requests EXCEPT ![c] = Drop(@, x)]
  PROVE  /\ \A e : e # x => SameFor(Requests, RQ2, e)
         /\ Charges(RQ2, x) = IF x \in DOMAIN Requests[c]
                              THEN Minus(Charges(Requests, x), Requests[c][x].stake)
                              ELSE Charges(Requests, x)
<1>1. DOMAIN Requests = Collators
  BY DEF BookInv, Requesting
<1>2. /\ DOMAIN RQ2[c] = DOMAIN Requests[c] \ {x}
      /\ \A e \in DOMAIN Requests[c] \ {x} : RQ2[c][e] = Requests[c][e]
      /\ \A e \in Collators \ {c} : RQ2[e] = Requests[e]
  BY <1>1 DEF Drop, Restrict
<1>3. \A e : e # x => SameFor(Requests, RQ2, e)
  BY <1>2 DEF SameFor
<1>4. CASE x \in DOMAIN Requests[c]
  <2>1. SameForBut(Requests, RQ2, x, c) /\ x \notin DOMAIN RQ2[c]
    BY <1>2 DEF SameForBut
  <2> QED BY <1>3, <1>4, <2>1, RequestsTyped, ChargesLess
<1>5. CASE x \notin DOMAIN Requests[c]
  <2>1. SameFor(Requests, RQ2, x)
    BY <1>2, <1>5 DEF SameFor
  <2> QED BY <1>3, <1>5, <2>1, ChargesSame
<1> QED BY <1>4, <1>5

\* Only the record of d and its requests change.
LEMMA LessSet ==
  ASSUME LessInv, NEW d,
         \A e \in DOMAIN DelegatorState' \ {d} : /\ e \in DOMAIN DelegatorState
                                                 /\ DelegatorState'[e].less_total = DelegatorState[e].less_total
                                                 /\ SameFor(Requests, Requests', e),
         d \in DOMAIN DelegatorState' => DelegatorState'[d].less_total = Charges(Requests', d)
  PROVE  LessInv'
<1>1. ASSUME NEW e \in DOMAIN DelegatorState'
      PROVE  DelegatorState'[e].less_total = Charges(Requests', e)
  <2>1. CASE e = d
    BY <2>1
  <2>2. CASE e # d
    <3>1. Charges(Requests', e) = Charges(Requests, e)
      BY <1>1, <2>2, ChargesSame
    <3> QED BY <1>1, <2>2, <3>1 DEF LessInv
  <2> QED BY <2>1, <2>2
<1> QED BY <1>1 DEF LessInv

\* A step that sets less_total to what is charged.
LEMMA LessCharged ==
  ASSUME BookInv, LessInv, NEW d, is_delegator(d), NEW u,
         DelegatorState' = [DelegatorState EXCEPT ![d] = Charge(DelegatorState[d], u)],
         u = Charges(Requests', d), \A e : e # d => SameFor(Requests, Requests', e)
  PROVE  LessInv'
<1>1. Charge(DelegatorState[d], u).less_total = u
  BY AtDelegator DEF Charge, DelegatorT
<1>2. /\ \A e \in DOMAIN DelegatorState' \ {d} : /\ e \in DOMAIN DelegatorState
                                                 /\ DelegatorState'[e] = DelegatorState[e]
      /\ d \in DOMAIN DelegatorState => DelegatorState'[d] = Charge(DelegatorState[d], u)
      /\ d \in DOMAIN DelegatorState
  BY DEF is_delegator
<1> QED BY <1>1, <1>2, LessSet

\* A request more, charged to its delegator.
LEMMA LessSchedule ==
  ASSUME BookInv, LessInv, NEW d, is_delegator(d), NEW c \in Collators, d \notin DOMAIN Requests[c],
         NEW q, q.stake \in StakeT, Requests' = [Requests EXCEPT ![c] = Put(@, d, q)],
         DelegatorState' = [DelegatorState EXCEPT ![d].less_total = Plus(@, q.stake)]
  PROVE  LessInv'
<1> DEFINE u == Plus(DelegatorState[d].less_total, q.stake)
<1>1. DOMAIN Requests = Collators
  BY DEF BookInv, Requesting
<1>2. /\ DOMAIN Requests'[c] = DOMAIN Requests[c] \cup {d} /\ Requests'[c][d] = q
      /\ \A e \in DOMAIN Requests[c] \ {d} : Requests'[c][e] = Requests[c][e]
      /\ \A e \in Collators \ {c} : Requests'[e] = Requests[e]
  BY <1>1 DEF Put
<1>3. \A e : e # d => SameFor(Requests, Requests', e)
  BY <1>2 DEF SameFor
<1>4. SameForBut(Requests, Requests', d, c) /\ d \in DOMAIN Requests'[c]
  BY <1>2 DEF SameForBut
<1>5. Charges(Requests', d) = Plus(Charges(Requests, d), q.stake)
  <2>1. Requests'[c][d].stake \in StakeT
    BY <1>2
  <2>2. Charges(Requests', d) = Plus(Charges(Requests, d), Requests'[c][d].stake)
    <3> DEFINE R2 == Requests'
    <3> HIDE DEF R2
    <3>1. /\ SameForBut(Requests, R2, d, c) /\ d \in DOMAIN R2[c] /\ R2[c][d].stake \in StakeT
      BY <1>4, <2>1 DEF R2
    <3>2. Charges(R2, d) = Plus(Charges(Requests, d), R2[c][d].stake)
      BY <3>1, RequestsTyped, ChargesMore
    <3> QED BY <3>2 DEF R2
  <2> QED BY <1>2, <2>2
<1>6. u = Charges(Requests', d)
  BY <1>5 DEF LessInv, is_delegator
<1>7. DelegatorState' = [DelegatorState EXCEPT ![d] = Charge(DelegatorState[d], u)]
  BY DEF Charge
<1> HIDE DEF u
<1> QED BY <1>3, <1>6, <1>7, LessCharged

\* schedule_delegator_bond_less and schedule_revoke_delegation keep LessInv.
LEMMA LessSchedules ==
  ASSUME BookInv, LessInv, NEW d, NEW c \in Collators,
         \/ \E a \in Amounts : schedule_delegator_bond_less(d, c, a)
         \/ schedule_revoke_delegation(d, c)
  PROVE  LessInv'
<1>1. ASSUME NEW a \in Amounts, schedule_delegator_bond_less(d, c, a)
      PROVE  LessInv'
  <2> DEFINE s == power(d, a)
             q == Request("Decrease", s, RevokeDelegationDelay)
  <2>1. /\ is_delegator(d) /\ d \notin DOMAIN Requests[c]
        /\ Requests' = [Requests EXCEPT ![c] = Put(@, d, q)]
        /\ DelegatorState' = [DelegatorState EXCEPT ![d].less_total = Plus(@, s)]
    BY <1>1 DEF schedule_delegator_bond_less
  <2>2. s \in StakeT /\ q.stake = s
    BY <2>1, AtDelegator, AmountsAre, OwnPower DEF Own, Request
  <2> HIDE DEF q, s
  <2> QED BY <2>1, <2>2, LessSchedule
<1>2. ASSUME schedule_revoke_delegation(d, c)
      PROVE  LessInv'
  <2> DEFINE s == DelegatorState[d].delegations[c]
             q == Request("Revoke", s, RevokeDelegationDelay)
  <2>1. /\ is_delegator(d) /\ d \notin DOMAIN Requests[c]
        /\ c \in DOMAIN DelegatorState[d].delegations
        /\ Requests' = [Requests EXCEPT ![c] = Put(@, d, q)]
        /\ DelegatorState' = [DelegatorState EXCEPT ![d].less_total = Plus(@, s)]
    BY <1>2 DEF schedule_revoke_delegation
  <2>2. s \in StakeT /\ q.stake = s
    BY <2>1, AtDelegator, DelegatorParts DEF Request
  <2> HIDE DEF q, s
  <2> QED BY <2>1, <2>2, LessSchedule
<1> QED BY <1>1, <1>2

\* cancel_delegation_request keeps LessInv.
LEMMA LessCancel ==
  ASSUME BookInv, LessInv, NEW d, NEW c \in Collators, cancel_delegation_request(d, c)
  PROVE  LessInv'
<1> DEFINE u == Minus(DelegatorState[d].less_total, Requests[c][d].stake)
<1>1. /\ is_delegator(d) /\ d \in DOMAIN Requests[c]
      /\ Requests' = [Requests EXCEPT ![c] = Drop(@, d)]
      /\ DelegatorState' = [DelegatorState EXCEPT ![d].less_total = u]
  BY DEF cancel_delegation_request
<1>2. /\ \A e : e # d => SameFor(Requests, Requests', e)
      /\ Charges(Requests', d) = Minus(Charges(Requests, d), Requests[c][d].stake)
  BY <1>1, DroppedRequests
<1>3. u = Charges(Requests', d)
  BY <1>1, <1>2 DEF LessInv, is_delegator
<1>4. DelegatorState' = [DelegatorState EXCEPT ![d] = Charge(DelegatorState[d], u)]
  BY <1>1 DEF Charge
<1> HIDE DEF u
<1> QED BY <1>1, <1>2, <1>3, <1>4, LessCharged

\* execute_delegation_request keeps LessInv.
LEMMA LessExecute ==
  ASSUME BookInv, LessInv, NEW d, NEW c \in Collators, execute_delegation_request(d, c)
  PROVE  LessInv'
<1> DEFINE DS == DelegatorState
           x == Requests[c][d].stake
<1>1. /\ is_delegator(d) /\ c \in DOMAIN DS[d].delegations /\ Own(d, x) /\ d \in DOMAIN Requests[c]
      /\ Requests[c][d].action # "Revoke" => x.amount < DS[d].delegations[c].amount
  BY ExecuteRequest
<1>2. d \in Accounts /\ Kept(d, DS[d]) /\ d \in DOMAIN DS
  BY <1>1, AtDelegator
<1>3. Requests' = [Requests EXCEPT ![c] = Drop(@, d)]
  BY DEF execute_delegation_request
<1>4. /\ \A e : e # d => SameFor(Requests, Requests', e)
      /\ Charges(Requests', d) = Minus(Charges(Requests, d), x)
  BY <1>1, <1>3, DroppedRequests
<1>5. DS[d].less_total = Charges(Requests, d)
  BY <1>2 DEF LessInv
<1>6. CASE Requests[c][d].action = "Revoke"
  <2> DEFINE s == Revoked(DS[d], c, x)
  <2>1. DS' = IF DOMAIN s.delegations = {} THEN Drop(DS, d) ELSE [DS EXCEPT ![d] = s]
    BY <1>6 DEF execute_delegation_request, execute_revoke
  <2>2. s.less_total = Minus(DS[d].less_total, x)
    <3> HIDE DEF x
    <3> QED BY <1>1, <1>2, RevokedIs DEF Own
  <2> HIDE DEF s, x
  <2>3. /\ \A e \in DOMAIN DS' \ {d} : e \in DOMAIN DS /\ DS'[e] = DS[e]
        /\ d \in DOMAIN DS' => DS'[d] = s
    <3>1. CASE DOMAIN s.delegations = {}
      BY <2>1, <3>1 DEF Drop, Restrict
    <3>2. CASE DOMAIN s.delegations # {}
      BY <2>1, <3>2
    <3> QED BY <3>1, <3>2
  <2> QED BY <1>4, <1>5, <2>2, <2>3, LessSet
<1>7. CASE Requests[c][d].action # "Revoke"
  <2> DEFINE s == Decreased(DS[d], c, x)
  <2>1. DS' = [DS EXCEPT ![d] = s]
    BY <1>7 DEF execute_delegation_request, execute_decrease
  <2>2. s.less_total = Minus(DS[d].less_total, x)
    <3> HIDE DEF x
    <3> QED BY <1>1, <1>2, <1>7, DecreasedIs
  <2> HIDE DEF s, x
  <2>3. /\ \A e \in DOMAIN DS' \ {d} : e \in DOMAIN DS /\ DS'[e] = DS[e]
        /\ d \in DOMAIN DS' => DS'[d] = s
    BY <2>1
  <2> QED BY <1>4, <1>5, <2>2, <2>3, LessSet
<1> QED BY <1>6, <1>7

\* delegator_bond_more keeps LessInv.
LEMMA LessMore ==
  ASSUME BookInv, LessInv, NEW d, NEW c, NEW a \in Amounts, delegator_bond_more(d, c, a)
  PROVE  LessInv'
<1> DEFINE DS == DelegatorState
           s == Raised(DS[d], c, power(d, a))
<1>1. /\ is_delegator(d) /\ c \in DOMAIN DS[d].delegations
      /\ DS' = [DS EXCEPT ![d] = s] /\ Requests' = Requests
  BY DEF delegator_bond_more, CanBondMore, delegation_bond_more_without_event, Raised
<1>2. d \in Accounts /\ Kept(d, DS[d]) /\ d \in DOMAIN DS
  BY <1>1, AtDelegator
<1>3. Own(d, power(d, a))
  BY <1>2, AmountsAre, OwnPower
<1>4. s.less_total = DS[d].less_total
  BY <1>1, <1>2, <1>3, KeptMore
<1> HIDE DEF s
<1>5. /\ \A e \in DOMAIN DS' \ {d} : e \in DOMAIN DS /\ DS'[e] = DS[e]
      /\ d \in DOMAIN DS' => DS'[d] = s
  BY <1>1
<1>6. \A e : SameFor(Requests, Requests', e)
  BY <1>1 DEF SameFor
<1>7. DS[d].less_total = Charges(Requests, d)
  BY <1>2 DEF LessInv
<1> QED BY <1>1, <1>4, <1>5, <1>6, <1>7, LessSet

\* execute_leave_delegators keeps LessInv.
LEMMA LessLeaveDelegators ==
  ASSUME BookInv, LessInv, NEW d, execute_leave_delegators(d)
  PROVE  LessInv'
<1> DEFINE DS == DelegatorState
           D == DOMAIN DS[d].delegations
<1>1. /\ DS' = Drop(DS, d)
      /\ Requests' = [c \in Collators |-> IF c \in D THEN Drop(Requests[c], d) ELSE Requests[c]]
  BY LeaveDelegatorIs
<1> HIDE DEF D
<1>2. DOMAIN DS' = DOMAIN DS \ {d} /\ \A e \in DOMAIN DS \ {d} : DS'[e] = DS[e]
  BY <1>1 DEF Drop, Restrict
<1>3. ASSUME NEW e, e # d, NEW c \in Collators
      PROVE  /\ e \in DOMAIN Requests'[c] <=> e \in DOMAIN Requests[c]
             /\ e \in DOMAIN Requests[c] => Requests'[c][e] = Requests[c][e]
  <2>1. CASE c \in D
    <3>1. Requests'[c] = Drop(Requests[c], d)
      BY <1>1, <2>1
    <3> QED BY <1>3, <3>1 DEF Drop, Restrict
  <2>2. CASE c \notin D
    BY <1>1, <2>2
  <2> QED BY <2>1, <2>2
<1>4. \A e : e # d => SameFor(Requests, Requests', e)
  BY <1>3 DEF SameFor
<1> QED BY <1>2, <1>4, LessSet

\* A delegator that c lets go of is not charged for its request there any more.
LEMMA LetGoCharged ==
  ASSUME BookInv, LessInv, NEW c \in Collators, NEW d, Has(DelegatorState, d, c), NEW RQ2,
         SameForBut(Requests, RQ2, d, c), d \notin DOMAIN RQ2[c]
  PROVE  LetGo(c, d).less_total = Charges(RQ2, d)
<1>1. is_delegator(d) /\ c \in DOMAIN DelegatorState[d].delegations /\ d \in DOMAIN DelegatorState
  BY DEF Has, is_delegator
<1>2. LetGo(c, d).less_total = LetGoLess(DelegatorState[d], c, d)
  BY <1>1, LetGoIs
<1>3. DelegatorState[d].less_total = Charges(Requests, d)
  BY <1>1 DEF LessInv
<1>4. CASE d \in DOMAIN Requests[c]
  <2>1. Charges(RQ2, d) = Minus(Charges(Requests, d), Requests[c][d].stake)
    BY <1>4, RequestsTyped, ChargesLess
  <2> QED BY <1>2, <1>3, <1>4, <2>1 DEF LetGoLess
<1>5. CASE d \notin DOMAIN Requests[c]
  <2>1. SameFor(Requests, RQ2, d)
    BY <1>5 DEF SameFor, SameForBut
  <2> QED BY <1>2, <1>3, <1>5, <2>1, ChargesSame DEF LetGoLess
<1> QED BY <1>4, <1>5

\* execute_leave_candidates keeps LessInv.
LEMMA LessLeaveCandidates ==
  ASSUME BookInv, LessInv, NEW c, execute_leave_candidates(c)
  PROVE  LessInv'
<1> DEFINE DS == DelegatorState
<1>1. /\ c \in Collators
      /\ DOMAIN DS' = {d \in DOMAIN DS : Has(DS, d, c) => DOMAIN LetGo(c, d).delegations # {}}
      /\ \A d \in DOMAIN DS' : DS'[d] = IF Has(DS, d, c) THEN LetGo(c, d) ELSE DS[d]
      /\ Requests' = [Requests EXCEPT ![c] = Empty]
  BY LeaveCandidateIs
<1>2. DOMAIN Requests = Collators
  BY DEF BookInv, Requesting
<1>3. /\ DOMAIN Requests'[c] = {} /\ \A e \in Collators \ {c} : Requests'[e] = Requests[e]
  BY <1>1, <1>2 DEF Empty
<1>4. ASSUME NEW d \in DOMAIN DS'
      PROVE  DS'[d].less_total = Charges(Requests', d)
  <2>1. CASE Has(DS, d, c)
    <3> DEFINE R2 == Requests'
    <3>1. SameForBut(Requests, R2, d, c) /\ d \notin DOMAIN R2[c]
      BY <1>3 DEF SameForBut
    <3> HIDE DEF R2
    <3>2. LetGo(c, d).less_total = Charges(R2, d)
      BY <1>1, <2>1, <3>1, LetGoCharged
    <3>3. DS'[d] = LetGo(c, d)
      BY <1>1, <1>4, <2>1
    <3> QED BY <3>2, <3>3 DEF R2
  <2>2. CASE ~Has(DS, d, c)
    <3>1. d \notin DOMAIN Requests[c]
      BY <1>1, <2>2 DEF BookInv, Requesting
    <3>2. SameFor(Requests, Requests', d)
      BY <1>3, <3>1 DEF SameFor
    <3>3. DS'[d] = DS[d] /\ d \in DOMAIN DS
      BY <1>1, <1>4, <2>2
    <3> QED BY <3>2, <3>3, ChargesSame DEF LessInv
  <2> QED BY <2>1, <2>2
<1> QED BY <1>4 DEF LessInv

\* delegate_with_auto_compound keeps LessInv, also for who is kicked.
LEMMA LessDelegate ==
  ASSUME BookInv, LessInv, NEW d \in Delegators, NEW c \in Collators, NEW a \in Amounts, NEW p,
         delegate_with_auto_compound(d, c, a, p)
  PROVE  LessInv'
<1> DEFINE DS == DelegatorState
           s  == power(d, a)
           x  == KickedBy(CandidateInfo[c], Bond(d, s))
           r  == Enters(d, c, s)
           DS1 == Leaves(c, x)
<1>1. /\ Own(d, s) /\ s.amount = a /\ ~Has(DS, d, c)
      /\ x # None => Has(DS, x, c)
      /\ x # d /\ Written(DS1, DS', d, r)
      /\ Requests' = [Requests EXCEPT ![c] = Drop(@, x)]
  BY DelegateIs
<1> HIDE DEF s, x
<1>2. r.less_total = IF is_delegator(d) THEN DS[d].less_total ELSE ZeroStake
  BY <1>1, AmountsAre, EntersIs
<1>3. /\ Delegating(DS1, DOMAIN CandidateInfo)
      /\ \A e : e # x /\ e \in DOMAIN DS => e \in DOMAIN DS1 /\ DS1[e] = DS[e]
      /\ DOMAIN DS1 \subseteq DOMAIN DS
  BY <1>1, LeavesIs
<1> HIDE DEF r
<1>4. \A e : e # x => SameFor(Requests, Requests', e)
  <2>1. DOMAIN Requests = Collators
    BY DEF BookInv, Requesting
  <2>2. /\ DOMAIN Requests'[c] = DOMAIN Requests[c] \ {x}
        /\ \A e \in DOMAIN Requests[c] \ {x} : Requests'[c][e] = Requests[c][e]
        /\ \A e \in Collators \ {c} : Requests'[e] = Requests[e]
    BY <1>1, <2>1 DEF Drop, Restrict
  <2> QED BY <2>2 DEF SameFor
<1>5. r.less_total = Charges(Requests', d)
  <2>1. Charges(Requests', d) = Charges(Requests, d)
    BY <1>1, <1>4, ChargesSame
  <2>2. CASE is_delegator(d)
    BY <1>2, <2>1, <2>2 DEF LessInv, is_delegator
  <2>3. CASE ~is_delegator(d)
    <3>1. \A e \in Collators : d \notin DOMAIN Requests[e]
      BY <2>3, AtRequest
    <3>2. Charges(Requests, d) = ZeroStake
      BY <3>1, ChargesNone
    <3> QED BY <1>2, <2>1, <2>3, <3>2
  <2> QED BY <2>2, <2>3
<1>6. ASSUME NEW e \in DOMAIN DS'
      PROVE  DS'[e].less_total = Charges(Requests', e)
  <2>1. CASE e = d
    BY <1>1, <1>5, <2>1 DEF Written
  <2>2. CASE e = x
    <3>1. e # d /\ e \in DOMAIN DS1 /\ DS'[e] = DS1[e] /\ e \in DOMAIN DS
      BY <1>1, <1>3, <1>6, <2>2 DEF Written
    <3>2. x # None /\ Has(DS, x, c)
      BY <1>1, <2>2, <3>1, AccountsAre DEF BookInv, Delegating
    <3>3. DS1[x] = LetGo(c, x)
      <4>1. CASE Cardinality(DOMAIN DS[x].delegations) = 1
        <5>1. DS1 = Drop(DS, x)
          BY <3>2, <4>1 DEF Leaves
        <5>2. x \notin DOMAIN DS1
          BY <5>1 DEF Drop, Restrict
        <5> QED BY <2>2, <3>1, <5>2
      <4>2. CASE Cardinality(DOMAIN DS[x].delegations) # 1
        <5>1. DS1 = [DS EXCEPT ![x] = LetGo(c, x)]
          BY <3>2, <4>2 DEF Leaves
        <5> QED BY <2>2, <3>1, <5>1
      <4> QED BY <4>1, <4>2
    <3> DEFINE R2 == Requests'
    <3>4. SameForBut(Requests, R2, x, c) /\ x \notin DOMAIN R2[c]
      <4>1. DOMAIN Requests = Collators
        BY DEF BookInv, Requesting
      <4>2. DOMAIN R2[c] = DOMAIN Requests[c] \ {x} /\ \A f \in Collators \ {c} : R2[f] = Requests[f]
        BY <1>1, <4>1 DEF Drop, Restrict
      <4> QED BY <4>2 DEF SameForBut
    <3> HIDE DEF R2
    <3>5. LetGo(c, x).less_total = Charges(R2, x)
      BY <3>2, <3>4, LetGoCharged
    <3> QED BY <2>2, <3>1, <3>3, <3>5 DEF R2
  <2>3. CASE e # d /\ e # x
    <3>1. e \in DOMAIN DS /\ DS'[e] = DS[e]
      BY <1>1, <1>3, <1>6, <2>3 DEF Written
    <3> QED BY <1>4, <2>3, <3>1, ChargesSame DEF LessInv
  <2> QED BY <2>1, <2>2, <2>3
<1> QED BY <1>6 DEF LessInv

\* schedule_leave_delegators keeps LessInv.
LEMMA LessScheduleLeave ==
  ASSUME BookInv, LessInv, NEW d, schedule_leave_delegators(d)
  PROVE  LessInv'
<1> DEFINE DS == DelegatorState
           ds == DS[d].delegations
           had == {c \in DOMAIN ds : d \in DOMAIN Requests[c]}
           old == SumOver([c \in had |-> Requests[c][d].stake], had)
           q(c) == Request("Revoke", ds[c], LeaveDelegatorsDelay)
           u == Plus(Minus(DS[d].less_total, old), SumOver(ds, DOMAIN ds))
<1>1. /\ is_delegator(d)
      /\ Requests' = [c \in Collators |-> IF c \in DOMAIN ds /\ ~RevokePending(c, d)
                                          THEN Put(Requests[c], d, q(c)) ELSE Requests[c]]
      /\ DS' = [DS EXCEPT ![d].less_total = u]
  BY DEF schedule_leave_delegators
<1>2. /\ d \in DOMAIN DS /\ DS[d].less_total \in StakeT /\ IsFiniteSet(DOMAIN ds)
      /\ DOMAIN ds \subseteq Collators /\ \A c \in DOMAIN ds : ds[c] \in StakeT
  BY <1>1, AtDelegator, DelegatorParts
<1>3. \A c : q(c).stake = ds[c]
  BY DEF Request
<1>4. had = Pending(Requests, d)
  <2>1. \A c \in Collators : d \in DOMAIN Requests[c] => c \in DOMAIN ds
    BY DEF BookInv, Requesting, Has
  <2> QED BY <1>2, <2>1 DEF Pending
<1>5. old = Charges(Requests, d) /\ old = DS[d].less_total
  <2>1. old = Charges(Requests, d)
    BY <1>4 DEF Charges
  <2> HIDE DEF old
  <2> QED BY <1>2, <2>1 DEF LessInv
<1> HIDE DEF old, had
<1>6. SumOver(ds, DOMAIN ds) \in StakeT
  <2> HIDE DEF ds
  <2> QED BY <1>2, SumOverType
<1>7. u = SumOver(ds, DOMAIN ds)
  <2> DEFINE t == SumOver(ds, DOMAIN ds)
  <2> HIDE DEF t
  <2>1. t \in StakeT
    BY <1>6 DEF t
  <2>2. Plus(Minus(old, old), t) = t
    <3>1. old \in StakeT
      BY <1>2, <1>5
    <3>2. /\ Minus(old, old) \in StakeT /\ Minus(old, old).amount = 0 /\ Minus(old, old).power = 0
      BY <3>1, StakeParts, MinusParts DEF SaturatingSub, Minus, Stake
    <3> DEFINE z == Minus(old, old)
    <3> HIDE DEF z
    <3>3. z \in StakeT /\ z.amount = 0 /\ z.power = 0
      BY <3>2 DEF z
    <3>4. Plus(z, t) = t
      BY <2>1, <3>3, PlusParts, StakeParts
    <3> QED BY <3>4 DEF z
  <2> QED BY <1>5, <2>2 DEF t
<1>8. \A c \in DOMAIN ds : d \in DOMAIN Requests'[c] /\ Requests'[c][d].stake = ds[c]
  <2> TAKE c \in DOMAIN ds
  <2>1. CASE RevokePending(c, d)
    <3>1. Requests'[c] = Requests[c] /\ d \in DOMAIN Requests[c] /\ Requests[c][d].action = "Revoke"
      BY <1>1, <1>2, <2>1 DEF RevokePending
    <3>2. Asked(d, Stk(DS, d, c), Requests[c][d])
      BY <1>2, <3>1 DEF BookInv, Requesting
    <3> QED BY <3>1, <3>2 DEF Asked, Stk
  <2>2. CASE ~RevokePending(c, d)
    <3> HIDE DEF q
    <3>1. Requests'[c] = Put(Requests[c], d, q(c))
      BY <1>1, <1>2, <2>2
    <3>2. d \in DOMAIN Requests'[c] /\ Requests'[c][d] = q(c)
      BY <3>1 DEF Put
    <3> QED BY <1>3, <3>2
  <2> QED BY <2>1, <2>2
<1> HIDE DEF q, ds
<1>9. \A e \in Collators : e \notin DOMAIN ds => d \notin DOMAIN Requests'[e]
  <2> TAKE e \in Collators
  <2>1. e \notin DOMAIN ds => d \notin DOMAIN Requests[e]
    BY DEF BookInv, Requesting, Has, ds
  <2> QED BY <1>1, <2>1
<1>10. Charges(Requests', d) = SumOver(ds, DOMAIN ds)
  <2>1. Pending(Requests', d) = DOMAIN ds
    BY <1>2, <1>8, <1>9 DEF Pending
  <2> DEFINE g == [e \in DOMAIN ds |-> Requests'[e][d].stake]
  <2>2. \A e \in DOMAIN ds : g[e] = ds[e]
    BY <1>8
  <2> HIDE DEF g
  <2>3. SumOver(g, DOMAIN ds) = SumOver(ds, DOMAIN ds)
    BY <2>2, SumOverSame
  <2> QED BY <2>1, <2>3 DEF Charges, g
<1>11. ASSUME NEW e, e # d, NEW c \in Collators
       PROVE  /\ e \in DOMAIN Requests'[c] <=> e \in DOMAIN Requests[c]
              /\ e \in DOMAIN Requests[c] => Requests'[c][e] = Requests[c][e]
  <2>1. CASE c \in DOMAIN ds /\ ~RevokePending(c, d)
    <3>1. Requests'[c] = Put(Requests[c], d, q(c))
      BY <1>1, <2>1
    <3> QED BY <1>11, <3>1 DEF Put
  <2>2. CASE ~(c \in DOMAIN ds /\ ~RevokePending(c, d))
    BY <1>1, <2>2
  <2> QED BY <2>1, <2>2
<1>12. \A e : e # d => SameFor(Requests, Requests', e)
  BY <1>11 DEF SameFor
<1>13. u = Charges(Requests', d)
  BY <1>7, <1>10
<1> HIDE DEF u
<1>14. DS' = [DS EXCEPT ![d] = Charge(DS[d], u)]
  BY <1>1 DEF Charge
<1> QED BY <1>1, <1>12, <1>13, <1>14, LessCharged

\* cancel_leave_delegators keeps LessInv.
LEMMA LessCancelLeave ==
  ASSUME BookInv, LessInv, NEW d, cancel_leave_delegators(d)
  PROVE  LessInv'
<1> DEFINE DS == DelegatorState
           cs == DOMAIN DS[d].delegations
           g == [c \in cs |-> Requests[c][d].stake]
           u == Minus(DS[d].less_total, SumOver(g, cs))
<1>1. /\ AllRevoking(d)
      /\ Requests' = [c \in Collators |-> IF c \in cs THEN Drop(Requests[c], d)
                                                      ELSE Requests[c]]
      /\ DS' = [DS EXCEPT ![d].less_total = u]
  BY DEF cancel_leave_delegators
<1>2. /\ is_delegator(d) /\ d \in DOMAIN DS /\ DS[d].less_total \in StakeT
      /\ cs \subseteq Collators /\ \A c \in cs : d \in DOMAIN Requests[c]
  BY <1>1, AtDelegator, DelegatorParts DEF AllRevoking, RevokePending
<1>3. \A c \in Collators : d \in DOMAIN Requests[c] => c \in cs
  BY DEF BookInv, Requesting, Has
<1>4. Pending(Requests, d) = cs
  BY <1>2, <1>3 DEF Pending
<1>5. SumOver(g, cs) = DS[d].less_total
  BY <1>2, <1>4 DEF LessInv, Charges
<1>6. u = ZeroStake
  <2> DEFINE t == DS[d].less_total
  <2>1. u = Minus(t, t) /\ t \in StakeT
    BY <1>2, <1>5
  <2> HIDE DEF u, t
  <2>2. t.amount \in Nat /\ t.power \in Nat
    BY <2>1, StakeParts
  <2>3. SaturatingSub(t.amount, t.amount) = 0 /\ SaturatingSub(t.power, t.power) = 0
    BY <2>2 DEF SaturatingSub
  <2> QED BY <2>1, <2>3 DEF Minus, ZeroStake
<1> HIDE DEF cs, u
<1>7. \A c \in Collators : d \notin DOMAIN Requests'[c]
  <2> TAKE c \in Collators
  <2>1. CASE c \in cs
    <3>1. Requests'[c] = Drop(Requests[c], d)
      BY <1>1, <2>1
    <3> QED BY <3>1 DEF Drop, Restrict
  <2>2. CASE c \notin cs
    BY <1>1, <1>3, <2>2
  <2> QED BY <2>1, <2>2
<1>8. u = Charges(Requests', d)
  BY <1>6, <1>7, ChargesNone
<1>9. ASSUME NEW e, e # d, NEW c \in Collators
      PROVE  /\ e \in DOMAIN Requests'[c] <=> e \in DOMAIN Requests[c]
             /\ e \in DOMAIN Requests[c] => Requests'[c][e] = Requests[c][e]
  <2>1. CASE c \in cs
    <3>1. Requests'[c] = Drop(Requests[c], d)
      BY <1>1, <2>1
    <3> QED BY <1>9, <3>1 DEF Drop, Restrict
  <2>2. CASE c \notin cs
    BY <1>1, <2>2
  <2> QED BY <2>1, <2>2
<1>10. \A e : e # d => SameFor(Requests, Requests', e)
  BY <1>9 DEF SameFor
<1>11. DS' = [DS EXCEPT ![d] = Charge(DS[d], u)]
  BY <1>1 DEF Charge
<1> QED BY <1>2, <1>8, <1>10, <1>11, LessCharged

\* Every step keeps LessInv.
LEMMA LessNext ==
  ASSUME BookInv, LessInv, [Next]_vars
  PROVE  LessInv'
<1>1. ASSUME DelegatorState' = DelegatorState, Requests' = Requests
      PROVE  LessInv'
  BY <1>1 DEF LessInv
<1>2. CASE \E c \in Collators : \E a \in Amounts : \/ join_candidates(c, a)
                                                   \/ candidate_bond_more(c, a)
                                                   \/ schedule_candidate_bond_less(c, a)
  BY <1>1, <1>2 DEF join_candidates, candidate_bond_more, schedule_candidate_bond_less
<1>3. CASE \E c \in Collators : \/ schedule_leave_candidates(c) \/ cancel_leave_candidates(c)
                                \/ go_offline(c) \/ go_online(c)
  BY <1>1, <1>3 DEF schedule_leave_candidates, cancel_leave_candidates, go_offline, go_online,
                    ChangeStatus
<1>4. CASE \E c \in Collators : execute_candidate_bond_less(c) \/ cancel_candidate_bond_less(c)
  BY <1>1, <1>4 DEF execute_candidate_bond_less, cancel_candidate_bond_less
<1>5. CASE \E c \in Collators : hotfix_remove_delegation_requests_exited_candidates(c)
  <2>1. PICK c \in Collators : hotfix_remove_delegation_requests_exited_candidates(c)
    BY <1>5
  <2>2. /\ DelegatorState' = DelegatorState /\ Requests[c] = Empty
        /\ Requests' = [Requests EXCEPT ![c] = Empty]
    BY <2>1 DEF hotfix_remove_delegation_requests_exited_candidates
  <2>3. DOMAIN Requests = Collators
    BY DEF BookInv, Requesting
  <2>4. \A e \in Collators : Requests'[e] = Requests[e]
    BY <2>2, <2>3
  <2>5. \A d : SameFor(Requests, Requests', d)
    BY <2>4 DEF SameFor
  <2>6. \A d : Charges(Requests', d) = Charges(Requests, d)
    BY <2>5, ChargesSame
  <2> QED BY <2>2, <2>6 DEF LessInv
<1>6. CASE \E c \in Collators : execute_leave_candidates(c)
  BY <1>6, LessLeaveCandidates
<1>7. CASE \E d \in Delegators, c \in Collators :
             \/ \E a \in Amounts, p \in Percents : delegate_with_auto_compound(d, c, a, p)
             \/ \E a \in Amounts : delegator_bond_more(d, c, a)
             \/ execute_delegation_request(d, c)
  BY <1>7, LessDelegate, LessMore, LessExecute
<1>8. CASE \E d \in Delegators, c \in Collators : \E p \in Percents : set_auto_compound(d, c, p)
  BY <1>1, <1>8 DEF set_auto_compound
<1>9. CASE \E d \in Delegators, c \in Collators :
             \/ \E a \in Amounts : schedule_delegator_bond_less(d, c, a)
             \/ schedule_revoke_delegation(d, c) \/ cancel_delegation_request(d, c)
  BY <1>9, LessSchedules, LessCancel
<1>10. CASE \E d \in Delegators : \/ schedule_leave_delegators(d) \/ cancel_leave_delegators(d)
                                  \/ execute_leave_delegators(d)
  BY <1>10, LessScheduleLeave, LessCancelLeave, LessLeaveDelegators
<1>11. CASE StartRound \/ UNCHANGED vars
  BY <1>1, <1>11 DEF StartRound, vars, bonding
<1> QED BY <1>2, <1>3, <1>4, <1>5, <1>6, <1>7, <1>8, <1>9, <1>10, <1>11 DEF Next, Bonding

\* RequestsMatch follows.
LEMMA RequestsAre ==
  ASSUME BookInv, LessInv
  PROVE  RequestsMatch
<1>1. ASSUME NEW c \in Collators, NEW d \in Delegators, d \in DOMAIN Requests[c]
      PROVE  /\ is_delegator(d) /\ c \in DOMAIN DelegatorState[d].delegations
             /\ Requests[c][d].stake.amount <= DelegatorState[d].delegations[c].amount
  BY <1>1, AtRequest DEF Has, Asked, Stk
<1>2. ASSUME NEW d \in DOMAIN DelegatorState
      PROVE  LET cs == {c \in Collators : d \in DOMAIN Requests[c]}
             IN  DelegatorState[d].less_total = SumOver([c \in cs |-> Requests[c][d].stake], cs)
  BY DEF LessInv, Charges, Pending
<1> QED BY <1>1, <1>2 DEF RequestsMatch

\* A scheduled request has its delegation and asks for no more than is bonded,
\* and less_total of a delegator is the sum of what its requests ask for
\* (delegation_requests.rs), also after a kick or the exit of the candidate.
THEOREM RequestsAlwaysMatch == Spec => []RequestsMatch
<1>1. Init => LessInv
  BY DEF Init, LessInv, Empty
<1>2. BookInv /\ LessInv /\ [Next]_vars => LessInv'
  BY LessNext
<1>3. BookInv /\ LessInv => RequestsMatch
  BY RequestsAre
<1> QED BY <1>1, <1>2, <1>3, BooksHold, PTL DEF Spec

-----------------------------------------------------------------------------
(***************************************************************************)
(* Total against what is locked.                                           *)
(***************************************************************************)
Follows == Total.amount = Locked

LockInv == CLockInv /\ DLockInv /\ Total \in StakeT

\* What can be taken off a stake is taken off its amount.
LEMMA AmountLess ==
  ASSUME NEW s \in StakeT, NEW t \in StakeT
  PROVE  /\ Minus(s, t) \in StakeT /\ s.amount \in Nat /\ t.amount \in Nat
         /\ t.amount <= s.amount => Minus(s, t).amount = s.amount - t.amount
<1>1. /\ Minus(s, t) \in StakeT /\ s.amount \in Nat /\ t.amount \in Nat
      /\ Minus(s, t).amount = SaturatingSub(s.amount, t.amount)
  BY MinusParts, StakeParts
<1> QED BY <1>1 DEF SaturatingSub

\* The locks are numbers, and so are their sums.
LEMMA LockSums ==
  ASSUME BookInv, LockInv
  PROVE  /\ IsFiniteSet(Accounts) /\ DOMAIN collatorLock = Accounts /\ DOMAIN delegatorLock = Accounts
         /\ \A a \in Accounts : collatorLock[a] \in Nat /\ delegatorLock[a] \in Nat
         /\ Sum(collatorLock, Accounts) \in Nat /\ Sum(delegatorLock, Accounts) \in Nat
         /\ Total \in StakeT /\ Total.amount \in Nat
<1>1. /\ IsFiniteSet(Accounts) /\ DOMAIN collatorLock = Accounts /\ DOMAIN delegatorLock = Accounts
      /\ \A a \in Accounts : collatorLock[a] \in Nat /\ delegatorLock[a] \in Nat
      /\ Total \in StakeT
  BY StakingAssumption, CLockNat, DLockNat DEF LockInv, CLockInv, DLockInv
<1>2. Sum(collatorLock, Accounts) \in Nat /\ Sum(delegatorLock, Accounts) \in Nat
  BY <1>1, SumType
<1> QED BY <1>1, <1>2, StakeParts

\* One lock changes.
LEMMA LockSet ==
  ASSUME NEW L, IsFiniteSet(Accounts), \A x \in Accounts : L[x] \in Nat,
         NEW a \in Accounts, NEW m \in Nat, NEW L2, L2[a] = m,
         \A x \in Accounts \ {a} : L2[x] = L[x]
  PROVE  Sum(L2, Accounts) = Sum(L, Accounts) + m - L[a] /\ L[a] <= Sum(L, Accounts)
<1>1. Sum(L2, Accounts) = Sum(L, Accounts) + L2[a] - L[a]
  BY SumUpdate
<1>2. L[a] <= Sum(L, Accounts)
  BY SumTerm
<1> QED BY <1>1, <1>2

\* A call about the bond of a candidate, which grows or shrinks with Total.
LEMMA TotalCandidate ==
  ASSUME BookInv, LockInv, NEW c \in Accounts, NEW m \in Nat, NEW s \in StakeT,
         collatorLock' = [collatorLock EXCEPT ![c] = m], delegatorLock' = delegatorLock,
         \/ Total' = Plus(Total, s) /\ m = collatorLock[c] + s.amount
         \/ Total' = Minus(Total, s) /\ s.amount <= collatorLock[c] /\ m = collatorLock[c] - s.amount
  PROVE  Total' \in StakeT /\ (Follows => Follows')
<1>1. /\ IsFiniteSet(Accounts) /\ DOMAIN collatorLock = Accounts
      /\ \A a \in Accounts : collatorLock[a] \in Nat
      /\ Sum(collatorLock, Accounts) \in Nat /\ Sum(delegatorLock, Accounts) \in Nat
      /\ Total \in StakeT /\ Total.amount \in Nat
  BY LockSums
<1> DEFINE L2 == collatorLock'
<1>2. L2 = [collatorLock EXCEPT ![c] = m]
  OBVIOUS
<1> HIDE DEF L2
<1>3. /\ Sum(L2, Accounts) = Sum(collatorLock, Accounts) + m - collatorLock[c]
      /\ collatorLock[c] <= Sum(collatorLock, Accounts)
  <2> DEFINE L == collatorLock
  <2>1. /\ L2[c] = m /\ \A a \in Accounts \ {c} : L2[a] = L[a]
        /\ IsFiniteSet(Accounts) /\ \A a \in Accounts : L[a] \in Nat
    BY <1>1, <1>2
  <2> HIDE DEF L
  <2>2. Sum(L2, Accounts) = Sum(L, Accounts) + m - L[c] /\ L[c] <= Sum(L, Accounts)
    BY <2>1, LockSet
  <2> QED BY <2>2 DEF L
<1>4. /\ Locked = Sum(collatorLock, Accounts) + Sum(delegatorLock, Accounts)
      /\ Locked' = Sum(L2, Accounts) + Sum(delegatorLock, Accounts)
  BY DEF Locked, L2
<1>5. s.amount \in Nat
  BY StakeParts
<1>6. CASE Total' = Plus(Total, s) /\ m = collatorLock[c] + s.amount
  <2>1. Total' \in StakeT /\ Total'.amount = Total.amount + s.amount
    BY <1>1, <1>6, PlusParts
  <2> QED BY <1>1, <1>3, <1>4, <1>5, <1>6, <2>1 DEF Follows
<1>7. CASE Total' = Minus(Total, s) /\ s.amount <= collatorLock[c] /\ m = collatorLock[c] - s.amount
  <2>1. /\ Total' \in StakeT
        /\ s.amount <= Total.amount => Total'.amount = Total.amount - s.amount
    BY <1>1, <1>7, AmountLess
  <2> QED BY <1>1, <1>3, <1>4, <1>5, <1>7, <2>1 DEF Follows
<1> QED BY <1>6, <1>7

\* A call about the total of one delegator.
LEMMA TotalDelegator ==
  ASSUME BookInv, LockInv, NEW d \in Accounts, NEW m \in Nat, NEW s \in StakeT,
         delegatorLock' = [delegatorLock EXCEPT ![d] = m], collatorLock' = collatorLock,
         \/ Total' = Plus(Total, s) /\ m = delegatorLock[d] + s.amount
         \/ Total' = Minus(Total, s) /\ s.amount <= delegatorLock[d] /\ m = delegatorLock[d] - s.amount
  PROVE  Total' \in StakeT /\ (Follows => Follows')
<1>1. /\ IsFiniteSet(Accounts) /\ DOMAIN delegatorLock = Accounts
      /\ \A a \in Accounts : delegatorLock[a] \in Nat
      /\ Sum(collatorLock, Accounts) \in Nat /\ Sum(delegatorLock, Accounts) \in Nat
      /\ Total \in StakeT /\ Total.amount \in Nat
  BY LockSums
<1> DEFINE L2 == delegatorLock'
<1>2. L2 = [delegatorLock EXCEPT ![d] = m]
  OBVIOUS
<1> HIDE DEF L2
<1>3. /\ Sum(L2, Accounts) = Sum(delegatorLock, Accounts) + m - delegatorLock[d]
      /\ delegatorLock[d] <= Sum(delegatorLock, Accounts)
  <2> DEFINE L == delegatorLock
  <2>1. /\ L2[d] = m /\ \A a \in Accounts \ {d} : L2[a] = L[a]
        /\ IsFiniteSet(Accounts) /\ \A a \in Accounts : L[a] \in Nat
    BY <1>1, <1>2
  <2> HIDE DEF L
  <2>2. Sum(L2, Accounts) = Sum(L, Accounts) + m - L[d] /\ L[d] <= Sum(L, Accounts)
    BY <2>1, LockSet
  <2> QED BY <2>2 DEF L
<1>4. /\ Locked = Sum(collatorLock, Accounts) + Sum(delegatorLock, Accounts)
      /\ Locked' = Sum(collatorLock, Accounts) + Sum(L2, Accounts)
  BY DEF Locked, L2
<1>5. s.amount \in Nat
  BY StakeParts
<1>6. CASE Total' = Plus(Total, s) /\ m = delegatorLock[d] + s.amount
  <2>1. Total' \in StakeT /\ Total'.amount = Total.amount + s.amount
    BY <1>1, <1>6, PlusParts
  <2> QED BY <1>1, <1>3, <1>4, <1>5, <1>6, <2>1 DEF Follows
<1>7. CASE Total' = Minus(Total, s) /\ s.amount <= delegatorLock[d] /\ m = delegatorLock[d] - s.amount
  <2>1. /\ Total' \in StakeT
        /\ s.amount <= Total.amount => Total'.amount = Total.amount - s.amount
    BY <1>1, <1>7, AmountLess
  <2> QED BY <1>1, <1>3, <1>4, <1>5, <1>7, <2>1 DEF Follows
<1> QED BY <1>6, <1>7

\* join_candidates: Total grows with the bond.
LEMMA TotalJoin ==
  ASSUME BookInv, LockInv, NEW c \in Collators, NEW a \in Amounts, join_candidates(c, a)
  PROVE  Total' \in StakeT /\ (Follows => Follows')
<1> DEFINE s == power(c, a)
<1>1. /\ ~is_candidate(c) /\ Total' = Plus(Total, s) /\ delegatorLock' = delegatorLock
      /\ collatorLock' = [collatorLock EXCEPT ![c] = a]
  BY DEF join_candidates
<1>2. c \in Accounts /\ a \in Nat
  BY AccountsAre, AmountsAre
<1>3. Own(c, s) /\ s.amount = a
  BY <1>2, OwnPower
<1> HIDE DEF s
<1>4. collatorLock[c] = 0
  BY <1>1, <1>2 DEF LockInv, CLockInv, CLock, is_candidate
<1>5. s \in StakeT /\ a = collatorLock[c] + s.amount
  BY <1>2, <1>3, <1>4 DEF Own
<1> QED BY <1>1, <1>2, <1>5, TotalCandidate

\* candidate_bond_more: Total grows with the bond.
LEMMA TotalCandidateMore ==
  ASSUME BookInv, LockInv, NEW c, NEW a \in Amounts, candidate_bond_more(c, a)
  PROVE  Total' \in StakeT /\ (Follows => Follows')
<1> DEFINE s == power(c, a)
           k == WithMore(CandidateInfo[c], s)
<1>1. /\ is_candidate(c) /\ Total' = Plus(Total, s) /\ delegatorLock' = delegatorLock
      /\ collatorLock' = [collatorLock EXCEPT ![c] = k.stake.amount]
  BY DEF candidate_bond_more, WithMore
<1>2. c \in Accounts /\ c \in DOMAIN CandidateInfo
      /\ BookOf(CandidateInfo[c], Held(DelegatorState, c)) /\ Backed(c, CandidateInfo[c])
  BY <1>1, AtCandidate
<1>3. Own(c, s) /\ s \in StakeT
  BY <1>2, AmountsAre, OwnPower DEF Own
<1> HIDE DEF s
<1>4. k.stake.amount = CandidateInfo[c].stake.amount + s.amount
  BY <1>2, <1>3, BookBondMore
<1> HIDE DEF k
<1>5. collatorLock[c] = CandidateInfo[c].stake.amount /\ collatorLock[c] \in Nat
  BY <1>2, LockSums DEF LockInv, CLockInv, CLock
<1>6. k.stake.amount = collatorLock[c] + s.amount /\ k.stake.amount \in Nat
  BY <1>3, <1>4, <1>5, StakeParts
<1> QED BY <1>1, <1>2, <1>3, <1>6, TotalCandidate

\* execute_candidate_bond_less: Total shrinks with the bond.
LEMMA TotalCandidateLess ==
  ASSUME BookInv, LockInv, NEW c, execute_candidate_bond_less(c)
  PROVE  Total' \in StakeT /\ (Follows => Follows')
<1> DEFINE CI == CandidateInfo
           s == power(c, CI[c].request.amount)
           k == WithLess(CI[c], s)
<1>1. /\ is_candidate(c) /\ Total' = Minus(Total, s) /\ delegatorLock' = delegatorLock
      /\ collatorLock' = [collatorLock EXCEPT ![c] = k.stake.amount]
      /\ CI[c].request # None
  BY DEF execute_candidate_bond_less, bond_less, WithLess
<1>2. c \in Accounts /\ c \in DOMAIN CI /\ BookOf(CI[c], Held(DelegatorState, c)) /\ Backed(c, CI[c])
      /\ CI[c] \in BookT
  BY <1>1, AtCandidate
<1>3. CI[c].request \in LessRequestT
  BY <1>1, <1>2 DEF BookT
<1>4. CI[c].request.amount \in Nat
  BY <1>3 DEF LessRequestT
<1>5. Own(c, s) /\ s.amount = CI[c].request.amount /\ s \in StakeT
  BY <1>2, <1>4, OwnPower DEF Own
<1>6. s.amount <= CI[c].stake.amount
  BY <1>1, <1>2, <1>5 DEF Backed
<1> HIDE DEF s
<1>7. k.stake.amount = CI[c].stake.amount - s.amount
  BY <1>2, <1>5, <1>6, BookBondLess
<1> HIDE DEF k
<1>8. collatorLock[c] = CI[c].stake.amount /\ collatorLock[c] \in Nat
  BY <1>2, LockSums DEF LockInv, CLockInv, CLock
<1>9. k.stake.amount = collatorLock[c] - s.amount /\ k.stake.amount \in Nat
      /\ s.amount <= collatorLock[c]
  BY <1>5, <1>6, <1>7, <1>8, StakeParts
<1> QED BY <1>1, <1>2, <1>5, <1>9, TotalCandidate

\* delegator_bond_more: Total grows with the delegation.
LEMMA TotalMore ==
  ASSUME BookInv, LockInv, NEW d, NEW c, NEW a \in Amounts, delegator_bond_more(d, c, a)
  PROVE  Total' \in StakeT /\ (Follows => Follows')
<1> DEFINE DS == DelegatorState
           more == power(d, a)
           s == Raised(DS[d], c, more)
<1>1. /\ is_delegator(d) /\ c \in DOMAIN DS[d].delegations
      /\ delegatorLock' = [delegatorLock EXCEPT ![d] = s.total.amount]
      /\ Total' = Plus(Total, more) /\ collatorLock' = collatorLock
  BY DEF delegator_bond_more, CanBondMore, delegation_bond_more_without_event, Raised
<1>2. d \in Accounts /\ Kept(d, DS[d]) /\ d \in DOMAIN DS
  BY <1>1, AtDelegator
<1>3. Own(d, more) /\ more \in StakeT
  BY <1>2, AmountsAre, OwnPower DEF Own
<1> HIDE DEF more
<1>4. s.total.amount = DS[d].total.amount + more.amount
  BY <1>1, <1>2, <1>3, KeptMore
<1> HIDE DEF s
<1>5. delegatorLock[d] = DS[d].total.amount /\ delegatorLock[d] \in Nat
  BY <1>2, LockSums DEF LockInv, DLockInv, DLock
<1>6. s.total.amount = delegatorLock[d] + more.amount /\ s.total.amount \in Nat
  BY <1>3, <1>4, <1>5, StakeParts
<1> QED BY <1>1, <1>2, <1>3, <1>6, TotalDelegator

\* execute_delegation_request: Total shrinks by what was asked for, which is what the
\* delegation loses.
LEMMA TotalExecute ==
  ASSUME BookInv, LockInv, NEW d, NEW c \in Collators, execute_delegation_request(d, c)
  PROVE  Total' \in StakeT /\ (Follows => Follows')
<1> DEFINE DS == DelegatorState
           q == Requests[c][d]
           b == DS[d].delegations[c]
<1>1. /\ is_delegator(d) /\ c \in DOMAIN DS[d].delegations /\ Own(d, q.stake)
      /\ q.action # "Revoke" => q.stake.amount < b.amount
      /\ q.action = "Revoke" => q.stake = b
      /\ Own(d, b)
  BY ExecuteRequest
<1>2. /\ d \in Accounts /\ Kept(d, DS[d]) /\ d \in DOMAIN DS
  BY <1>1, AtDelegator
<1>3. Total' = Minus(Total, q.stake) /\ collatorLock' = collatorLock
  BY DEF execute_delegation_request
<1>4. /\ delegatorLock[d] = DS[d].total.amount /\ DS[d].total.amount \in Nat
      /\ q.stake.amount \in Nat /\ q.stake \in StakeT
  <2>1. DS[d].total \in StakeT /\ q.stake \in StakeT
    BY <1>1, <1>2, DelegatorParts DEF Kept, Own
  <2> QED BY <1>2, <2>1, StakeParts DEF LockInv, DLockInv, DLock
<1>5. \E m : /\ delegatorLock' = [delegatorLock EXCEPT ![d] = m]
             /\ m = DS[d].total.amount - q.stake.amount
  <2>1. CASE q.action = "Revoke"
    <3> DEFINE s == Revoked(DS[d], c, q.stake)
    <3>1. delegatorLock' = [delegatorLock EXCEPT ![d] = s.total.amount]
      BY <2>1 DEF execute_delegation_request, execute_revoke
    <3>2. s.total.amount = DS[d].total.amount - b.amount
      <4> HIDE DEF q
      <4> QED BY <1>1, <1>2, <1>4, RevokedIs
    <3> HIDE DEF s
    <3> QED BY <1>1, <2>1, <3>1, <3>2
  <2>2. CASE q.action # "Revoke"
    <3> DEFINE s == Decreased(DS[d], c, q.stake)
    <3>1. delegatorLock' = [delegatorLock EXCEPT ![d] = s.total.amount]
      BY <2>2 DEF execute_delegation_request, execute_decrease
    <3>2. s.total.amount = DS[d].total.amount - q.stake.amount
      <4> HIDE DEF q
      <4>1. q.stake.amount < DS[d].delegations[c].amount
        BY <1>1, <2>2
      <4> DEFINE x == q.stake
      <4> HIDE DEF x
      <4>2. Decreased(DS[d], c, x).total.amount = DS[d].total.amount - x.amount
        BY <1>1, <1>2, <4>1, DecreasedIs DEF x
      <4> QED BY <4>2 DEF x
    <3> HIDE DEF s
    <3> QED BY <3>1, <3>2
  <2> QED BY <2>1, <2>2
<1>6. q.stake.amount <= DS[d].total.amount
  <2>1. Within(b, DS[d].total)
    <3> DEFINE f == DS[d].delegations
    <3>1. /\ IsFiniteSet(DOMAIN f) /\ \A e \in DOMAIN f : f[e] \in StakeT
          /\ DS[d].total = SumOver(f, DOMAIN f)
      BY <1>2, DelegatorParts DEF Kept
    <3> HIDE DEF f
    <3>2. \A e \in DOMAIN f : Within(f[e], DS[d].total)
      BY <3>1, SumOverType
    <3> QED BY <1>1, <3>2 DEF f
  <2>2. b.amount \in Nat
    BY <1>1, StakeParts DEF Own
  <2> QED BY <1>1, <1>4, <2>1, <2>2 DEF Within
<1> HIDE DEF q, b
<1>7. PICK m : /\ delegatorLock' = [delegatorLock EXCEPT ![d] = m]
               /\ m = DS[d].total.amount - q.stake.amount
  BY <1>5
<1>8. m \in Nat /\ m = delegatorLock[d] - q.stake.amount /\ q.stake.amount <= delegatorLock[d]
  BY <1>4, <1>6, <1>7
<1> DEFINE s == q.stake
<1>9. s \in StakeT /\ Total' = Minus(Total, s) /\ s.amount <= delegatorLock[d]
      /\ m = delegatorLock[d] - s.amount
  BY <1>3, <1>4, <1>8
<1> HIDE DEF s
<1> QED BY <1>2, <1>3, <1>7, <1>8, <1>9, TotalDelegator

\* execute_leave_delegators: every delegation is found and taken off Total.
LEMMA TotalLeaveDelegators ==
  ASSUME BookInv, LockInv, NEW d, execute_leave_delegators(d)
  PROVE  Total' \in StakeT /\ (Follows => Follows')
<1> DEFINE DS == DelegatorState
           ds == DS[d].delegations
<1>1. collatorLock' = collatorLock /\ delegatorLock' = [delegatorLock EXCEPT ![d] = 0]
  BY DEF execute_leave_delegators
<1>2. is_delegator(d) /\ Total' = Minus(Total, SumOver(ds, DOMAIN ds))
  BY LeaveDelegatorIs
<1>4. d \in Accounts /\ d \in DOMAIN DS /\ Kept(d, DS[d])
  BY <1>2, AtDelegator
<1>5. DS[d].total = SumOver(ds, DOMAIN ds) /\ DS[d].total \in StakeT
  BY <1>4, DelegatorParts DEF Kept
<1>6. delegatorLock[d] = DS[d].total.amount /\ delegatorLock[d] \in Nat
  BY <1>4, LockSums DEF LockInv, DLockInv, DLock
<1> DEFINE s == DS[d].total
           m == 0
<1>3. Total' = Minus(Total, s)
  BY <1>2, <1>5
<1>7. /\ s \in StakeT /\ m \in Nat /\ delegatorLock' = [delegatorLock EXCEPT ![d] = m]
      /\ s.amount <= delegatorLock[d] /\ m = delegatorLock[d] - s.amount
  BY <1>1, <1>5, <1>6
<1> HIDE DEF s, m
<1> QED BY <1>1, <1>3, <1>4, <1>7, TotalDelegator

\* What add_delegation reports as leaving is the stake of the delegation it kicks.
LEMMA KickedStake ==
  ASSUME NEW k, NEW S, BookOf(k, S), NEW b
  PROVE  /\ KickedBy(k, b) = None => less_total_staked(k, b) = ZeroStake
         /\ KickedBy(k, b) # None =>
              \E e \in S : e.owner = KickedBy(k, b) /\ e.stake = less_total_staked(k, b)
<1>1. PICK T, B : Good(k, T, B) /\ T \cup B = S
  BY DEF BookOf
<1> DEFINE l == Last(k.bottom.delegations)
<1>2. /\ B \subseteq BondT
      /\ k.bottom_capacity = "Full" <=> Cardinality(B) = MaxBottom
      /\ BottomIsFull(k) <=> Cardinality(B) = MaxBottom
      /\ B = {} <=> Cardinality(B) = 0
      /\ B # {} => l \in B
      /\ B = {} <=> k.bottom.delegations = <<>>
  BY <1>1, BottomFacts, HoldsEnds DEF Good, BottomHolds
<1>3. /\ Cardinality(B) = MaxBottom => B # {}
      /\ B # {} => Cardinality(T) = MaxTop
  BY <1>1, <1>2, MaxFacts DEF Good, Split
<1>4. Cardinality(T) = MaxTop =>
        k.top_capacity = "Full" /\ Len(k.top.delegations) = MaxTopDelegationsPerCandidate
  <2>1. Holds(k.top, T) /\ k.top_capacity = top_capacity(k.top) /\ Cardinality(T) <= MaxTop
    BY <1>1 DEF Good, TopHolds
  <2>2. Cardinality(T) = Len(k.top.delegations)
    BY <2>1, HoldsEnds
  <2>3. Capacity(k.top, MaxTop) = "Full" <=> Cardinality(T) = MaxTop
    BY <2>1, MaxFacts, CapacityHolds
  <2> QED BY <2>1, <2>2, <2>3 DEF top_capacity, MaxTop
<1>5. B # {} => k.lowest_bottom_delegation = l.stake
  BY <1>1, <1>2 DEF Good, BottomHolds, lowest_delegation_amount
<1>6. CASE BottomIsFull(k)
  <2>1. /\ l \in B /\ l \in BondT /\ k.top_capacity = "Full" /\ k.bottom_capacity = "Full"
        /\ Len(k.top.delegations) = MaxTopDelegationsPerCandidate
        /\ k.lowest_bottom_delegation = l.stake
    BY <1>2, <1>3, <1>4, <1>5, <1>6
  <2>2. KickedBy(k, b) = l.owner /\ less_total_staked(k, b) = l.stake
    BY <1>6, <2>1 DEF KickedBy, less_total_staked
  <2>3. l.owner # None
    BY <2>1, NoneAssumption DEF BondT
  <2> QED BY <1>1, <2>1, <2>2, <2>3
<1>7. CASE ~BottomIsFull(k)
  <2>1. KickedBy(k, b) = None /\ less_total_staked(k, b) = ZeroStake
    BY <1>2, <1>7 DEF KickedBy, less_total_staked
  <2> QED BY <2>1
<1> QED BY <1>6, <1>7

\* No delegation of a greater amount is kicked in this step.
FairKicks ==
  \A c \in DOMAIN CandidateInfo', x, d \in Delegators :
    /\ Delegates(x, c) /\ ~Delegates(x, c)'
    /\ ~Delegates(d, c) /\ Delegates(d, c)'
    => DelegatorState[x].delegations[c].amount <= DelegatorState'[d].delegations[c].amount

\* delegate_with_auto_compound: Total grows by the delegation less what is kicked, unless
\* the difference saturates.
LEMMA TotalDelegate ==
  ASSUME BookInv, LockInv, NEW d \in Delegators, NEW c \in Collators, NEW a \in Amounts, NEW p,
         delegate_with_auto_compound(d, c, a, p)
  PROVE  Total' \in StakeT /\ (Follows /\ FairKicks => Follows')
<1> DEFINE DS == DelegatorState
           k  == CandidateInfo[c]
           s  == power(d, a)
           b  == Bond(d, s)
           x  == KickedBy(k, b)
           r  == Enters(d, c, s)
           DS1 == Leaves(c, x)
           t  == less_total_staked(k, b)
           rest == IF x = None THEN Empty ELSE LetGo(c, x)
<1>1. /\ Own(d, s) /\ s.amount = a /\ is_candidate(c) /\ ~Has(DS, d, c)
      /\ x # None => Has(DS, x, c)
      /\ x # d /\ Written(DS1, DS', d, r)
      /\ CandidateInfo' = [CandidateInfo EXCEPT ![c] = add_delegation(k, b)]
  BY DelegateIs
<1>2. /\ collatorLock' = collatorLock /\ Total' = Plus(Total, Minus(s, t))
      /\ delegatorLock' = [e \in Accounts |-> CASE e = d -> r.total.amount
                                                [] e = x -> rest.total.amount
                                                [] OTHER -> delegatorLock[e]]
  BY DEF delegate_with_auto_compound, Enters, Joined
<1>3. BookOf(k, Held(DS, c))
  BY <1>1, AtCandidate
<1> HIDE DEF k, b
<1>4. /\ x = None => t = ZeroStake
      /\ x # None => \E e \in Held(DS, c) : e.owner = x /\ e.stake = t
  BY <1>3, KickedStake
<1> HIDE DEF s, x, t
<1>5. x # None => Has(DS, x, c) /\ t = DS[x].delegations[c]
  <2> SUFFICES ASSUME x # None PROVE Has(DS, x, c) /\ t = DS[x].delegations[c]
    OBVIOUS
  <2>1. PICK e \in Held(DS, c) : e.owner = x /\ e.stake = t
    BY <1>4
  <2>2. Has(DS, e.owner, c) /\ e = Bond(e.owner, Stk(DS, e.owner, c))
    BY <2>1, HeldIs
  <2>3. e.stake = Stk(DS, e.owner, c)
    BY <2>2 DEF Bond
  <2> QED BY <2>1, <2>2, <2>3 DEF Stk
<1>6. d \in Accounts /\ None \notin Accounts /\ a > 0 /\ a \in Nat /\ s \in StakeT
  BY <1>1, AccountsAre, AmountsAre DEF Own
<1>7. /\ IsFiniteSet(Accounts) /\ DOMAIN delegatorLock = Accounts
      /\ \A e \in Accounts : delegatorLock[e] \in Nat
      /\ Sum(collatorLock, Accounts) \in Nat /\ Sum(delegatorLock, Accounts) \in Nat
      /\ Total \in StakeT /\ Total.amount \in Nat
  BY LockSums
<1>8. r.total.amount = s.amount + delegatorLock[d] /\ r.delegations[c] = s
      /\ c \in DOMAIN r.delegations
  <2>1. r.total.amount = s.amount + DLock(DS, d) /\ r.delegations[c] = s
        /\ c \in DOMAIN r.delegations
    BY <1>1, <1>6, EntersIs DEF DLock, is_delegator
  <2> QED BY <1>6, <2>1 DEF LockInv, DLockInv
<1> HIDE DEF r
<1> DEFINE L2 == delegatorLock'
<1>9. L2[d] = r.total.amount
  <2> DEFINE L(e) == CASE e = d -> r.total.amount [] e = x -> rest.total.amount
                       [] OTHER -> delegatorLock[e]
  <2>1. delegatorLock' = [e \in Accounts |-> L(e)]
    BY <1>2
  <2>2. L(d) = r.total.amount
    BY <1>1
  <2> HIDE DEF L
  <2> QED BY <1>6, <2>1, <2>2
<1>10. \A e \in Accounts \ {d, x} : L2[e] = delegatorLock[e]
  BY <1>2
<1>11. t \in StakeT /\ t.amount \in Nat /\ s.amount \in Nat /\ Minus(s, t) \in StakeT
       /\ (t.amount <= s.amount => Minus(s, t).amount = s.amount - t.amount)
  <2>1. t \in StakeT
    <3>1. CASE x = None
      BY <1>4, <3>1 DEF ZeroStake, Stake, StakeT
    <3>2. CASE x # None
      <4>1. is_delegator(x) /\ c \in DOMAIN DS[x].delegations
        BY <1>5, <3>2 DEF Has, is_delegator
      <4> QED BY <1>5, <3>2, <4>1, AtDelegator, DelegatorParts
    <3> QED BY <3>1, <3>2
  <2> QED BY <1>6, <2>1, AmountLess
<1>12. Total' \in StakeT /\ Total'.amount = Total.amount + Minus(s, t).amount
  BY <1>2, <1>7, <1>11, PlusParts
<1>13. Sum(L2, Accounts) = Sum(delegatorLock, Accounts) + s.amount - t.amount
  <2>1. CASE x = None
    <3>1. \A e \in Accounts \ {d} : L2[e] = delegatorLock[e]
      BY <1>6, <1>10, <2>1
    <3>2. r.total.amount \in Nat
      BY <1>6, <1>7, <1>8, <1>11
    <3> HIDE DEF L2
    <3> DEFINE L == delegatorLock
               m == r.total.amount
    <3>3. /\ L2[d] = m /\ \A e \in Accounts \ {d} : L2[e] = L[e]
          /\ IsFiniteSet(Accounts) /\ (\A e \in Accounts : L[e] \in Nat) /\ m \in Nat
      BY <1>7, <1>9, <3>1, <3>2
    <3> HIDE DEF L, m
    <3>4. Sum(L2, Accounts) = Sum(L, Accounts) + m - L[d]
      BY <1>6, <3>3, LockSet
    <3>5. t.amount = 0
      BY <1>4, <2>1 DEF ZeroStake, Stake
    <3> QED BY <1>6, <1>7, <1>8, <1>11, <3>4, <3>5 DEF L, m
  <2>2. CASE x # None
    <3>1. x \in Accounts /\ x \in DOMAIN DS /\ Has(DS, x, c) /\ is_delegator(x)
          /\ c \in DOMAIN DS[x].delegations
      BY <1>5, <2>2, AtDelegator DEF Has, is_delegator
    <3>2. LetGo(c, x).total.amount = DS[x].total.amount - t.amount
      BY <1>5, <2>2, <3>1, LetGoIs
    <3>3. delegatorLock[x] = DS[x].total.amount
      BY <3>1 DEF LockInv, DLockInv, DLock
    <3>4. L2[x] = delegatorLock[x] - t.amount
      BY <1>1, <1>2, <2>2, <3>1, <3>2, <3>3
    <3>5. t.amount <= delegatorLock[x]
      <4> DEFINE f == DS[x].delegations
      <4>1. /\ IsFiniteSet(DOMAIN f) /\ \A e \in DOMAIN f : f[e] \in StakeT
            /\ DS[x].total = SumOver(f, DOMAIN f)
        BY <3>1, AtDelegator, DelegatorParts DEF Kept
      <4> HIDE DEF f
      <4>2. \A e \in DOMAIN f : Within(f[e], DS[x].total)
        BY <4>1, SumOverType
      <4>3. Within(DS[x].delegations[c], DS[x].total)
        BY <3>1, <4>2 DEF f
      <4> QED BY <1>5, <2>2, <3>3, <4>3 DEF Within
    <3> DEFINE L == delegatorLock
               L1 == [L EXCEPT ![x] = L[x] - t.amount]
               m == L[x] - t.amount
               n == r.total.amount
    <3>6. m \in Nat /\ n \in Nat
      BY <1>6, <1>7, <1>8, <1>11, <3>1, <3>5
    <3>7. /\ L1[x] = m /\ \A e \in Accounts \ {x} : L1[e] = L[e]
          /\ \A e \in Accounts : L1[e] \in Nat
      BY <1>7, <3>1, <3>6
    <3>8. \A e \in Accounts \ {d} : L2[e] = L1[e]
      BY <1>1, <1>10, <3>4, <3>7
    <3>9. L2[d] = n
      BY <1>9
    <3> HIDE DEF L1, L2, m, n
    <3> DEFINE K == L
    <3>10. IsFiniteSet(Accounts) /\ (\A e \in Accounts : K[e] \in Nat)
           /\ \A e \in Accounts \ {x} : L1[e] = K[e]
      BY <1>7, <3>7
    <3> HIDE DEF K
    <3>11. Sum(L1, Accounts) = Sum(K, Accounts) + m - K[x]
      BY <3>1, <3>6, <3>7, <3>10, LockSet
    <3>12. Sum(L2, Accounts) = Sum(L1, Accounts) + n - L1[d]
      BY <1>6, <3>6, <3>7, <3>8, <3>9, <3>10, LockSet
    <3>13. L1[d] = L[d]
      BY <1>1, <1>6, <3>7
    <3> QED BY <1>6, <1>7, <1>8, <1>11, <3>1, <3>5, <3>11, <3>12, <3>13 DEF K, m, n
  <2> QED BY <2>1, <2>2
<1>14. ASSUME FairKicks
       PROVE  t.amount <= s.amount
  <2>1. CASE x = None
    BY <1>4, <1>11, <2>1 DEF ZeroStake, Stake
  <2>2. CASE x # None
    <3>0. PICK z : z = x
      OBVIOUS
    <3>1. z \in Delegators /\ Delegates(z, c)
      BY <1>5, <2>2, <3>0, AtDelegator DEF Has, is_delegator, Delegates
    <3>2. ~Delegates(z, c)'
      <4>1. ~Has(DS1, z, c)
        BY <1>5, <2>2, <3>0, LeavesIs
      <4>2. z \in DOMAIN DS' => z \in DOMAIN DS1 /\ DS'[z] = DS1[z]
        BY <1>1, <3>0 DEF Written
      <4> QED BY <4>1, <4>2 DEF Has, is_delegator, Delegates
    <3>3. ~Delegates(d, c)
      BY <1>1 DEF Has, is_delegator, Delegates
    <3>4. Delegates(d, c)' /\ DS'[d].delegations[c] = s
      BY <1>1, <1>8 DEF Written, is_delegator, Delegates
    <3>5. c \in DOMAIN CandidateInfo'
      BY <1>1 DEF is_candidate
    <3>6. DS[z].delegations[c].amount <= DS'[d].delegations[c].amount
      BY <1>14, <3>1, <3>2, <3>3, <3>4, <3>5 DEF FairKicks
    <3> QED BY <1>5, <2>2, <3>0, <3>4, <3>6
  <2> QED BY <2>1, <2>2
<1>15. /\ Locked = Sum(collatorLock, Accounts) + Sum(delegatorLock, Accounts)
       /\ Locked' = Sum(collatorLock, Accounts) + Sum(L2, Accounts)
  BY <1>2 DEF Locked
<1> HIDE DEF L2
<1>16. ASSUME Follows, FairKicks
       PROVE  Follows'
  <2>1. Minus(s, t).amount = s.amount - t.amount
    BY <1>11, <1>14, <1>16
  <2>2. Total.amount = Sum(collatorLock, Accounts) + Sum(delegatorLock, Accounts)
    BY <1>15, <1>16 DEF Follows
  <2>3. Total'.amount = Sum(collatorLock, Accounts) + Sum(L2, Accounts)
    BY <1>7, <1>11, <1>12, <1>13, <2>1, <2>2
  <2> QED BY <1>15, <2>3 DEF Follows
<1> QED BY <1>12, <1>16

\* The amount of a set of bonds is the sum of their amounts.
LEMMA WeightAmount ==
  ASSUME NEW S, S \subseteq BondT, IsFiniteSet(S), NEW F, \A b \in S : F[b] = b.stake.amount
  PROVE  Weight(S).amount = Sum(F, S) /\ \A b \in S : F[b] \in Nat
<1> DEFINE f == [b \in S |-> b.stake]
           g == [b \in S |-> f[b].amount]
<1>1. \A b \in S : f[b] \in StakeT
  BY DelegationsParts
<1>2. \A b \in S : g[b] = F[b]
  OBVIOUS
<1>3. Weight(S) = SumOver(f, S)
  BY DEF Weight
<1> HIDE DEF f
<1>4. SumOver(f, S).amount = Sum(g, S)
  BY <1>1, SumOverType
<1> HIDE DEF g
<1>5. Sum(g, S) = Sum(F, S)
  BY <1>2, SumSame
<1>6. \A b \in S : F[b] \in Nat
  BY DelegationsParts, StakeParts
<1> QED BY <1>3, <1>4, <1>5, <1>6

\* The amounts of two sets of bonds that have none in common.
LEMMA WeightUnion ==
  ASSUME NEW T, NEW B, T \subseteq BondT, B \subseteq BondT, IsFiniteSet(T), IsFiniteSet(B),
         T \cap B = {}
  PROVE  Weight(T \cup B).amount = Weight(T).amount + Weight(B).amount
<1> DEFINE U == T \cup B
           F == [b \in U |-> b.stake.amount]
<1>1. IsFiniteSet(U)
  BY FS_Union
<1>2. U \subseteq BondT /\ (\A b \in U : F[b] = b.stake.amount) /\ T \subseteq U /\ B \subseteq U
  OBVIOUS
<1> HIDE DEF F
<1>3. Weight(U).amount = Sum(F, U) /\ \A b \in U : F[b] \in Nat
  <2> HIDE DEF U
  <2> QED BY <1>1, <1>2, WeightAmount
<1>4. Weight(T).amount = Sum(F, T) /\ Weight(B).amount = Sum(F, B)
  BY <1>2, WeightAmount
<1>5. Sum(F, U) = Sum(F, T) + Sum(F, B)
  BY <1>3, SumUnion
<1> QED BY <1>3, <1>4, <1>5

\* What the delegators have at c, by account, is what c holds.
LEMMA HeldSum ==
  ASSUME BookInv, NEW c, is_candidate(c),
         NEW h, \A d \in Accounts : h[d] = IF Has(DelegatorState, d, c)
                                           THEN Stk(DelegatorState, d, c).amount ELSE 0
  PROVE  Sum(h, Accounts) = Weight(Held(DelegatorState, c)).amount
<1> DEFINE DS == DelegatorState
           S == Held(DS, c)
           O == {d \in Accounts : Has(DS, d, c)}
           R == Accounts \ O
           g == [d \in O |-> Bond(d, Stk(DS, d, c))]
           F == [b \in S |-> b.stake.amount]
<1>1. /\ S \subseteq BondT /\ IsFiniteSet(S) /\ OneEach(S)
  BY AtCandidate, BookOfFacts
<1>2. IsFiniteSet(O) /\ IsFiniteSet(R) /\ O \cap R = {} /\ O \cup R = Accounts
  <2>1. O \subseteq Accounts /\ R \subseteq Accounts
    OBVIOUS
  <2>2. IsFiniteSet(O) /\ IsFiniteSet(R)
    BY <2>1, StakingAssumption, FS_Subset
  <2> QED BY <2>2
<1>3. \A b \in S : Has(DS, b.owner, c) /\ b = Bond(b.owner, Stk(DS, b.owner, c)) /\ b.owner \in Accounts
  BY <1>1, HeldIs, DelegationsParts
<1>4. \A d \in O : g[d] \in S /\ g[d].owner = d /\ g[d].stake = Stk(DS, d, c)
  <2>1. \A d \in O : g[d] = Bond(d, Stk(DS, d, c)) /\ Bond(d, Stk(DS, d, c)) \in S
    BY HeldIs
  <2> QED BY <2>1 DEF Bond
<1>5. g \in Bijection(O, S)
  <2>1. g \in [O -> S]
    BY <1>4
  <2>2. \A d, e \in O : g[d] = g[e] => d = e
    BY <1>4
  <2>3. \A b \in S : \E d \in O : g[d] = b
    BY <1>3
  <2> HIDE DEF g, O, S
  <2> QED BY <2>1, <2>2, <2>3 DEF Bijection, Injection, Surjection, IsInjective
<1>6. \A b \in S : F[b] = b.stake.amount
  OBVIOUS
<1>7. \A d \in O : h[d] = F[g[d]]
  BY <1>4
<1>8. \A d \in R : h[d] = 0
  OBVIOUS
<1> HIDE DEF S, O, R, g, F
<1>9. Weight(S).amount = Sum(F, S) /\ \A b \in S : F[b] \in Nat
  BY <1>1, <1>6, WeightAmount
<1>10. Sum(h, O) = Sum(F, S)
  BY <1>1, <1>5, <1>7, <1>9, SumBijection
<1>11. \A d \in O \cup R : h[d] \in Nat
  <2>1. \A d \in O : g[d] \in S
    BY <1>4
  <2>2. \A d \in O : h[d] \in Nat
    BY <1>7, <1>9, <2>1
  <2> QED BY <1>8, <2>2
<1>12. Sum(h, Accounts) = Sum(h, O) + Sum(h, R)
  <2>1. Sum(h, O \cup R) = Sum(h, O) + Sum(h, R)
    BY <1>2, <1>11, SumUnion
  <2> QED BY <1>2, <2>1
<1>13. Sum(h, R) = 0
  <2>1. Sum(h, R) <= Cardinality(R) * 0
    <3>1. \A d \in R : h[d] \in 0 .. 0
      BY <1>8
    <3> QED BY <1>2, <3>1, SumBound
  <2>2. Sum(h, R) \in Nat /\ Cardinality(R) \in Nat
    BY <1>2, <1>11, SumType, FS_CardinalityType
  <2> QED BY <2>1, <2>2
<1>14. Sum(h, O) \in Nat
  BY <1>2, <1>11, SumType
<1> QED BY <1>9, <1>10, <1>12, <1>13, <1>14 DEF S

\* The candidate that leaves in this step has the bottom total of its bottom list.
FairLeave ==
  \A c \in DOMAIN CandidateInfo \ DOMAIN CandidateInfo' :
    CandidateInfo[c].bottom.total = SumStakes(CandidateInfo[c].bottom.delegations)

\* execute_leave_candidates: Total loses the bond of the candidate and its delegations.
LEMMA TotalLeaveCandidates ==
  ASSUME BookInv, LockInv, NEW c, execute_leave_candidates(c)
  PROVE  Total' \in StakeT /\ (Follows /\ FairLeave => Follows')
<1> DEFINE DS == DelegatorState
           k == CandidateInfo[c]
           S == Held(DS, c)
           h == [d \in Accounts |-> IF Has(DS, d, c) THEN Stk(DS, d, c).amount ELSE 0]
           C2 == collatorLock'
           D2 == delegatorLock'
           out == Plus(k.stake, Plus(k.top.total, k.bottom.total))
<1>1. /\ is_candidate(c) /\ CandidateInfo' = Drop(CandidateInfo, c)
      /\ Total' = Minus(Total, out)
      /\ C2 = [collatorLock EXCEPT ![c] = 0]
      /\ D2 = [d \in Accounts |-> IF d \in owners(c) THEN LetGo(c, d).total.amount
                                                     ELSE delegatorLock[d]]
  BY DEF execute_leave_candidates, ReleaseAll
<1>2. c \in Accounts /\ c \in DOMAIN CandidateInfo /\ BookOf(k, S)
  BY <1>1, AtCandidate
<1>3. /\ IsFiniteSet(Accounts) /\ DOMAIN collatorLock = Accounts
      /\ \A a \in Accounts : collatorLock[a] \in Nat /\ delegatorLock[a] \in Nat
      /\ Sum(collatorLock, Accounts) \in Nat /\ Sum(delegatorLock, Accounts) \in Nat
      /\ Total \in StakeT /\ Total.amount \in Nat
  BY LockSums
<1>4. PICK T, B : Good(k, T, B) /\ T \cup B = S
  BY <1>2 DEF BookOf
<1>5. /\ T \subseteq BondT /\ B \subseteq BondT /\ IsFiniteSet(T) /\ IsFiniteSet(B) /\ T \cap B = {}
      /\ k.top.total = Weight(T) /\ k.stake \in StakeT /\ k.top.total \in StakeT
      /\ k.bottom.total \in StakeT /\ Listing(k.bottom.delegations, B)
  <2>1. /\ Holds(k.top, T) /\ Holds(k.bottom, B) /\ k.top.total = Weight(T) /\ Split(T, B)
        /\ k \in BookT
    BY <1>4 DEF Good, TopHolds, BottomHolds
  <2>2. T \subseteq BondT /\ B \subseteq BondT /\ IsFiniteSet(T) /\ IsFiniteSet(B)
    BY <2>1, HoldsEnds
  <2>3. T \cap B = {}
    BY <2>1 DEF Split, Owners
  <2>4. k.stake \in StakeT /\ k.top \in DelegationsT /\ k.bottom \in DelegationsT
    BY <2>1, BookParts
  <2> QED BY <2>1, <2>2, <2>3, <2>4, DelegationsParts DEF Holds
<1>6. /\ out \in StakeT /\ out.amount = k.stake.amount + (k.top.total.amount + k.bottom.total.amount)
      /\ k.stake.amount \in Nat /\ k.top.total.amount \in Nat /\ k.bottom.total.amount \in Nat
  <2>1. /\ Plus(k.top.total, k.bottom.total) \in StakeT
        /\ Plus(k.top.total, k.bottom.total).amount = k.top.total.amount + k.bottom.total.amount
    BY <1>5, PlusParts
  <2> DEFINE p == Plus(k.top.total, k.bottom.total)
  <2> HIDE DEF p
  <2>2. Plus(k.stake, p) \in StakeT /\ Plus(k.stake, p).amount = k.stake.amount + p.amount
    BY <1>5, <2>1, PlusParts DEF p
  <2> QED BY <1>5, <2>1, <2>2, StakeParts DEF p
<1> HIDE DEF out
<1>7. /\ Total' \in StakeT
      /\ out.amount <= Total.amount => Total'.amount = Total.amount - out.amount
  BY <1>1, <1>3, <1>6, AmountLess
<1>8. Sum(C2, Accounts) = Sum(collatorLock, Accounts) - k.stake.amount
      /\ k.stake.amount <= Sum(collatorLock, Accounts)
  <2>1. C2[c] = 0 /\ \A a \in Accounts \ {c} : C2[a] = collatorLock[a]
    BY <1>1, <1>2, <1>3
  <2>2. collatorLock[c] = k.stake.amount
    BY <1>2 DEF LockInv, CLockInv, CLock
  <2> DEFINE L == collatorLock
             K2 == C2
             m == 0
  <2>3. /\ K2[c] = m /\ \A a \in Accounts \ {c} : K2[a] = L[a]
        /\ IsFiniteSet(Accounts) /\ (\A a \in Accounts : L[a] \in Nat) /\ m \in Nat
    BY <1>3, <2>1
  <2> HIDE DEF L, K2, m
  <2>4. Sum(K2, Accounts) = Sum(L, Accounts) + m - L[c] /\ L[c] <= Sum(L, Accounts)
    BY <1>2, <2>3, LockSet
  <2> QED BY <1>3, <1>6, <2>2, <2>4 DEF L, K2, m
<1>9. Sum(h, Accounts) = Weight(S).amount
  <2>1. \A d \in Accounts : h[d] = IF Has(DS, d, c) THEN Stk(DS, d, c).amount ELSE 0
    OBVIOUS
  <2> HIDE DEF h
  <2> QED BY <1>1, <2>1, HeldSum
<1>10. \A d \in Accounts : D2[d] \in Nat /\ h[d] \in Nat /\ delegatorLock[d] = D2[d] + h[d]
  <2> SUFFICES ASSUME NEW d \in Accounts
               PROVE  D2[d] \in Nat /\ h[d] \in Nat /\ delegatorLock[d] = D2[d] + h[d]
    OBVIOUS
  <2>1. d \in owners(c) <=> Has(DS, d, c)
    BY <1>1, OwnersAre
  <2>2. CASE Has(DS, d, c)
    <3>1. is_delegator(d) /\ c \in DOMAIN DS[d].delegations /\ d \in DOMAIN DS
      BY <2>2 DEF Has, is_delegator
    <3>2. LetGo(c, d).total.amount = DS[d].total.amount - DS[d].delegations[c].amount
      BY <3>1, LetGoIs
    <3>3. delegatorLock[d] = DS[d].total.amount
      BY <3>1 DEF LockInv, DLockInv, DLock
    <3>4. D2[d] = delegatorLock[d] - h[d] /\ h[d] = DS[d].delegations[c].amount
      BY <1>1, <2>1, <2>2, <3>2, <3>3 DEF Stk
    <3>5. Within(DS[d].delegations[c], DS[d].total) /\ DS[d].delegations[c] \in StakeT
      <4> DEFINE f == DS[d].delegations
      <4>1. /\ IsFiniteSet(DOMAIN f) /\ \A e \in DOMAIN f : f[e] \in StakeT
            /\ DS[d].total = SumOver(f, DOMAIN f)
        BY <3>1, AtDelegator, DelegatorParts DEF Kept
      <4> HIDE DEF f
      <4>2. \A e \in DOMAIN f : Within(f[e], DS[d].total) /\ f[e] \in StakeT
        BY <4>1, SumOverType
      <4> QED BY <3>1, <4>2 DEF f
    <3>6. DS[d].delegations[c].amount \in Nat
      BY <3>5, StakeParts
    <3> HIDE DEF h, D2
    <3> QED BY <1>3, <3>3, <3>4, <3>5, <3>6 DEF Within
  <2>3. CASE ~Has(DS, d, c)
    <3>1. D2[d] = delegatorLock[d] /\ h[d] = 0
      BY <1>1, <2>1, <2>3
    <3> HIDE DEF h, D2
    <3> QED BY <1>3, <3>1
  <2> QED BY <2>2, <2>3
<1> HIDE DEF h
<1>11. Sum(delegatorLock, Accounts) = Sum(D2, Accounts) + Sum(h, Accounts)
  <2> DEFINE L == delegatorLock
             K2 == D2
  <2>1. \A d \in Accounts : K2[d] \in Nat /\ h[d] \in Nat /\ L[d] = K2[d] + h[d]
    BY <1>10
  <2> HIDE DEF L, K2
  <2>2. Sum(L, Accounts) = Sum(K2, Accounts) + Sum(h, Accounts)
    BY <1>3, <2>1, SumPlus
  <2> QED BY <2>2 DEF L, K2
<1>12. /\ Locked = Sum(collatorLock, Accounts) + Sum(delegatorLock, Accounts)
       /\ Locked' = Sum(C2, Accounts) + Sum(D2, Accounts)
  BY DEF Locked
<1>13. Sum(D2, Accounts) \in Nat
  <2> DEFINE K2 == D2
  <2>1. \A d \in Accounts : K2[d] \in Nat
    BY <1>10
  <2> HIDE DEF K2
  <2>2. Sum(K2, Accounts) \in Nat
    BY <1>3, <2>1, SumType
  <2> QED BY <2>2 DEF K2
<1> HIDE DEF C2, D2
<1>14. ASSUME Follows, FairLeave
       PROVE  Follows'
  <2>1. c \notin DOMAIN CandidateInfo'
    BY <1>1 DEF Drop, Restrict
  <2>2. k.bottom.total = SumStakes(k.bottom.delegations)
    BY <1>2, <1>14, <2>1 DEF FairLeave
  <2>3. k.bottom.total = Weight(B)
    BY <1>5, <2>2, WeightList
  <2>4. Weight(S).amount = k.top.total.amount + k.bottom.total.amount
    BY <1>4, <1>5, <2>3, WeightUnion
  <2> HIDE DEF k, S
  <2>5. Total.amount = Sum(collatorLock, Accounts) + Sum(delegatorLock, Accounts)
    BY <1>12, <1>14 DEF Follows
  <2>6. out.amount = k.stake.amount + Sum(h, Accounts)
    BY <1>6, <1>9, <2>4
  <2>7. out.amount <= Total.amount
    BY <1>3, <1>6, <1>8, <1>9, <1>11, <1>13, <2>4, <2>5, <2>6
  <2>8. Total'.amount = Sum(C2, Accounts) + Sum(D2, Accounts)
    BY <1>3, <1>6, <1>7, <1>8, <1>9, <1>11, <1>13, <2>4, <2>5, <2>6, <2>7
  <2> QED BY <1>12, <2>8 DEF Follows
<1> QED BY <1>7, <1>14

\* Every step keeps the type of Total, and takes Total to what is locked.
LEMMA TotalNext ==
  ASSUME BookInv, LockInv, [Next]_vars
  PROVE  Total' \in StakeT /\ (Follows /\ FairLeave /\ FairKicks => Follows')
<1> DEFINE Q == Total' \in StakeT /\ (Follows /\ FairLeave /\ FairKicks => Follows')
<1>1. ASSUME Total' = Total, collatorLock' = collatorLock, delegatorLock' = delegatorLock
      PROVE  Q
  BY <1>1 DEF LockInv, Follows, Locked
<1>2. CASE \E c \in Collators : \E a \in Amounts : join_candidates(c, a) \/ candidate_bond_more(c, a)
  BY <1>2, TotalJoin, TotalCandidateMore
<1>3. CASE \E c \in Collators : \/ \E a \in Amounts : schedule_candidate_bond_less(c, a)
                                \/ schedule_leave_candidates(c) \/ cancel_leave_candidates(c)
                                \/ go_offline(c) \/ go_online(c)
                                \/ cancel_candidate_bond_less(c)
                                \/ hotfix_remove_delegation_requests_exited_candidates(c)
  BY <1>1, <1>3 DEF schedule_leave_candidates, cancel_leave_candidates, go_offline, go_online,
                    ChangeStatus, schedule_candidate_bond_less, cancel_candidate_bond_less,
                    hotfix_remove_delegation_requests_exited_candidates
<1>4. CASE \E c \in Collators : execute_candidate_bond_less(c) \/ execute_leave_candidates(c)
  BY <1>4, TotalCandidateLess, TotalLeaveCandidates
<1>5. CASE \E d \in Delegators, c \in Collators :
             \/ \E a \in Amounts, p \in Percents : delegate_with_auto_compound(d, c, a, p)
             \/ \E a \in Amounts : delegator_bond_more(d, c, a)
             \/ execute_delegation_request(d, c)
  BY <1>5, TotalDelegate, TotalMore, TotalExecute
<1>6. CASE \E d \in Delegators, c \in Collators :
             \/ \E p \in Percents : set_auto_compound(d, c, p)
             \/ \E a \in Amounts : schedule_delegator_bond_less(d, c, a)
             \/ schedule_revoke_delegation(d, c) \/ cancel_delegation_request(d, c)
  BY <1>1, <1>6 DEF set_auto_compound, schedule_delegator_bond_less, schedule_revoke_delegation,
                    cancel_delegation_request, UnchangedBySchedule
<1>7. CASE \E d \in Delegators : schedule_leave_delegators(d) \/ cancel_leave_delegators(d)
  BY <1>1, <1>7 DEF schedule_leave_delegators, cancel_leave_delegators, UnchangedBySchedule
<1>8. CASE \E d \in Delegators : execute_leave_delegators(d)
  BY <1>8, TotalLeaveDelegators
<1>9. CASE StartRound \/ UNCHANGED vars
  BY <1>1, <1>9 DEF StartRound, vars, bonding
<1> QED BY <1>2, <1>3, <1>4, <1>5, <1>6, <1>7, <1>8, <1>9 DEF Next, Bonding

\* Total is changed in nine places of lib.rs, types.rs, auto_compound.rs and
\* delegation_requests.rs, each by an amount of its own, and the locks are set elsewhere:
\* a step that finds the two equal leaves them so, but for the two cases TotalFollowsLocks
\* names.
THEOREM TotalAlwaysFollows == Spec => TotalFollowsLocks
<1>1. Init => CLockInv /\ DLockInv /\ Total \in StakeT
  <2> SUFFICES ASSUME Init PROVE CLockInv /\ DLockInv /\ Total \in StakeT
    OBVIOUS
  <2>1. Total \in StakeT
    BY DEF Init, ZeroStake, Stake, StakeT
  <2> QED BY <2>1, LocksInit
<1>2. BookInv /\ LockInv /\ [Next]_vars => LockInv'
  BY CLockNext, DLockNext, TotalNext DEF LockInv
<1>3. BookInv /\ LockInv /\ [Next]_vars =>
        [/\ Total.amount = Locked
         /\ \A c \in DOMAIN CandidateInfo \ DOMAIN CandidateInfo' :
              CandidateInfo[c].bottom.total = SumStakes(CandidateInfo[c].bottom.delegations)
         /\ \A c \in DOMAIN CandidateInfo', x, d \in Delegators :
              /\ Delegates(x, c) /\ ~Delegates(x, c)'
              /\ ~Delegates(d, c) /\ Delegates(d, c)'
              => DelegatorState[x].delegations[c].amount <= DelegatorState'[d].delegations[c].amount
         => Total'.amount = Locked']_vars
  BY TotalNext DEF Follows, FairLeave, FairKicks
<1> QED BY <1>1, <1>2, <1>3, BooksHold, PTL DEF Spec, LockInv, TotalFollowsLocks

=============================================================================
