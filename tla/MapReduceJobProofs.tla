-------------------------- MODULE MapReduceJobProofs ------------------------
(***************************************************************************)
(* Proofs about MapReduceJob: that the local job tracker writes exactly    *)
(* the counts of the words of its input, and that the reduce task of a     *)
(* distributed job writes them multiplied by the number of map outputs it  *)
(* fetched, for every text, hash of the words and number of partitions.    *)
(*                                                                         *)
(* The occurrences that a list of pairs stands for are a set, Units; each  *)
(* phase of the job maps the units of its input one to one to those of its *)
(* output, so that the numbers agree without any sum being computed.       *)
(***************************************************************************)
EXTENDS MapReduceJob, SequenceLemmas, FiniteSetTheorems

-----------------------------------------------------------------------------
(***************************************************************************)
(* Counting by matching.                                                   *)
(***************************************************************************)

\* f matches the elements of D with those of E.
Matches(f, D, E) ==
    /\ f \in [D -> E]
    /\ \A x, y \in D : f[x] = f[y] => x = y
    /\ \A z \in E : \E x \in D : f[x] = z

\* Sets that match have as many elements.
LEMMA MatchedSets ==
    ASSUME NEW D, NEW E, NEW f, Matches(f, D, E), IsFiniteSet(D) \/ IsFiniteSet(E)
    PROVE  IsFiniteSet(D) /\ IsFiniteSet(E) /\ Cardinality(D) = Cardinality(E)
<1>1. f \in Injection(D, E) /\ f \in Surjection(D, E)
  BY DEF Matches, Injection, Surjection, IsInjective
<1>2. CASE IsFiniteSet(D)
  BY <1>1, <1>2, FS_Surjection
<1>3. CASE IsFiniteSet(E)
  BY <1>1, <1>3, FS_Injection
<1>4. QED
  BY <1>2, <1>3

\* One side of a match may be matched on with a third set.
LEMMA Composed ==
    ASSUME NEW D, NEW E, NEW F, NEW f, NEW g, Matches(f, D, E), Matches(g, E, F)
    PROVE  Matches([x \in D |-> g[f[x]]], D, F)
<1> DEFINE h == [x \in D |-> g[f[x]]]
<1>1. h \in [D -> F]
  BY DEF Matches
<1>2. \A x, y \in D : h[x] = h[y] => x = y
  BY DEF Matches
<1>3. ASSUME NEW z \in F PROVE \E x \in D : h[x] = z
  <2>1. PICK y \in E : g[y] = z
    BY DEF Matches
  <2>2. PICK x \in D : f[x] = y
    BY <2>1 DEF Matches
  <2>3. QED
    BY <2>1, <2>2
<1> HIDE DEF h
<1>4. QED
  BY <1>1, <1>2, <1>3, Zenon DEF Matches, h

-----------------------------------------------------------------------------
(***************************************************************************)
(* InOrder: the elements of a set, each once and in the given order.       *)
(***************************************************************************)

StrictOrder(S, R) ==
    /\ \A i \in S : <<i, i>> \notin R
    /\ \A i, j, k \in S : <<i, j>> \in R /\ <<j, k>> \in R => <<i, k>> \in R
    /\ \A i, j \in S : i = j \/ <<i, j>> \in R \/ <<j, i>> \in R

LEMMA InOrderFacts ==
    ASSUME NEW S, NEW R, IsFiniteSet(S), StrictOrder(S, R)
    PROVE  /\ Cardinality(S) \in Nat
           /\ Matches(InOrder(S, R), 1..Cardinality(S), S)
           /\ \A k, l \in 1..Cardinality(S) :
                k < l => <<InOrder(S, R)[k], InOrder(S, R)[l]>> \in R
<1> DEFINE n == Cardinality(S)
           below(i) == {j \in S : <<j, i>> \in R}
           rank(i) == Cardinality(below(i))
           f == [i \in S |-> rank(i) + 1]
           o == InOrder(S, R)
<1>1. n \in Nat
  BY FS_CardinalityType
<1>2. ASSUME NEW i \in S PROVE IsFiniteSet(below(i)) /\ rank(i) \in Nat /\ rank(i) < n
  <2>1. below(i) \in SUBSET S /\ below(i) # S
    BY DEF StrictOrder
  <2> HIDE DEF below
  <2>2. IsFiniteSet(below(i)) /\ rank(i) <= n /\ rank(i) # n
    BY <2>1, FS_Subset
  <2>3. rank(i) \in Nat
    BY <2>2, FS_CardinalityType
  <2> HIDE DEF rank, n
  <2>4. QED
    BY <1>1, <2>2, <2>3
<1>r. \A i \in S : rank(i) \in Nat /\ rank(i) < n
  <2> HIDE DEF rank, below
  <2>1. QED
    BY <1>2
<1>3. ASSUME NEW i \in S, NEW j \in S, <<i, j>> \in R PROVE rank(i) < rank(j)
  <2>1. below(i) \in SUBSET below(j) /\ i \in below(j) /\ i \notin below(i)
    BY <1>3 DEF StrictOrder
  <2>2. IsFiniteSet(below(j)) /\ rank(i) \in Nat /\ rank(j) \in Nat
    BY <1>2
  <2> HIDE DEF below
  <2>3. rank(i) <= rank(j) /\ rank(i) # rank(j)
    BY <2>1, <2>2, FS_Subset
  <2> HIDE DEF rank
  <2>4. QED
    BY <2>2, <2>3
<1>4. ASSUME NEW i \in S, NEW j \in S, rank(i) = rank(j) PROVE i = j
  <2> HIDE DEF rank
  <2>1. ~(rank(i) < rank(j)) /\ ~(rank(j) < rank(i))
    BY <1>r, <1>4
  <2>2. <<i, j>> \notin R /\ <<j, i>> \notin R
    BY <1>3, <2>1
  <2>3. QED
    BY <2>2 DEF StrictOrder
<1>5. f \in Injection(S, 1..n)
  <2> HIDE DEF rank, n
  <2>1. \A i \in S : rank(i) + 1 \in 1..n
    BY <1>1, <1>r
  <2>2. \A i, j \in S : rank(i) + 1 = rank(j) + 1 => i = j
    <3>1. ASSUME NEW i \in S, NEW j \in S, rank(i) + 1 = rank(j) + 1 PROVE i = j
      <4>1. rank(i) = rank(j)
        BY <1>r, <3>1
      <4>2. QED
        BY <1>4, <4>1
    <3>2. QED
      BY <3>1
  <2>3. f \in [S -> 1..n]
    BY <2>1
  <2>4. IsInjective(f)
    BY <2>2 DEF IsInjective
  <2>5. QED
    BY <2>3, <2>4 DEF Injection
<1>6. f \in Surjection(S, 1..n)
  <2>1. IsFiniteSet(1..n) /\ Cardinality(1..n) = n
    BY <1>1, FS_Interval
  <2> HIDE DEF f
  <2>2. QED
    BY <1>5, <2>1, FS_Injection
<1>7. ASSUME NEW k \in 1..n
      PROVE  o[k] \in S /\ rank(o[k]) = k - 1
  <2>1. \E i \in S : rank(i) = k - 1
    <3>1. PICK i \in S : f[i] = k
      BY <1>6 DEF Surjection
    <3> HIDE DEF rank
    <3>2. rank(i) + 1 = k
      BY <3>1
    <3>3. QED
      BY <1>r, <3>2
  <2>2. o[k] = CHOOSE i \in S : rank(i) = k - 1
    BY DEF InOrder
  <2> HIDE DEF rank, o
  <2>3. QED
    BY <2>1, <2>2, Zenon
<1> HIDE DEF rank, n
<1>8. o \in [1..n -> S]
  <2> DEFINE g(k) == CHOOSE i \in S : Cardinality({j \in S : <<j, i>> \in R}) = k - 1
  <2>1. o = [k \in 1..n |-> g(k)]
    BY Zenon DEF InOrder, n
  <2> HIDE DEF o, g
  <2>2. QED
    BY <1>7, <2>1
<1> HIDE DEF o
<1>9. ASSUME NEW k \in 1..n, NEW l \in 1..n, o[k] = o[l] PROVE k = l
  <2>1. rank(o[k]) = k - 1 /\ rank(o[l]) = l - 1
    BY <1>7
  <2>2. k - 1 = l - 1
    BY <1>9, <2>1, Zenon
  <2>3. QED
    BY <1>1, <2>2
<1>10. ASSUME NEW i \in S PROVE \E k \in 1..n : o[k] = i
  <2>1. rank(i) + 1 \in 1..n /\ (rank(i) + 1) - 1 = rank(i)
    BY <1>1, <1>r
  <2>2. o[rank(i) + 1] \in S /\ rank(o[rank(i) + 1]) = rank(i)
    BY <1>7, <2>1
  <2>3. QED
    BY <1>4, <2>1, <2>2
<1>11. ASSUME NEW k \in 1..n, NEW l \in 1..n, k < l PROVE <<o[k], o[l]>> \in R
  <2>1. o[k] \in S /\ o[l] \in S /\ rank(o[k]) = k - 1 /\ rank(o[l]) = l - 1
    BY <1>7
  <2>2. o[k] # o[l]
    BY <1>1, <1>9, <1>11
  <2>3. ~(rank(o[l]) < rank(o[k]))
    BY <1>1, <1>11, <2>1
  <2>4. <<o[l], o[k]>> \notin R
    BY <1>3, <2>1, <2>3
  <2>5. QED
    BY <2>1, <2>2, <2>4 DEF StrictOrder
<1>12. QED
  BY <1>1, <1>8, <1>9, <1>10, <1>11, Zenon DEF Matches, n, o

\* A finite set of numbers, each once and increasing.
LEMMA AscendingFacts ==
    ASSUME NEW S, S \subseteq Int, IsFiniteSet(S)
    PROVE  /\ Cardinality(S) \in Nat
           /\ Matches(Ascending(S), 1..Cardinality(S), S)
           /\ \A k, l \in 1..Cardinality(S) : k < l => Ascending(S)[k] < Ascending(S)[l]
<1> DEFINE R == {x \in S \X S : x[1] < x[2]}
           o == InOrder(S, R)
<1>1. \A i, j \in S : <<i, j>> \in R <=> i < j
  OBVIOUS
<1>2. StrictOrder(S, R)
  <2> HIDE DEF R
  <2>1. \A i \in S : <<i, i>> \notin R
    BY <1>1
  <2>2. \A i, j, k \in S : <<i, j>> \in R /\ <<j, k>> \in R => <<i, k>> \in R
    BY <1>1
  <2>3. ASSUME NEW i \in S, NEW j \in S PROVE i = j \/ <<i, j>> \in R \/ <<j, i>> \in R
    <3>1. i = j \/ i < j \/ j < i
      OBVIOUS
    <3>2. QED
      BY <1>1, <3>1, Zenon
  <2>4. QED
    BY <2>1, <2>2, <2>3 DEF StrictOrder
<1>3. Ascending(S) = o
  BY DEF Ascending
<1> HIDE DEF R
<1>4. /\ Cardinality(S) \in Nat /\ Matches(o, 1..Cardinality(S), S)
      /\ \A k, l \in 1..Cardinality(S) : k < l => <<o[k], o[l]>> \in R
  BY <1>2, InOrderFacts
<1> HIDE DEF o
<1>5. \A k \in 1..Cardinality(S) : o[k] \in S
  BY <1>4 DEF Matches
<1>6. \A k, l \in 1..Cardinality(S) : k < l => o[k] < o[l]
  BY <1>1, <1>4, <1>5
<1>7. QED
  BY <1>3, <1>4, <1>6

-----------------------------------------------------------------------------
(***************************************************************************)
(* The occurrences that pairs stand for.                                   *)
(***************************************************************************)

\* A pair <<w, n>> at place i of v stands for the n occurrences <<i, 1>> to
\* <<i, n>> of w.
Units(w, v) == {x \in (DOMAIN v) \X Nat : v[x[1]][1] = w /\ x[2] \in 1..v[x[1]][2]}

Total(w, v) == Cardinality(Units(w, v))

LEMMA PairParts ==
    ASSUME NEW p \in Pair
    PROVE  /\ p[1] \in Words /\ p[1] \in Nat /\ p[2] \in Nat /\ p[2] > 0
           /\ p = <<p[1], p[2]>> /\ 1 \in 1..p[2]
<1>1. p[1] \in Words /\ p[2] \in Nat \ {0} /\ p = <<p[1], p[2]>>
  BY DEF Pair
<1>2. p[1] \in Nat
  BY <1>1, MapReduceAssumption
<1>3. p[2] > 0 /\ 1 \in 1..p[2]
  BY <1>1
<1>4. QED
  BY <1>1, <1>2, <1>3

LEMMA InUnits ==
    ASSUME NEW D, NEW v \in [D -> Pair], NEW w, NEW x
    PROVE  x \in Units(w, v) <=>
             \E d \in D, k \in Nat : x = <<d, k>> /\ v[d][1] = w /\ k \in 1..v[d][2]
BY DEF Units

\* There are finitely many, and some when there is a pair with the word.
LEMMA UnitsFinite ==
    ASSUME NEW D, NEW v \in [D -> Pair], IsFiniteSet(D), NEW w
    PROVE  /\ IsFiniteSet(Units(w, v)) /\ Total(w, v) \in Nat
           /\ Total(w, v) > 0 <=> \E d \in D : v[d][1] = w
<1> DEFINE W(d) == {d} \X (1..v[d][2])
           A == {W(d) : d \in D}
           f == [d \in D |-> W(d)]
<1>1. IsFiniteSet(A)
  <2>1. f \in Surjection(D, A)
    <3> HIDE DEF W
    <3>1. QED
      BY DEF Surjection
  <2> HIDE DEF f, A
  <2>2. QED
    BY <2>1, FS_Surjection
<1>2. ASSUME NEW d \in D PROVE IsFiniteSet(W(d))
  <2>1. v[d][2] \in Nat
    BY PairParts
  <2>2. IsFiniteSet({d}) /\ IsFiniteSet(1..v[d][2])
    <3>1. IsFiniteSet({d})
      BY FS_Singleton
    <3>2. 1 \in Int /\ v[d][2] \in Int
      BY <2>1
    <3>3. IsFiniteSet(1..v[d][2])
      BY <3>2, FS_Interval
    <3>4. QED
      BY <3>1, <3>3
  <2>3. QED
    BY <2>2, FS_Product
<1>3. IsFiniteSet(UNION A)
  <2>1. \A T \in A : IsFiniteSet(T)
    <3> HIDE DEF W
    <3>1. QED
      BY <1>2
  <2> HIDE DEF A
  <2>2. QED
    BY <1>1, <2>1, FS_UNION
<1>4. Units(w, v) \in SUBSET (UNION A)
  <2>1. ASSUME NEW x \in Units(w, v) PROVE x \in UNION A
    <3>1. PICK d \in D, k \in Nat : x = <<d, k>> /\ k \in 1..v[d][2]
      BY InUnits
    <3>2. x \in W(d)
      BY <3>1
    <3> HIDE DEF W
    <3>3. QED
      BY <3>2
  <2> HIDE DEF A
  <2>2. QED
    BY <2>1
<1>5. IsFiniteSet(Units(w, v))
  <2> HIDE DEF A
  <2>1. QED
    BY <1>3, <1>4, FS_Subset
<1>6. Total(w, v) \in Nat
  BY <1>5, FS_CardinalityType DEF Total
<1>7. Total(w, v) = 0 <=> Units(w, v) = {}
  BY <1>5, FS_EmptySet DEF Total
<1>8. Units(w, v) # {} <=> \E d \in D : v[d][1] = w
  <2>1. ASSUME NEW d \in D, v[d][1] = w PROVE <<d, 1>> \in Units(w, v)
    BY <2>1, PairParts, InUnits
  <2>2. ASSUME NEW x \in Units(w, v) PROVE \E d \in D : v[d][1] = w
    BY InUnits
  <2>3. QED
    BY <2>1, <2>2
<1>9. QED
  BY <1>5, <1>6, <1>7, <1>8

\* Pairs that are put elsewhere stand for as many occurrences.
LEMMA Moved ==
    ASSUME NEW D, NEW E, NEW v \in [D -> Pair], NEW u \in [E -> Pair], NEW f,
           Matches(f, D, E), \A d \in D : v[d] = u[f[d]], NEW w
    PROVE  Matches([x \in Units(w, v) |-> <<f[x[1]], x[2]>>], Units(w, v), Units(w, u))
<1> DEFINE g == [x \in Units(w, v) |-> <<f[x[1]], x[2]>>]
<1>1. ASSUME NEW x \in Units(w, v)
      PROVE  /\ x[1] \in D /\ x = <<x[1], x[2]>> /\ f[x[1]] \in E
             /\ g[x] = <<f[x[1]], x[2]>> /\ g[x] \in Units(w, u)
  <2>1. PICK d \in D, k \in Nat : x = <<d, k>> /\ v[d][1] = w /\ k \in 1..v[d][2]
    BY InUnits
  <2>2. f[d] \in E /\ u[f[d]] = v[d]
    BY DEF Matches
  <2>3. <<f[d], k>> \in Units(w, u)
    BY <2>1, <2>2, InUnits
  <2>4. g[x] = <<f[x[1]], x[2]>>
    OBVIOUS
  <2> HIDE DEF g
  <2>5. QED
    BY <2>1, <2>2, <2>3, <2>4
<1>2. g \in [Units(w, v) -> Units(w, u)]
  BY <1>1
<1>3. ASSUME NEW x \in Units(w, v), NEW y \in Units(w, v), g[x] = g[y] PROVE x = y
  <2> HIDE DEF g
  <2>1. f[x[1]] = f[y[1]] /\ x[2] = y[2]
    BY <1>1, <1>3
  <2>2. x[1] = y[1]
    BY <1>1, <2>1 DEF Matches
  <2>3. QED
    BY <1>1, <2>1, <2>2
<1>4. ASSUME NEW z \in Units(w, u) PROVE \E x \in Units(w, v) : g[x] = z
  <2>1. PICK e \in E, k \in Nat : z = <<e, k>> /\ u[e][1] = w /\ k \in 1..u[e][2]
    BY InUnits
  <2>2. PICK d \in D : f[d] = e
    BY DEF Matches
  <2>3. <<d, k>> \in Units(w, v)
    BY <2>1, <2>2, InUnits
  <2>4. g[<<d, k>>] = z
    BY <2>1, <2>2, <2>3
  <2>5. QED
    BY <2>3, <2>4
<1> HIDE DEF g
<1>5. QED
  BY <1>2, <1>3, <1>4, Zenon DEF Matches, g

\* So their total is the same.
LEMMA MovedTotal ==
    ASSUME NEW D, NEW E, NEW v \in [D -> Pair], NEW u \in [E -> Pair], NEW f,
           Matches(f, D, E), \A d \in D : v[d] = u[f[d]], NEW w,
           IsFiniteSet(D) \/ IsFiniteSet(E)
    PROVE  Total(w, v) = Total(w, u)
<1>1. IsFiniteSet(D)
  BY MatchedSets
<1>2. IsFiniteSet(Units(w, v))
  BY <1>1, UnitsFinite
<1> DEFINE g == [x \in Units(w, v) |-> <<f[x[1]], x[2]>>]
<1>3. Matches(g, Units(w, v), Units(w, u))
  BY Moved
<1> HIDE DEF g
<1>4. QED
  BY <1>2, <1>3, MatchedSets DEF Total

-----------------------------------------------------------------------------
(***************************************************************************)
(* Sorting and partitioning move pairs.                                    *)
(***************************************************************************)

LEMMA SeqFun ==
    ASSUME NEW S, NEW s \in Seq(S)
    PROVE  /\ Len(s) \in Nat /\ DOMAIN s = 1..Len(s) /\ s \in [1..Len(s) -> S]
           /\ IsFiniteSet(DOMAIN s)
<1>1. Len(s) \in Nat /\ DOMAIN s = 1..Len(s) /\ s \in [1..Len(s) -> S]
  BY LenProperties
<1>2. 1 \in Int /\ Len(s) \in Int
  BY <1>1
<1>3. IsFiniteSet(1..Len(s))
  BY <1>2, FS_Interval
<1>4. QED
  BY <1>1, <1>3

\* MovedTotal for a sequence.
LEMMA MovedSeq ==
    ASSUME NEW t \in Seq(Pair), NEW E, NEW u \in [E -> Pair], NEW f,
           Matches(f, DOMAIN t, E), \A k \in DOMAIN t : t[k] = u[f[k]]
    PROVE  \A w : Total(w, t) = Total(w, u)
<1> DEFINE D == DOMAIN t
<1>1. /\ t \in [D -> Pair] /\ IsFiniteSet(D) /\ Matches(f, D, E)
      /\ \A d \in D : t[d] = u[f[d]]
  BY SeqFun
<1> HIDE DEF D
<1>2. ASSUME NEW w PROVE Total(w, t) = Total(w, u)
  <2> DEFINE g == [x \in Units(w, t) |-> <<f[x[1]], x[2]>>]
  <2>1. IsFiniteSet(Units(w, t))
    BY <1>1, UnitsFinite
  <2>2. Matches(g, Units(w, t), Units(w, u))
    BY <1>1, Moved
  <2> HIDE DEF g
  <2>3. QED
    BY <2>1, <2>2, MatchedSets DEF Total
<1>3. QED
  BY <1>2

LEMMA AtFacts ==
    ASSUME NEW S, NEW s \in Seq(S), NEW n \in Nat, NEW o \in [1..n -> DOMAIN s]
    PROVE  /\ At(s, o) \in Seq(S) /\ Len(At(s, o)) = n /\ DOMAIN At(s, o) = 1..n
           /\ \A k \in 1..n : At(s, o)[k] = s[o[k]]
<1>1. At(s, o) = [k \in 1..n |-> s[o[k]]]
  BY DEF At
<1>2. \A k \in 1..n : s[o[k]] \in S
  BY SeqFun
<1>3. At(s, o) \in [1..n -> S]
  BY <1>1, <1>2
<1>4. QED
  BY <1>1, <1>3, FunSeq

NonDecreasing(s) == \A k, l \in DOMAIN s : k < l => s[k][1] <= s[l][1]

Increasing(s) == \A k, l \in DOMAIN s : k < l => s[k][1] < s[l][1]

\* The order that std::sort is given puts any two different places in order.
LEMMA BeforeOrder ==
    ASSUME NEW s \in Seq(Pair)
    PROVE  /\ StrictOrder(DOMAIN s, Before(s))
           /\ \A i, j \in DOMAIN s : <<i, j>> \in Before(s) => s[i][1] <= s[j][1]
<1> DEFINE D == DOMAIN s
           R == Before(s)
<1>0. D \subseteq Int
  BY SeqFun
<1>1. \A i, j \in D : <<i, j>> \in R <=>
         \/ s[i][1] < s[j][1]
         \/ s[i][1] = s[j][1] /\ s[i][2] < s[j][2]
         \/ s[i] = s[j] /\ i < j
  BY Zenon DEF Before
<1>2. \A i \in D : /\ s[i][1] \in Int /\ s[i][2] \in Int
                   /\ \A j \in D : s[i] = s[j] <=> (s[i][1] = s[j][1] /\ s[i][2] = s[j][2])
  <2>1. \A i \in D : s[i] \in Pair
    BY SeqFun
  <2>2. ASSUME NEW i \in D PROVE s[i][1] \in Int /\ s[i][2] \in Int
    <3>1. s[i][1] \in Nat /\ s[i][2] \in Nat
      BY <2>1, PairParts
    <3>2. QED
      BY <3>1
  <2>3. ASSUME NEW i \in D, NEW j \in D, s[i][1] = s[j][1], s[i][2] = s[j][2]
        PROVE  s[i] = s[j]
    <3>1. s[i] = <<s[i][1], s[i][2]>> /\ s[j] = <<s[j][1], s[j][2]>>
      BY <2>1, PairParts
    <3>2. QED
      BY <2>3, <3>1, Zenon
  <2>4. QED
    BY <2>2, <2>3, Zenon
<1> DEFINE a == [i \in D |-> s[i][1]]
           b == [i \in D |-> s[i][2]]
<1>3. a \in [D -> Int] /\ b \in [D -> Int]
  BY <1>2
<1>4. ASSUME NEW i \in D, NEW j \in D
      PROVE  <<i, j>> \in R <=> \/ a[i] < a[j]
                                \/ a[i] = a[j] /\ b[i] < b[j]
                                \/ a[i] = a[j] /\ b[i] = b[j] /\ i < j
  <2>1. \A d \in D : a[d] = s[d][1] /\ b[d] = s[d][2]
    OBVIOUS
  <2> HIDE DEF a, b, R, D
  <2>2. a[i] = s[i][1] /\ b[i] = s[i][2] /\ a[j] = s[j][1] /\ b[j] = s[j][2]
    BY <2>1
  <2>3. s[i] = s[j] <=> (a[i] = a[j] /\ b[i] = b[j])
    BY <1>2, <2>2, Zenon
  <2>4. <<i, j>> \in R <=> \/ s[i][1] < s[j][1]
                           \/ s[i][1] = s[j][1] /\ s[i][2] < s[j][2]
                           \/ s[i] = s[j] /\ i < j
    BY <1>1
  <2>5. QED
    BY <1>2, <2>2, <2>3, <2>4
<1>5. \A i, j \in D : <<i, j>> \in R => s[i][1] <= s[j][1]
  BY <1>1, <1>2
<1> HIDE DEF a, b, R, D
<1>6. \A i \in D : <<i, i>> \notin R
  BY <1>0, <1>3, <1>4
<1>7. ASSUME NEW i \in D, NEW j \in D, NEW k \in D, <<i, j>> \in R, <<j, k>> \in R
      PROVE  <<i, k>> \in R
  <2>1. i \in Int /\ j \in Int /\ k \in Int /\ a[i] \in Int /\ a[j] \in Int /\ a[k] \in Int
        /\ b[i] \in Int /\ b[j] \in Int /\ b[k] \in Int
    BY <1>0, <1>3
  <2>2. QED
    BY <1>4, <1>7, <2>1, SMTT(30)
<1>8. ASSUME NEW i \in D, NEW j \in D PROVE i = j \/ <<i, j>> \in R \/ <<j, i>> \in R
  <2>1. i \in Int /\ j \in Int /\ a[i] \in Int /\ a[j] \in Int /\ b[i] \in Int /\ b[j] \in Int
    BY <1>0, <1>3
  <2>2. i = j \/ a[i] < a[j] \/ a[j] < a[i] \/ (a[i] = a[j] /\ b[i] < b[j])
        \/ (a[j] = a[i] /\ b[j] < b[i]) \/ (a[i] = a[j] /\ b[i] = b[j] /\ i < j)
        \/ (a[j] = a[i] /\ b[j] = b[i] /\ j < i)
    BY <2>1
  <2>3. /\ a[i] < a[j] => <<i, j>> \in R
        /\ (a[i] = a[j] /\ b[i] < b[j]) => <<i, j>> \in R
        /\ (a[i] = a[j] /\ b[i] = b[j] /\ i < j) => <<i, j>> \in R
    BY <1>4
  <2>4. /\ a[j] < a[i] => <<j, i>> \in R
        /\ (a[j] = a[i] /\ b[j] < b[i]) => <<j, i>> \in R
        /\ (a[j] = a[i] /\ b[j] = b[i] /\ j < i) => <<j, i>> \in R
    BY <1>4
  <2>5. QED
    BY <2>2, <2>3, <2>4
<1>9. StrictOrder(D, R)
  BY <1>6, <1>7, <1>8 DEF StrictOrder
<1>10. QED
  BY <1>5, <1>9 DEF D, R

\* Sorting: the same pairs, in order.
LEMMA SortedFacts ==
    ASSUME NEW s \in Seq(Pair)
    PROVE  /\ Sorted(s) \in Seq(Pair) /\ NonDecreasing(Sorted(s))
           /\ \E f : /\ Matches(f, DOMAIN Sorted(s), DOMAIN s)
                     /\ \A k \in DOMAIN Sorted(s) : Sorted(s)[k] = s[f[k]]
           /\ \A w : Total(w, Sorted(s)) = Total(w, s)
<1> DEFINE D == DOMAIN s
           n == Cardinality(D)
           R == Before(s)
           o == InOrder(D, R)
           t == At(s, o)
<1>1. IsFiniteSet(D) /\ s \in [D -> Pair]
  BY SeqFun
<1>2. /\ n \in Nat /\ Matches(o, 1..n, D)
      /\ \A k, l \in 1..n : k < l => <<o[k], o[l]>> \in R
  <2>1. StrictOrder(D, R)
    BY BeforeOrder
  <2> HIDE DEF D, R
  <2>2. QED
    BY <1>1, <2>1, InOrderFacts
<1>3. Sorted(s) = t
  BY DEF Sorted
<1> HIDE DEF o, n, R
<1>4. o \in [1..n -> D]
  BY <1>2 DEF Matches
<1>5. /\ t \in Seq(Pair) /\ DOMAIN t = 1..n
      /\ \A k \in 1..n : t[k] = s[o[k]]
  BY <1>2, <1>4, AtFacts
<1> HIDE DEF t
<1>6. NonDecreasing(t)
  <2>1. ASSUME NEW k \in 1..n, NEW l \in 1..n, k < l PROVE t[k][1] <= t[l][1]
    <3>1. o[k] \in D /\ o[l] \in D /\ <<o[k], o[l]>> \in R
      BY <1>2, <1>4, <2>1
    <3>2. s[o[k]][1] <= s[o[l]][1]
      BY <3>1, BeforeOrder DEF R
    <3>3. QED
      BY <1>5, <3>2
  <2>2. QED
    BY <1>5, <2>1 DEF NonDecreasing
<1>7. ASSUME NEW w PROVE Total(w, t) = Total(w, s)
  <2>1. t \in [1..n -> Pair]
    BY <1>5, SeqFun
  <2> HIDE DEF D
  <2>2. QED
    BY <1>1, <1>2, <1>5, <2>1, MovedTotal
<1>8. QED
  BY <1>2, <1>3, <1>5, <1>6, <1>7

\* Partitioning: a word's pairs all reach the partition of its hash.
LEMMA PartFacts ==
    ASSUME NEW s \in Seq(Pair), NEW n \in Nat \ {0}, NEW p \in 1..n
    PROVE  /\ Partitioned(s, n)[p] \in Seq(Pair)
           /\ \A k \in DOMAIN Partitioned(s, n)[p] :
                GetPartition(Partitioned(s, n)[p][k][1], n) = p - 1
           /\ \A w : GetPartition(w, n) = p - 1 => Total(w, Partitioned(s, n)[p]) = Total(w, s)
<1> DEFINE P == {i \in DOMAIN s : GetPartition(s[i][1], n) = p - 1}
           m == Cardinality(P)
           o == Ascending(P)
           t == At(s, o)
<1>1. IsFiniteSet(P) /\ P \subseteq Int /\ P \subseteq DOMAIN s
  <2>1. P \in SUBSET DOMAIN s /\ IsFiniteSet(DOMAIN s) /\ DOMAIN s \subseteq Int
    BY SeqFun
  <2> HIDE DEF P
  <2>2. QED
    BY <2>1, FS_Subset
<1>2. \A i \in P : GetPartition(s[i][1], n) = p - 1
  OBVIOUS
<1>3. \A i \in DOMAIN s : GetPartition(s[i][1], n) = p - 1 => i \in P
  OBVIOUS
<1>4. Partitioned(s, n)[p] = t
  BY DEF Partitioned
<1> HIDE DEF P
<1>5. m \in Nat /\ Matches(o, 1..m, P)
  BY <1>1, AscendingFacts
<1> HIDE DEF o, m
<1>6. o \in [1..m -> P] /\ o \in [1..m -> DOMAIN s]
  BY <1>1, <1>5 DEF Matches
<1>7. t \in Seq(Pair) /\ DOMAIN t = 1..m /\ \A k \in 1..m : t[k] = s[o[k]]
  BY <1>5, <1>6, AtFacts
<1> HIDE DEF t
<1>8. \A k \in DOMAIN t : GetPartition(t[k][1], n) = p - 1
  BY <1>2, <1>6, <1>7
<1>9. ASSUME NEW w, GetPartition(w, n) = p - 1 PROVE Total(w, t) = Total(w, s)
  <2> DEFINE u == [i \in P |-> s[i]]
  <2>1. u \in [P -> Pair] /\ t \in [1..m -> Pair] /\ s \in [DOMAIN s -> Pair]
    BY <1>1, <1>7, SeqFun
  <2>2. Total(w, t) = Total(w, u)
    <3>1. \A k \in 1..m : t[k] = u[o[k]]
      BY <1>6, <1>7
    <3> HIDE DEF u
    <3>2. QED
      BY <1>1, <1>5, <2>1, <3>1, MovedTotal, SMTT(30)
  <2>3. Units(w, u) = Units(w, s)
    <3>1. ASSUME NEW x \in Units(w, s) PROVE x \in Units(w, u)
      <4>1. PICK d \in DOMAIN s, k \in Nat : x = <<d, k>> /\ s[d][1] = w /\ k \in 1..s[d][2]
        BY <2>1, InUnits
      <4>2. d \in P /\ u[d] = s[d]
        BY <1>3, <1>9, <4>1
      <4> HIDE DEF u
      <4>3. QED
        BY <2>1, <4>1, <4>2, InUnits
    <3>2. ASSUME NEW x \in Units(w, u) PROVE x \in Units(w, s)
      <4>1. PICK d \in P, k \in Nat : x = <<d, k>> /\ u[d][1] = w /\ k \in 1..u[d][2]
        <5> HIDE DEF u
        <5>1. QED
          BY <2>1, InUnits
      <4>2. d \in DOMAIN s /\ u[d] = s[d]
        BY <1>1
      <4> HIDE DEF u
      <4>3. QED
        BY <2>1, <4>1, <4>2, InUnits
    <3>3. QED
      BY <3>1, <3>2
  <2>4. QED
    BY <2>2, <2>3, Zenon DEF Total
<1>10. QED
  BY <1>4, <1>7, <1>8, <1>9

-----------------------------------------------------------------------------
(***************************************************************************)
(* Flattening a sequence of sequences.                                     *)
(***************************************************************************)

\* p has the first m prefixes of the flattening, the empty one at 0.
Prefixed(seqs, m, p) ==
    /\ p[0] = <<>>
    /\ \A i \in 1..m : p[i] = p[i - 1] \o seqs[i]

LEMMA PrefixesExist ==
    ASSUME NEW S, NEW n \in Nat, NEW seqs \in [1..n -> Seq(S)]
    PROVE  \E p \in [0..n -> Seq(S)] : Prefixed(seqs, n, p)
<1> DEFINE I == {m \in Nat : m <= n => \E p \in [0..m -> Seq(S)] : Prefixed(seqs, m, p)}
<1>1. 0 \in I
  <2> DEFINE p == [i \in 0..0 |-> <<>>]
  <2>1. p \in [0..0 -> Seq(S)] /\ p[0] = <<>>
    BY EmptySeq
  <2> HIDE DEF p
  <2>2. Prefixed(seqs, 0, p)
    BY <2>1 DEF Prefixed
  <2>3. QED
    BY <2>1, <2>2
<1>2. ASSUME NEW m \in Nat, m \in I PROVE m + 1 \in I
  <2> SUFFICES ASSUME m + 1 <= n
               PROVE  \E q \in [0..(m + 1) -> Seq(S)] : Prefixed(seqs, m + 1, q)
    OBVIOUS
  <2>1. PICK p \in [0..m -> Seq(S)] : Prefixed(seqs, m, p)
    BY <1>2
  <2> DEFINE q == [i \in 0..(m + 1) |-> IF i = m + 1 THEN p[m] \o seqs[m + 1] ELSE p[i]]
  <2>2. p[m] \in Seq(S) /\ seqs[m + 1] \in Seq(S)
    OBVIOUS
  <2>3. p[m] \o seqs[m + 1] \in Seq(S)
    BY <2>2, ConcatFacts
  <2>4. q \in [0..(m + 1) -> Seq(S)]
    BY <2>3
  <2>5. (\A i \in 0..m : q[i] = p[i]) /\ q[m + 1] = p[m] \o seqs[m + 1]
    BY SMTT(30)
  <2> HIDE DEF q
  <2>6. q[0] = <<>>
    <3>1. p[0] = <<>>
      BY <2>1, Zenon DEF Prefixed
    <3>2. 0 \in 0..m
      OBVIOUS
    <3>3. QED
      BY <2>5, <3>1, <3>2, Zenon
  <2>7. ASSUME NEW i \in 1..(m + 1) PROVE q[i] = q[i - 1] \o seqs[i]
    <3>1. CASE i = m + 1
      <4>1. q[i - 1] = p[m]
        BY <2>5, <3>1
      <4>2. QED
        BY <2>5, <3>1, <4>1, Zenon
    <3>2. CASE i # m + 1
      <4>1. i \in 1..m /\ q[i] = p[i] /\ q[i - 1] = p[i - 1]
        BY <2>5, <3>2, SMTT(30)
      <4>2. p[i] = p[i - 1] \o seqs[i]
        BY <2>1, <4>1 DEF Prefixed
      <4>3. QED
        BY <4>1, <4>2, Zenon
    <3>3. QED
      BY <3>1, <3>2
  <2>8. Prefixed(seqs, m + 1, q)
    BY <2>6, <2>7 DEF Prefixed
  <2>9. QED
    BY <2>4, <2>8
<1>3. n \in I
  <2> HIDE DEF I
  <2>1. QED
    BY <1>1, <1>2, NumbersIn
<1>4. QED
  BY <1>3

\* FlattenSeq returns the last prefix.
LEMMA FlattenPrefix ==
    ASSUME NEW S, NEW n \in Nat, NEW seqs \in [1..n -> Seq(S)],
           NEW p \in [0..n -> Seq(S)], Prefixed(seqs, n, p)
    PROVE  FlattenSeq(seqs) = p[n]
<1>1. Len(seqs) = n /\ seqs \in Seq(Seq(S))
  BY FunSeq
<1>2. CASE n = 0
  <2>1. seqs = <<>>
    BY <1>1, <1>2, EmptySeq
  <2>2. FlattenSeq(seqs) = seqs
    BY <1>1, <1>2 DEF FlattenSeq
  <2>3. QED
    BY <1>2, <2>1, <2>2 DEF Prefixed
<1>3. CASE n # 0
  <2> DEFINE F(f) == [i \in 1..Len(seqs) |-> IF i = 1 THEN seqs[i] ELSE f[i - 1] \o seqs[i]]
             g == [i \in 1..n |-> p[i]]
             c == CHOOSE f : f = F(f)
  <2>1. FlattenSeq(seqs) = c[Len(seqs)]
    BY <1>1, <1>3, Zenon DEF FlattenSeq
  <2>2. \A i \in 1..n : p[i] \in Seq(S) /\ seqs[i] \in Seq(S)
    OBVIOUS
  <2>3. \A i \in 1..n : g[i] = IF i = 1 THEN seqs[i] ELSE g[i - 1] \o seqs[i]
    <3>1. \A i \in 1..n : p[i] = p[i - 1] \o seqs[i]
      BY DEF Prefixed
    <3>2. ASSUME 1 \in 1..n PROVE p[1] = seqs[1]
      <4>1. p[1] = <<>> \o seqs[1]
        <5>1. p[1] = p[1 - 1] \o seqs[1] /\ 1 - 1 = 0
          BY <3>1, <3>2, SMTT(30)
        <5>2. QED
          BY <5>1, Zenon DEF Prefixed
      <4>2. <<>> \o seqs[1] = seqs[1]
        BY <2>2, <3>2, ConcatEmptySeq
      <4>3. QED
        BY <4>1, <4>2
    <3>3. \A i \in 1..n : g[i] = p[i]
      OBVIOUS
    <3> HIDE DEF g
    <3>4. ASSUME NEW i \in 1..n PROVE g[i] = IF i = 1 THEN seqs[i] ELSE g[i - 1] \o seqs[i]
      <4>1. CASE i = 1
        BY <3>2, <3>3, <4>1
      <4>2. CASE i # 1
        <5>1. i - 1 \in 1..n
          BY <4>2
        <5>2. g[i] = p[i] /\ g[i - 1] = p[i - 1] /\ p[i] = p[i - 1] \o seqs[i]
          BY <3>1, <3>3, <5>1
        <5>3. QED
          BY <4>2, <5>2, Zenon
      <4>3. QED
        BY <4>1, <4>2
    <3>5. QED
      BY <3>4
  <2>4. g = F(g)
    <3>1. g = [i \in 1..n |-> g[i]]
      OBVIOUS
    <3> HIDE DEF g
    <3>2. QED
      BY <1>1, <2>3, <3>1, Zenon
  <2>5. c = F(c)
    <3> HIDE DEF F, g
    <3>1. QED
      BY <2>4, Zenon
  <2> HIDE DEF c, g
  <2>6. \A i \in 1..n : c[i] = IF i = 1 THEN seqs[i] ELSE c[i - 1] \o seqs[i]
    BY <1>1, <2>5
  <2> HIDE DEF F
  <2> DEFINE I == {m \in Nat : m \in 1..n => c[m] = g[m]}
  <2>7. 0 \in I
    OBVIOUS
  <2>8. ASSUME NEW m \in Nat, m \in I PROVE m + 1 \in I
    <3> SUFFICES ASSUME m + 1 \in 1..n PROVE c[m + 1] = g[m + 1]
      OBVIOUS
    <3>1. CASE m = 0
      <4>1. c[1] = seqs[1] /\ g[1] = seqs[1]
        BY <2>3, <2>6, <3>1
      <4>2. m + 1 = 1
        BY <3>1
      <4>3. QED
        BY <4>1, <4>2, Zenon
    <3>2. CASE m # 0
      <4>1. c[m] = g[m] /\ m + 1 # 1 /\ (m + 1) - 1 = m
        BY <2>8, <3>2
      <4>2. c[m + 1] = c[(m + 1) - 1] \o seqs[m + 1]
        BY <2>6, <4>1, Zenon
      <4>3. g[m + 1] = g[(m + 1) - 1] \o seqs[m + 1]
        BY <2>3, <4>1, Zenon
      <4>4. QED
        BY <4>1, <4>2, <4>3, Zenon
    <3>3. QED
      BY <3>1, <3>2
  <2>9. n \in I
    <3> HIDE DEF I
    <3>1. QED
      BY <2>7, <2>8, NumbersIn
  <2>10. c[n] = g[n]
    BY <1>3, <2>9
  <2>11. g[n] = p[n]
    BY <1>3 DEF g
  <2>12. QED
    BY <1>1, <2>1, <2>10, <2>11, Zenon
<1>4. QED
  BY <1>2, <1>3

\* The places of a sequence of sequences.
Cells(seqs) == {c \in (DOMAIN seqs) \X Nat : c[2] \in DOMAIN seqs[c[1]]}

CellsTo(seqs, m) == {c \in Cells(seqs) : c[1] <= m}

\* f finds each element of s in its cell.
Located(f, s, seqs, C) ==
    /\ Matches(f, DOMAIN s, C)
    /\ \A k \in DOMAIN s : s[k] = seqs[f[k][1]][f[k][2]]

IsCell(c, seqs, m) == \E i \in 1..m, k \in Nat : k \in 1..Len(seqs[i]) /\ c = <<i, k>>

LEMMA CellFacts ==
    ASSUME NEW S, NEW n \in Nat, NEW seqs \in [1..n -> Seq(S)], NEW m \in 0..n
    PROVE  /\ \A c : c \in CellsTo(seqs, m) <=> IsCell(c, seqs, m)
           /\ \A i \in 1..n : /\ Len(seqs[i]) \in Nat
                              /\ DOMAIN seqs[i] = 1..Len(seqs[i])
<1>1. \A i \in 1..n : Len(seqs[i]) \in Nat /\ DOMAIN seqs[i] = 1..Len(seqs[i])
  <2>1. \A i \in 1..n : seqs[i] \in Seq(S)
    OBVIOUS
  <2>2. QED
    BY <2>1, LenProperties
<1>2. ASSUME NEW c, c \in CellsTo(seqs, m)
      PROVE  IsCell(c, seqs, m)
  <2>1. c[1] \in 1..n /\ c[1] <= m /\ c[2] \in DOMAIN seqs[c[1]] /\ c = <<c[1], c[2]>>
    BY <1>2 DEF CellsTo, Cells
  <2>2. c[1] \in 1..m /\ c[2] \in 1..Len(seqs[c[1]])
    BY <1>1, <2>1
  <2>3. QED
    BY <1>1, <2>1, <2>2 DEF IsCell
<1>3. ASSUME NEW c, IsCell(c, seqs, m)
      PROVE  c \in CellsTo(seqs, m)
  <2>0. PICK i \in 1..m, k \in Nat : k \in 1..Len(seqs[i]) /\ c = <<i, k>>
    BY <1>3 DEF IsCell
  <2>1. i \in 1..n /\ i <= m
    OBVIOUS
  <2>2. k \in DOMAIN seqs[i] /\ k \in Nat
    BY <1>1, <2>0, <2>1
  <2>3. <<i, k>> \in Cells(seqs)
    BY <2>1, <2>2 DEF Cells
  <2>4. QED
    BY <2>0, <2>1, <2>3 DEF CellsTo
<1>4. QED
  BY <1>1, <1>2, <1>3

LEMMA LocatedNext ==
    ASSUME NEW S, NEW n \in Nat, NEW seqs \in [1..n -> Seq(S)], NEW m \in Nat, m + 1 \in 1..n,
           NEW s \in Seq(S), NEW f, Located(f, s, seqs, CellsTo(seqs, m))
    PROVE  \E g : Located(g, s \o seqs[m + 1], seqs, CellsTo(seqs, m + 1))
<1> DEFINE x == seqs[m + 1]
           t == s \o x
           a == Len(s)
           b == Len(x)
           g == [k \in 1..(a + b) |-> IF k <= a THEN f[k] ELSE <<m + 1, k - a>>]
           C == CellsTo(seqs, m)
           D == CellsTo(seqs, m + 1)
<1>1. x \in Seq(S) /\ m \in 0..n /\ m + 1 \in 0..n
  OBVIOUS
<1> HIDE DEF x
<1>2. /\ t \in Seq(S) /\ Len(t) = a + b /\ a \in Nat /\ b \in Nat
      /\ (\A k \in 1..a : t[k] = s[k]) /\ (\A k \in 1..b : t[a + k] = x[k])
  BY <1>1, ConcatFacts
<1>3. DOMAIN t = 1..(a + b) /\ DOMAIN s = 1..a
  <2>1. DOMAIN t = 1..Len(t) /\ DOMAIN s = 1..Len(s)
    BY <1>2, LenProperties
  <2>2. QED
    BY <1>2, <2>1
<1> HIDE DEF a, b, t
<1>4. \A c : c \in C <=> IsCell(c, seqs, m)
  BY <1>1, CellFacts
<1>5. \A c : c \in D <=> IsCell(c, seqs, m + 1)
  BY <1>1, CellFacts
<1> HIDE DEF C, D
<1>6. /\ f \in [1..a -> C] /\ (\A k, l \in 1..a : f[k] = f[l] => k = l)
      /\ (\A c \in C : \E k \in 1..a : f[k] = c)
      /\ \A k \in 1..a : s[k] = seqs[f[k][1]][f[k][2]]
  BY <1>3 DEF Located, Matches, C
<1>7. \A k \in 1..a : k \in 1..(a + b) /\ g[k] = f[k]
  BY <1>2
<1>8. \A k \in 1..b : a + k \in 1..(a + b) /\ g[a + k] = <<m + 1, k>>
  <2>1. \A k \in 1..b : a + k \in 1..(a + b) /\ ~(a + k <= a) /\ (a + k) - a = k
    BY <1>2
  <2>2. QED
    BY <2>1
<1>9. \A k \in 1..(a + b) : k \in 1..a \/ \E l \in 1..b : k = a + l
  <2>1. ASSUME NEW k \in 1..(a + b), ~(k \in 1..a) PROVE k - a \in 1..b /\ k = a + (k - a)
    BY <1>2, <2>1
  <2>2. QED
    BY <2>1
<1>10. DOMAIN g = 1..(a + b) /\ g = [k \in 1..(a + b) |-> g[k]]
  OBVIOUS
<1> HIDE DEF g
<1>11. \A k \in 1..a : f[k] \in C /\ f[k] \in D /\ f[k][1] \in 1..m
  <2>1. ASSUME NEW c \in C PROVE c \in D /\ c[1] \in 1..m
    <3>1. PICK i \in 1..m, k \in Nat : k \in 1..Len(seqs[i]) /\ c = <<i, k>>
      BY <1>4 DEF IsCell
    <3>2. i \in 1..(m + 1)
      OBVIOUS
    <3>3. QED
      BY <1>5, <3>1, <3>2 DEF IsCell
  <2>2. QED
    BY <1>6, <2>1
<1>12. \A k \in 1..b : <<m + 1, k>> \in D
  <2>1. m + 1 \in 1..(m + 1) /\ b = Len(seqs[m + 1])
    BY DEF b, x
  <2>2. QED
    BY <1>2, <1>5, <2>1 DEF IsCell
<1>13. g \in [1..(a + b) -> D]
  <2>1. \A k \in 1..(a + b) : g[k] \in D
    BY <1>7, <1>8, <1>9, <1>11, <1>12
  <2>2. QED
    BY <1>10, <2>1
<1>14. ASSUME NEW k \in 1..(a + b), NEW l \in 1..(a + b), g[k] = g[l] PROVE k = l
  <2>1. CASE k \in 1..a /\ l \in 1..a
    <3>1. f[k] = f[l]
      BY <1>7, <1>14, <2>1
    <3>2. QED
      BY <1>6, <2>1, <3>1
  <2>2. \A i \in 1..a, j \in 1..b : g[i] # g[a + j]
    <3>1. ASSUME NEW i \in 1..a, NEW j \in 1..b, g[i] = g[a + j] PROVE FALSE
      <4>1. f[i][1] \in 1..m /\ f[i] = <<m + 1, j>>
        BY <1>7, <1>8, <1>11, <3>1
      <4>2. m + 1 \in 1..m
        BY <4>1
      <4>3. QED
        BY <4>2
    <3>2. QED
      BY <3>1
  <2>3. \A i, j \in 1..b : g[a + i] = g[a + j] => i = j
    BY <1>8
  <2>4. QED
    BY <1>9, <1>14, <2>1, <2>2, <2>3
<1>15. ASSUME NEW c \in D PROVE \E k \in 1..(a + b) : g[k] = c
  <2>1. PICK i \in 1..(m + 1), k \in Nat : k \in 1..Len(seqs[i]) /\ c = <<i, k>>
    BY <1>5 DEF IsCell
  <2>2. CASE i = m + 1
    <3>1. k \in 1..b
      BY <2>1, <2>2 DEF b, x
    <3>2. QED
      BY <1>8, <2>1, <2>2, <3>1
  <2>3. CASE i # m + 1
    <3>1. i \in 1..m
      BY <2>3
    <3>2. c \in C
      BY <1>4, <2>1, <3>1 DEF IsCell
    <3>3. QED
      BY <1>6, <1>7, <3>2
  <2>4. QED
    BY <2>2, <2>3
<1>16. ASSUME NEW k \in 1..(a + b) PROVE t[k] = seqs[g[k][1]][g[k][2]]
  <2>1. CASE k \in 1..a
    <3>1. g[k] = f[k] /\ t[k] = s[k] /\ s[k] = seqs[f[k][1]][f[k][2]]
      BY <1>2, <1>6, <1>7, <2>1
    <3>2. QED
      BY <3>1, Zenon
  <2>2. CASE ~(k \in 1..a)
    <3>1. PICK l \in 1..b : k = a + l
      BY <1>9, <2>2
    <3>2. t[k] = x[l] /\ g[k] = <<m + 1, l>>
      BY <1>2, <1>8, <3>1
    <3>3. g[k][1] = m + 1 /\ g[k][2] = l
      BY <3>2
    <3>4. QED
      BY <3>2, <3>3, Zenon DEF x
  <2>3. QED
    BY <2>1, <2>2
<1>17. Located(g, t, seqs, D)
  BY <1>3, <1>13, <1>14, <1>15, <1>16 DEF Located, Matches
<1>18. QED
  BY <1>17 DEF t, D, x

\* Flattening: the elements of the cells, each once.
LEMMA FlattenFacts ==
    ASSUME NEW S, NEW n \in Nat, NEW seqs \in [1..n -> Seq(S)]
    PROVE  /\ FlattenSeq(seqs) \in Seq(S)
           /\ \E f : Located(f, FlattenSeq(seqs), seqs, Cells(seqs))
<1>1. PICK p \in [0..n -> Seq(S)] : Prefixed(seqs, n, p)
  BY PrefixesExist
<1>2. FlattenSeq(seqs) = p[n] /\ p[n] \in Seq(S)
  <2>1. FlattenSeq(seqs) = p[n]
    BY <1>1, FlattenPrefix, Zenon
  <2>2. n \in 0..n
    OBVIOUS
  <2>3. QED
    BY <2>1, <2>2
<1> DEFINE I == {m \in Nat : m <= n => \E f : Located(f, p[m], seqs, CellsTo(seqs, m))}
<1>3. 0 \in I
  <2> DEFINE f == [k \in {} |-> k]
  <2>1. p[0] = <<>> /\ DOMAIN p[0] = {}
    BY <1>1 DEF Prefixed
  <2>2. CellsTo(seqs, 0) = {}
    <3>1. 0 \in 0..n
      OBVIOUS
    <3>2. \A c : c \notin CellsTo(seqs, 0)
      <4>1. ASSUME NEW c, c \in CellsTo(seqs, 0) PROVE FALSE
        <5>1. IsCell(c, seqs, 0)
          BY <3>1, <4>1, CellFacts
        <5>2. QED
          BY <5>1 DEF IsCell
      <4>2. QED
        BY <4>1
    <3>3. QED
      BY <3>2
  <2>3. f \in [{} -> {}]
    OBVIOUS
  <2> HIDE DEF f
  <2>4. Located(f, p[0], seqs, CellsTo(seqs, 0))
    BY <2>1, <2>2, <2>3 DEF Located, Matches
  <2>5. QED
    BY <2>4
<1>4. ASSUME NEW m \in Nat, m \in I PROVE m + 1 \in I
  <2> SUFFICES ASSUME m + 1 <= n
               PROVE  \E g : Located(g, p[m + 1], seqs, CellsTo(seqs, m + 1))
    OBVIOUS
  <2>1. PICK f : Located(f, p[m], seqs, CellsTo(seqs, m))
    BY <1>4
  <2>2. m + 1 \in 1..n /\ p[m] \in Seq(S)
    OBVIOUS
  <2>3. p[m + 1] = p[m] \o seqs[m + 1]
    <3>1. p[m + 1] = p[(m + 1) - 1] \o seqs[m + 1]
      BY <1>1, <2>2, Zenon DEF Prefixed
    <3>2. (m + 1) - 1 = m
      OBVIOUS
    <3>3. QED
      BY <3>1, <3>2, Zenon
  <2>4. \E g : Located(g, p[m] \o seqs[m + 1], seqs, CellsTo(seqs, m + 1))
    BY <2>1, <2>2, LocatedNext
  <2>5. QED
    BY <2>3, <2>4, Zenon
<1>5. n \in I
  <2> HIDE DEF I
  <2>1. QED
    BY <1>3, <1>4, NumbersIn
<1>6. CellsTo(seqs, n) = Cells(seqs)
  <2>1. \A c \in Cells(seqs) : c[1] <= n
    BY DEF Cells
  <2>2. QED
    BY <2>1 DEF CellsTo
<1>7. QED
  BY <1>2, <1>5, <1>6

-----------------------------------------------------------------------------
(***************************************************************************)
(* The loops that sum the groups of equal keys.                            *)
(***************************************************************************)

\* The occurrences of w in the first j pairs of s.
UpTo(w, s, j) == {x \in Units(w, s) : x[1] <= j}

\* The j-th pair adds its own to those of the pairs before it.
LEMMA UpToNext ==
    ASSUME NEW s \in Seq(Pair), NEW j \in DOMAIN s
    PROVE  /\ IsFiniteSet(UpTo(s[j][1], s, j - 1))
           /\ Cardinality(UpTo(s[j][1], s, j))
                = Cardinality(UpTo(s[j][1], s, j - 1)) + s[j][2]
           /\ Cardinality(UpTo(s[j][1], s, j - 1)) \in Nat
<1> DEFINE w == s[j][1]
           H == {j} \X (1..s[j][2])
           A == UpTo(w, s, j - 1)
           B == UpTo(w, s, j)
<1>1. s \in [DOMAIN s -> Pair] /\ IsFiniteSet(DOMAIN s) /\ DOMAIN s \subseteq Int
  BY SeqFun
<1>2. s[j][2] \in Nat
  BY <1>1, PairParts
<1>3. IsFiniteSet(A)
  <2>1. IsFiniteSet(Units(w, s))
    BY <1>1, UnitsFinite
  <2>2. A \in SUBSET Units(w, s)
    BY DEF UpTo
  <2>3. QED
    BY <2>1, <2>2, FS_Subset
<1>4. IsFiniteSet(H) /\ Cardinality(H) = s[j][2]
  <2>1. IsFiniteSet({j}) /\ Cardinality({j}) = 1
    BY FS_Singleton
  <2>2. 1 \in Int /\ s[j][2] \in Int
    BY <1>2
  <2>3. IsFiniteSet(1..s[j][2]) /\ Cardinality(1..s[j][2]) = IF 1 > s[j][2] THEN 0 ELSE s[j][2] - 1 + 1
    BY <2>2, FS_Interval
  <2>4. Cardinality(1..s[j][2]) = s[j][2]
    BY <1>2, <2>3
  <2>5. IsFiniteSet(H) /\ Cardinality(H) = 1 * s[j][2]
    BY <2>1, <2>3, <2>4, FS_Product, ZenonT(60)
  <2>6. QED
    BY <1>2, <2>5
<1>5. B = A \cup H
  <2>1. ASSUME NEW x \in B PROVE x \in A \cup H
    <3>1. x \in Units(w, s) /\ x[1] <= j
      BY DEF UpTo
    <3>2. PICK d \in DOMAIN s, k \in Nat : x = <<d, k>> /\ s[d][1] = w /\ k \in 1..s[d][2]
      BY <1>1, <3>1, InUnits
    <3>3. d \in Int /\ j \in Int /\ x[1] = d
      BY <1>1, <3>2
    <3>4. CASE d = j
      BY <3>2, <3>4
    <3>5. CASE d # j
      <4>1. x[1] <= j - 1
        BY <3>1, <3>3, <3>5
      <4>2. QED
        BY <3>1, <4>1 DEF UpTo
    <3>6. QED
      BY <3>4, <3>5
  <2>2. ASSUME NEW x \in A PROVE x \in B
    <3>1. x \in Units(w, s) /\ x[1] <= j - 1
      BY DEF UpTo
    <3>2. x[1] \in Int /\ j \in Int
      BY <1>1, <3>1, InUnits
    <3>3. x[1] <= j
      BY <3>1, <3>2
    <3>4. QED
      BY <3>1, <3>3 DEF UpTo
  <2>3. ASSUME NEW x \in H PROVE x \in B
    <3>1. PICK k \in 1..s[j][2] : x = <<j, k>>
      OBVIOUS
    <3>2. x \in Units(w, s)
      BY <1>1, <1>2, <3>1, InUnits
    <3>3. x[1] <= j
      BY <1>1, <3>1
    <3>4. QED
      BY <3>2, <3>3 DEF UpTo
  <2> HIDE DEF A, B, H
  <2>4. QED
    BY <2>1, <2>2, <2>3
<1>6. A \cap H = {}
  <2>1. ASSUME NEW x \in A, x \in H PROVE FALSE
    <3>1. x[1] <= j - 1
      BY DEF UpTo
    <3>2. x[1] = j
      BY <2>1
    <3>3. QED
      BY <1>1, <3>1, <3>2
  <2> HIDE DEF A, H
  <2>2. QED
    BY <2>1
<1> HIDE DEF A, B, H
<1>7. Cardinality(A \cup H) = Cardinality(A) + Cardinality(H) - Cardinality({})
  BY <1>3, <1>4, <1>6, FS_Union
<1>8. Cardinality({}) = 0
  BY FS_EmptySet
<1>9. Cardinality(A) \in Nat
  BY <1>3, FS_CardinalityType
<1>10. Cardinality(B) = Cardinality(A) + s[j][2]
  BY <1>2, <1>4, <1>5, <1>7, <1>8, <1>9
<1>11. QED
  BY <1>3, <1>9, <1>10 DEF A, B

\* In order, a group has nothing before its first pair and nothing after its
\* last.
LEMMA GroupBounds ==
    ASSUME NEW s \in Seq(Pair), NonDecreasing(s), NEW j \in DOMAIN s
    PROVE  /\ j = 1 \/ s[j - 1][1] # s[j][1] => UpTo(s[j][1], s, j - 1) = {}
           /\ j = Len(s) \/ s[j + 1][1] # s[j][1] => UpTo(s[j][1], s, j) = Units(s[j][1], s)
           /\ \A i \in DOMAIN s : /\ i < j /\ (j = 1 \/ s[j - 1][1] # s[j][1]) => s[i][1] < s[j][1]
                                  /\ j < i /\ (j = Len(s) \/ s[j + 1][1] # s[j][1]) => s[j][1] < s[i][1]
<1>1. s \in [DOMAIN s -> Pair] /\ DOMAIN s = 1..Len(s) /\ Len(s) \in Nat
  BY SeqFun
<1> DEFINE a == [i \in DOMAIN s |-> s[i][1]]
<1>2. a \in [1..Len(s) -> Int]
  <2>1. \A i \in DOMAIN s : s[i][1] \in Nat
    BY <1>1, PairParts
  <2>2. QED
    BY <1>1, <2>1
<1>3. \A i \in DOMAIN s : a[i] = s[i][1]
  OBVIOUS
<1>4. \A k, l \in 1..Len(s) : k < l => a[k] <= a[l]
  BY <1>1, <1>3 DEF NonDecreasing
<1> HIDE DEF a
<1>5. ASSUME NEW i \in DOMAIN s, i < j, j = 1 \/ a[j - 1] # a[j] PROVE a[i] < a[j]
  <2>1. i \in 1..Len(s) /\ j \in 1..Len(s) /\ j - 1 \in 1..Len(s) /\ j # 1
    BY <1>1, <1>5
  <2>2. a[j - 1] < a[j]
    BY <1>2, <1>4, <1>5, <2>1
  <2>3. i = j - 1 \/ a[i] <= a[j - 1]
    BY <1>1, <1>4, <1>5, <2>1
  <2>4. QED
    BY <1>2, <2>1, <2>2, <2>3
<1>6. ASSUME NEW i \in DOMAIN s, j < i, j = Len(s) \/ a[j + 1] # a[j] PROVE a[j] < a[i]
  <2>1. i \in 1..Len(s) /\ j \in 1..Len(s) /\ j + 1 \in 1..Len(s) /\ j # Len(s)
    BY <1>1, <1>6
  <2>2. a[j] < a[j + 1]
    BY <1>2, <1>4, <1>6, <2>1
  <2>3. i = j + 1 \/ a[j + 1] <= a[i]
    BY <1>1, <1>4, <1>6, <2>1
  <2>4. QED
    BY <1>2, <2>1, <2>2, <2>3
<1>7. /\ j = 1 \/ a[j - 1] # a[j] <=> j = 1 \/ s[j - 1][1] # s[j][1]
      /\ j = Len(s) \/ a[j + 1] # a[j] <=> j = Len(s) \/ s[j + 1][1] # s[j][1]
  <2>1. j = 1 \/ j - 1 \in DOMAIN s
    BY <1>1
  <2>2. j = Len(s) \/ j + 1 \in DOMAIN s
    BY <1>1
  <2>3. QED
    BY <1>3, <2>1, <2>2
<1>8. ASSUME j = 1 \/ s[j - 1][1] # s[j][1] PROVE UpTo(s[j][1], s, j - 1) = {}
  <2>1. ASSUME NEW x \in UpTo(s[j][1], s, j - 1) PROVE FALSE
    <3>1. x \in Units(s[j][1], s) /\ x[1] <= j - 1
      BY DEF UpTo
    <3>2. PICK d \in DOMAIN s, k \in Nat : x = <<d, k>> /\ s[d][1] = s[j][1]
      BY <1>1, <3>1, InUnits
    <3>3. d < j
      BY <1>1, <3>1, <3>2
    <3>4. a[d] < a[j] /\ a[d] = a[j]
      BY <1>3, <1>5, <1>7, <1>8, <3>2, <3>3
    <3>5. QED
      BY <1>1, <1>2, <3>4
  <2>2. QED
    BY <2>1
<1>9. ASSUME j = Len(s) \/ s[j + 1][1] # s[j][1]
      PROVE  UpTo(s[j][1], s, j) = Units(s[j][1], s)
  <2>1. ASSUME NEW x \in Units(s[j][1], s) PROVE x[1] <= j
    <3>1. PICK d \in DOMAIN s, k \in Nat : x = <<d, k>> /\ s[d][1] = s[j][1]
      BY <1>1, <2>1, InUnits
    <3>2. ~(j < d)
      <4>1. ASSUME j < d PROVE FALSE
        <5>1. a[j] < a[d] /\ a[d] = a[j]
          BY <1>3, <1>6, <1>7, <1>9, <3>1, <4>1
        <5>2. QED
          BY <1>1, <1>2, <5>1
      <4>2. QED
        BY <4>1
    <3>3. QED
      BY <1>1, <3>1, <3>2
  <2>2. QED
    BY <2>1 DEF UpTo
<1>10. QED
  BY <1>3, <1>5, <1>6, <1>7, <1>8, <1>9

\* o has each word of the pairs s once and in order, with its total.
Counted(o, s) ==
    /\ o \in Seq(Pair) /\ Increasing(o)
    /\ \A k \in DOMAIN o : o[k][2] = Total(o[k][1], s)
    /\ \A w : Total(w, s) > 0 => \E k \in DOMAIN o : o[k][1] = w

\* The running sum at each pair is the number of occurrences so far.
LEMMA RunningSum ==
    ASSUME NEW s \in Seq(Pair), NonDecreasing(s), NEW c,
           c = CHOOSE f : f = [j \in DOMAIN s |->
                                IF j = 1 \/ s[j - 1][1] # s[j][1] THEN s[j][2] ELSE f[j - 1] + s[j][2]]
    PROVE  \A j \in DOMAIN s : c[j] = Cardinality(UpTo(s[j][1], s, j))
<1> DEFINE D == DOMAIN s
           first(j) == j = 1 \/ s[j - 1][1] # s[j][1]
           F(f) == [j \in D |-> IF first(j) THEN s[j][2] ELSE f[j - 1] + s[j][2]]
           u(j) == Cardinality(UpTo(s[j][1], s, j))
           g == [j \in D |-> u(j)]
<1>1. D = 1..Len(s) /\ Len(s) \in Nat /\ s \in [D -> Pair]
  BY SeqFun
<1>2. \A j \in D : s[j][2] \in Nat
  BY <1>1, PairParts
<1>3. ASSUME NEW j \in D, first(j) PROVE u(j) = s[j][2]
  <2> DEFINE A == UpTo(s[j][1], s, j - 1)
  <2>1. A = {}
    BY <1>3, GroupBounds
  <2>2. u(j) = Cardinality(A) + s[j][2]
    BY UpToNext
  <2> HIDE DEF A, u
  <2>3. Cardinality(A) = 0
    BY <2>1, FS_EmptySet
  <2>4. QED
    BY <1>2, <2>2, <2>3
<1>4. ASSUME NEW j \in D, ~first(j) PROVE j - 1 \in D /\ u(j) = u(j - 1) + s[j][2]
  <2>1. j - 1 \in D
    BY <1>1, <1>4
  <2>2. u(j) = Cardinality(UpTo(s[j][1], s, j - 1)) + s[j][2]
    BY UpToNext
  <2>3. s[j - 1][1] = s[j][1]
    BY <1>4
  <2>4. Cardinality(UpTo(s[j][1], s, j - 1)) = u(j - 1)
    BY <2>3, Zenon
  <2> HIDE DEF u, first, D
  <2>5. QED
    BY <2>1, <2>2, <2>4, Zenon
<1> HIDE DEF first, u
<1>5. \A j \in D : g[j] = u(j)
  OBVIOUS
<1>6. ASSUME NEW j \in D PROVE g[j] = IF first(j) THEN s[j][2] ELSE g[j - 1] + s[j][2]
  <2> HIDE DEF g, D
  <2>1. CASE first(j)
    BY <1>3, <1>5, <2>1, Zenon
  <2>2. CASE ~first(j)
    BY <1>4, <1>5, <2>2, Zenon
  <2>3. QED
    BY <2>1, <2>2
<1>7. g = F(g)
  <2>1. g = [j \in D |-> g[j]]
    OBVIOUS
  <2> HIDE DEF g, D
  <2>2. QED
    BY <1>6, <2>1, Zenon
<1>8. c = F(c)
  <2>1. c = CHOOSE f : f = F(f)
    BY Zenon DEF first
  <2> HIDE DEF g, F, D
  <2>2. QED
    BY <1>7, <2>1, Zenon
<1> HIDE DEF g
<1>9. \A j \in D : c[j] = IF first(j) THEN s[j][2] ELSE c[j - 1] + s[j][2]
  <2> HIDE DEF D
  <2>1. QED
    BY <1>8
<1> HIDE DEF F, D
<1> DEFINE I == {m \in Nat : m \in D => c[m] = g[m]}
<1>10. 0 \in I
  BY <1>1
<1>11. ASSUME NEW m \in Nat, m \in I PROVE m + 1 \in I
  <2> SUFFICES ASSUME m + 1 \in D PROVE c[m + 1] = g[m + 1]
    OBVIOUS
  <2>1. CASE first(m + 1)
    BY <1>6, <1>9, <2>1, Zenon
  <2>2. CASE ~first(m + 1)
    <3>1. (m + 1) - 1 \in D /\ (m + 1) - 1 = m
      BY <1>4, <2>2
    <3>2. c[m] = g[m]
      BY <1>11, <3>1
    <3>3. c[m + 1] = c[m] + s[m + 1][2] /\ g[m + 1] = g[m] + s[m + 1][2]
      BY <1>6, <1>9, <2>2, <3>1, Zenon
    <3>4. QED
      BY <3>2, <3>3, Zenon
  <2>3. QED
    BY <2>1, <2>2
<1>12. Nat \subseteq I
  <2> HIDE DEF I
  <2>1. QED
    BY <1>10, <1>11, NumbersIn
<1>13. ASSUME NEW j \in D PROVE c[j] = u(j)
  <2>1. j \in Nat
    BY <1>1
  <2>2. c[j] = g[j]
    BY <1>12, <2>1
  <2>3. QED
    BY <1>5, <2>2, Zenon
<1>14. QED
  BY <1>13, Zenon DEF u, D

\* On pairs in order, the groups are the words.
LEMMA SumRunsFacts ==
    ASSUME NEW s \in Seq(Pair), NonDecreasing(s)
    PROVE  Counted(SumRuns(s), s)
<1> DEFINE D == DOMAIN s
           c == CHOOSE f : f = [j \in DOMAIN s |->
                     IF j = 1 \/ s[j - 1][1] # s[j][1] THEN s[j][2] ELSE f[j - 1] + s[j][2]]
           L == {j \in DOMAIN s : j = Len(s) \/ s[j + 1][1] # s[j][1]}
           last == GroupEnds(s)
           m == Cardinality(L)
           o == SumRuns(s)
<1>1. D = 1..Len(s) /\ Len(s) \in Nat /\ s \in [D -> Pair] /\ IsFiniteSet(D) /\ D \subseteq Int
  BY SeqFun
<1>2. \A j \in D : c[j] = Cardinality(UpTo(s[j][1], s, j))
  <2> HIDE DEF c
  <2>1. QED
    BY RunningSum, Zenon DEF c
<1>3. o = [k \in DOMAIN last |-> <<s[last[k]][1], c[last[k]]>>]
  BY Zenon DEF SumRuns
<1> HIDE DEF c, o
<1>4. m \in Nat /\ Matches(last, 1..m, L) /\ \A k, l \in 1..m : k < l => last[k] < last[l]
  <2>1. last = Ascending(L)
    BY Zenon DEF GroupEnds
  <2>2. L \in SUBSET D
    OBVIOUS
  <2> HIDE DEF L, D, last
  <2>3. IsFiniteSet(L) /\ L \subseteq Int
    BY <1>1, <2>2, FS_Subset
  <2>4. QED
    BY <2>1, <2>3, AscendingFacts
<1>5. \A j \in L : j \in D /\ (j = Len(s) \/ s[j + 1][1] # s[j][1])
  OBVIOUS
<1>6. \A j \in D : (j = Len(s) \/ s[j + 1][1] # s[j][1]) => j \in L
  OBVIOUS
<1> HIDE DEF L, last, m
<1>7. last \in [1..m -> L] /\ DOMAIN last = 1..m
  BY <1>4 DEF Matches
<1>8. ASSUME NEW k \in 1..m
      PROVE  /\ last[k] \in D /\ last[k] \in L
             /\ o[k] = <<s[last[k]][1], Total(s[last[k]][1], s)>>
             /\ o[k][1] = s[last[k]][1] /\ o[k][2] = Total(o[k][1], s)
             /\ o[k] \in Pair
  <2>1. last[k] \in L /\ last[k] \in D
    BY <1>5, <1>7
  <2>2. c[last[k]] = Total(s[last[k]][1], s)
    <3>1. UpTo(s[last[k]][1], s, last[k]) = Units(s[last[k]][1], s)
      BY <1>5, <2>1, GroupBounds
    <3>2. QED
      BY <1>2, <2>1, <3>1, Zenon DEF Total
  <2>3. o[k] = <<s[last[k]][1], c[last[k]]>>
    BY <1>3, <1>7
  <2>4. o[k] = <<s[last[k]][1], Total(s[last[k]][1], s)>>
    BY <2>2, <2>3, Zenon
  <2> DEFINE w == s[last[k]][1]
  <2>5. w \in Words
    BY <1>1, <2>1, PairParts
  <2>6. Total(w, s) \in Nat \ {0}
    <3>1. Total(w, s) \in Nat /\ Total(w, s) > 0
      BY <1>1, <2>1, UnitsFinite
    <3>2. QED
      BY <3>1
  <2> HIDE DEF w
  <2>7. o[k] = <<w, Total(w, s)>>
    BY <2>4 DEF w
  <2>8. o[k] \in Pair
    BY <2>5, <2>6, <2>7 DEF Pair
  <2>9. o[k][1] = w /\ o[k][2] = Total(w, s)
    BY <2>7
  <2>10. QED
    BY <2>1, <2>7, <2>8, <2>9 DEF w
<1>9. o \in Seq(Pair) /\ DOMAIN o = 1..m
  <2>1. DOMAIN o = 1..m /\ o = [k \in 1..m |-> o[k]]
    BY <1>3, <1>7
  <2>2. o \in [1..m -> Pair]
    BY <1>8, <2>1
  <2>3. QED
    BY <1>4, <2>2, FunSeq
<1>10. Increasing(o)
  <2>1. ASSUME NEW k \in 1..m, NEW l \in 1..m, k < l PROVE o[k][1] < o[l][1]
    <3>1. last[k] < last[l]
      BY <1>4, <2>1
    <3>2. s[last[k]][1] < s[last[l]][1]
      BY <1>5, <1>8, <3>1, GroupBounds
    <3>3. QED
      BY <1>8, <3>2
  <2>2. QED
    BY <1>9, <2>1 DEF Increasing
<1>11. ASSUME NEW w, Total(w, s) > 0 PROVE \E k \in 1..m : o[k][1] = w
  <2> DEFINE n == Len(s)
             T == {i \in 0..n : n - i \in D /\ s[n - i][1] = w}
  <2>1. PICK d \in D : s[d][1] = w
    BY <1>1, <1>11, UnitsFinite
  <2>2. n - d \in T
    BY <1>1, <2>1
  <2>3. T \subseteq Nat /\ T # {}
    BY <2>2
  <2>4. PICK i \in T : \A y \in T : i <= y
    <3> HIDE DEF T
    <3>1. QED
      BY <2>3, LeastOf
  <2> DEFINE j == n - i
  <2>5. j \in D /\ s[j][1] = w
    BY <2>4
  <2>6. j = n \/ s[j + 1][1] # s[j][1]
    <3>1. ASSUME j # n, s[j + 1][1] = w PROVE FALSE
      <4>1. i \in 0..n /\ i # 0 /\ j + 1 = n - (i - 1) /\ i - 1 \in 0..n
        BY <1>1, <3>1
      <4>2. j + 1 \in D
        BY <1>1, <2>5, <3>1
      <4>3. i - 1 \in T
        BY <3>1, <4>1, <4>2
      <4>4. QED
        BY <1>1, <2>4, <4>1, <4>3
    <3>2. QED
      BY <2>5, <3>1
  <2>7. j \in L
    BY <1>6, <2>5, <2>6
  <2>8. PICK k \in 1..m : last[k] = j
    BY <1>4, <2>7 DEF Matches
  <2>9. QED
    BY <1>8, <2>5, <2>8
<1>12. QED
  BY <1>8, <1>9, <1>10, <1>11 DEF Counted, o

LEMMA IncreasingKeys ==
    ASSUME NEW o \in Seq(Pair), Increasing(o)
    PROVE  NonDecreasing(o) /\ \A k, l \in DOMAIN o : o[k][1] = o[l][1] => k = l
<1>1. o \in [DOMAIN o -> Pair] /\ DOMAIN o \subseteq Int
  BY SeqFun
<1>2. \A k \in DOMAIN o : o[k][1] \in Int
  <2>1. \A k \in DOMAIN o : o[k][1] \in Nat
    BY <1>1, PairParts
  <2>2. QED
    BY <2>1
<1>3. \A k, l \in DOMAIN o : k < l => o[k][1] < o[l][1]
  BY DEF Increasing
<1>4. NonDecreasing(o)
  BY <1>2, <1>3 DEF NonDecreasing
<1>5. ASSUME NEW k \in DOMAIN o, NEW l \in DOMAIN o, o[k][1] = o[l][1] PROVE k = l
  <2>1. k \in Int /\ l \in Int
    BY <1>1
  <2>2. ~(k < l) /\ ~(l < k)
    BY <1>2, <1>3, <1>5
  <2>3. QED
    BY <2>1, <2>2
<1>6. QED
  BY <1>4, <1>5

\* Summing keeps the totals, as a combiner must.
LEMMA CountedTotal ==
    ASSUME NEW s \in Seq(Pair), NEW o, Counted(o, s), NEW w
    PROVE  Total(w, o) = Total(w, s)
<1>1. o \in Seq(Pair) /\ Increasing(o)
  BY DEF Counted
<1>2. /\ o \in [DOMAIN o -> Pair] /\ IsFiniteSet(DOMAIN o)
      /\ s \in [DOMAIN s -> Pair] /\ IsFiniteSet(DOMAIN s)
  BY <1>1, SeqFun
<1>3. Total(w, s) \in Nat /\ Total(w, o) \in Nat
  BY <1>2, UnitsFinite
<1>4. CASE Total(w, s) > 0
  <2>1. PICK k \in DOMAIN o : o[k][1] = w
    BY <1>4 DEF Counted
  <2>2. o[k][2] = Total(w, s)
    BY <2>1 DEF Counted
  <2> DEFINE n == o[k][2]
             H == {k} \X (1..n)
  <2>3. n \in Nat
    BY <1>3, <2>2
  <2>4. Units(w, o) = H
    <3>1. ASSUME NEW x \in Units(w, o) PROVE x \in H
      <4>1. PICK d \in DOMAIN o, i \in Nat : x = <<d, i>> /\ o[d][1] = w /\ i \in 1..o[d][2]
        BY <1>2, InUnits
      <4>2. d = k
        BY <1>1, <2>1, <4>1, IncreasingKeys
      <4>3. QED
        BY <4>1, <4>2
    <3>2. ASSUME NEW x \in H PROVE x \in Units(w, o)
      <4>1. PICK i \in 1..n : x = <<k, i>>
        OBVIOUS
      <4>2. i \in Nat
        BY <2>3
      <4>3. QED
        BY <1>2, <2>1, <4>1, <4>2, InUnits
    <3>3. QED
      BY <3>1, <3>2
  <2> HIDE DEF n
  <2>5. IsFiniteSet({k}) /\ Cardinality({k}) = 1
    BY FS_Singleton
  <2>6. IsFiniteSet(1..n) /\ Cardinality(1..n) = n
    <3>1. 1 \in Int /\ n \in Int
      BY <2>3
    <3>2. IsFiniteSet(1..n) /\ Cardinality(1..n) = IF 1 > n THEN 0 ELSE n - 1 + 1
      BY <3>1, FS_Interval
    <3>3. QED
      BY <2>3, <3>2
  <2>7. Cardinality(H) = 1 * n
    BY <2>5, <2>6, FS_Product, ZenonT(60)
  <2> HIDE DEF H
  <2>8. Total(w, o) = n
    BY <2>3, <2>4, <2>7 DEF Total
  <2>9. QED
    BY <2>2, <2>8 DEF n
<1>5. CASE ~(Total(w, s) > 0)
  <2>1. ASSUME NEW k \in DOMAIN o, o[k][1] = w PROVE FALSE
    <3>1. o[k][2] = Total(w, s)
      BY <2>1 DEF Counted
    <3>2. o[k][2] > 0
      BY <1>2, PairParts
    <3>3. QED
      BY <1>5, <3>1, <3>2
  <2>2. ~(Total(w, o) > 0)
    BY <1>2, <2>1, UnitsFinite
  <2>3. QED
    BY <1>3, <1>5, <2>2
<1>6. QED
  BY <1>4, <1>5

LEMMA CountedSame ==
    ASSUME NEW s, NEW t, NEW o, Counted(o, s), \A w : Total(w, s) = Total(w, t)
    PROVE  Counted(o, t)
BY DEF Counted

\* A partition that is sorted and reduced, combined before or not.
LEMMA Reduced ==
    ASSUME NEW s \in Seq(Pair)
    PROVE  /\ Counted(Reduce(Sorted(s)), s)
           /\ Counted(Reduce(Combine(Sorted(s))), s)
<1> DEFINE t == Sorted(s)
           c == SumRuns(t)
<1>1. t \in Seq(Pair) /\ NonDecreasing(t) /\ \A w : Total(w, t) = Total(w, s)
  BY SortedFacts
<1> HIDE DEF t
<1>2. Counted(c, t)
  BY <1>1, SumRunsFacts
<1> HIDE DEF c
<1>3. c \in Seq(Pair) /\ NonDecreasing(c)
  <2>1. c \in Seq(Pair) /\ Increasing(c)
    BY <1>2 DEF Counted
  <2>2. QED
    BY <2>1, IncreasingKeys
<1>4. Counted(SumRuns(c), c)
  BY <1>3, SumRunsFacts
<1>5. \A w : Total(w, c) = Total(w, s)
  <2>1. \A w : Total(w, c) = Total(w, t)
    BY <1>1, <1>2, CountedTotal
  <2>2. QED
    BY <1>1, <2>1, Zenon
<1>6. Counted(c, s)
  BY <1>1, <1>2, CountedSame
<1>7. Counted(SumRuns(c), s)
  BY <1>4, <1>5, CountedSame
<1>8. QED
  BY <1>6, <1>7, Zenon DEF t, c, Reduce, Combine

\* The reduced partitions, put together and sorted, count all the pairs: a word
\* is in one partition only.
LEMMA Merged ==
    ASSUME NEW s \in Seq(Pair), NEW n \in Nat \ {0}, hash \in [Words -> Nat],
           NEW r \in [1..n -> Seq(Pair)],
           \A p \in 1..n : Counted(r[p], Partitioned(s, n)[p])
    PROVE  Counted(Sorted(FlattenSeq(r)), s)
<1> DEFINE part(p) == Partitioned(s, n)[p]
           F == FlattenSeq(r)
           t == Sorted(F)
<1>1. ASSUME NEW p \in 1..n
      PROVE  /\ part(p) \in Seq(Pair)
             /\ \A k \in DOMAIN part(p) : GetPartition(part(p)[k][1], n) = p - 1
             /\ \A w : GetPartition(w, n) = p - 1 => Total(w, part(p)) = Total(w, s)
  BY PartFacts
<1> HIDE DEF part
<1>2. ASSUME NEW p \in 1..n
      PROVE  Counted(r[p], part(p)) /\ r[p] \in Seq(Pair) /\ Increasing(r[p])
  BY DEF part, Counted
<1>3. ASSUME NEW p \in 1..n, NEW j \in DOMAIN r[p]
      PROVE  GetPartition(r[p][j][1], n) = p - 1 /\ r[p][j][2] = Total(r[p][j][1], s)
  <2> DEFINE w == r[p][j][1]
  <2>1. r[p][j][2] = Total(w, part(p)) /\ r[p][j] \in Pair
    <3>1. r[p][j][2] = Total(w, part(p))
      BY <1>2 DEF Counted
    <3>2. r[p] \in Seq(Pair)
      BY <1>2
    <3>3. r[p][j] \in Pair
      BY <3>2, SeqFun
    <3>4. QED
      BY <3>1, <3>3
  <2>2. Total(w, part(p)) > 0
    <3>1. r[p][j][2] > 0
      BY <2>1, PairParts
    <3>2. QED
      BY <2>1, <3>1, Zenon
  <2> HIDE DEF w
  <2>3. part(p) \in Seq(Pair)
    BY <1>1
  <2>4. part(p) \in [DOMAIN part(p) -> Pair] /\ IsFiniteSet(DOMAIN part(p))
    BY <2>3, SeqFun
  <2>5. PICK d \in DOMAIN part(p) : part(p)[d][1] = w
    BY <2>2, <2>4, UnitsFinite, SMTT(30)
  <2>6. GetPartition(w, n) = p - 1
    BY <1>1, <2>5
  <2>7. Total(w, part(p)) = Total(w, s)
    BY <1>1, <2>6
  <2>8. QED
    BY <2>1, <2>6, <2>7 DEF w
<1>4. F \in Seq(Pair)
  BY FlattenFacts
<1>5. PICK f : Located(f, F, r, Cells(r))
  BY FlattenFacts, Zenon
<1> HIDE DEF F
<1>6. t \in Seq(Pair) /\ NonDecreasing(t)
  BY <1>4, SortedFacts
<1>7. PICK h : Matches(h, DOMAIN t, DOMAIN F) /\ \A k \in DOMAIN t : t[k] = F[h[k]]
  BY <1>4, SortedFacts
<1> HIDE DEF t
<1> DEFINE g == [k \in DOMAIN t |-> f[h[k]]]
<1>8. Matches(g, DOMAIN t, Cells(r))
  <2>1. Matches(f, DOMAIN F, Cells(r))
    BY <1>5 DEF Located
  <2>2. Matches(h, DOMAIN t, DOMAIN F)
    BY <1>7
  <2>3. QED
    BY <2>1, <2>2, Composed
<1>9. ASSUME NEW k \in DOMAIN t PROVE t[k] = r[g[k][1]][g[k][2]]
  <2>1. h[k] \in DOMAIN F /\ t[k] = F[h[k]]
    BY <1>7 DEF Matches
  <2>2. F[h[k]] = r[f[h[k]][1]][f[h[k]][2]]
    BY <1>5, <2>1 DEF Located
  <2>3. g[k] = f[h[k]]
    OBVIOUS
  <2> HIDE DEF g
  <2>4. QED
    BY <2>1, <2>2, <2>3, Zenon
<1> HIDE DEF g
<1>10. ASSUME NEW k \in DOMAIN t
       PROVE  /\ g[k] \in Cells(r) /\ g[k][1] \in 1..n /\ g[k][2] \in DOMAIN r[g[k][1]]
              /\ g[k] = <<g[k][1], g[k][2]>>
  <2>1. g[k] \in Cells(r)
    BY <1>8 DEF Matches
  <2>2. QED
    BY <2>1 DEF Cells
<1>11. Increasing(t)
  <2>1. ASSUME NEW k \in DOMAIN t, NEW l \in DOMAIN t, t[k][1] = t[l][1] PROVE k = l
    <3> DEFINE p == g[k][1]
               q == g[l][1]
               i == g[k][2]
               j == g[l][2]
    <3>1. /\ p \in 1..n /\ i \in DOMAIN r[p] /\ g[k] = <<p, i>> /\ t[k] = r[p][i]
          /\ q \in 1..n /\ j \in DOMAIN r[q] /\ g[l] = <<q, j>> /\ t[l] = r[q][j]
      BY <1>9, <1>10
    <3> HIDE DEF p, q, i, j
    <3>2. p = q
      <4>1. GetPartition(t[k][1], n) = p - 1 /\ GetPartition(t[l][1], n) = q - 1
        BY <1>3, <3>1
      <4>2. p - 1 = q - 1
        BY <2>1, <4>1, Zenon
      <4>3. QED
        BY <3>1, <4>2
    <3>3. i = j
      <4>1. r[p] \in Seq(Pair) /\ Increasing(r[p])
        BY <1>2, <3>1
      <4>2. r[p][i][1] = r[p][j][1] /\ i \in DOMAIN r[p] /\ j \in DOMAIN r[p]
        BY <2>1, <3>1, <3>2, Zenon
      <4>3. QED
        BY <4>1, <4>2, IncreasingKeys
    <3>4. g[k] = g[l]
      BY <3>1, <3>2, <3>3, Zenon
    <3>5. QED
      BY <1>8, <3>4 DEF Matches
  <2>2. t \in [DOMAIN t -> Pair] /\ DOMAIN t \subseteq Int
    BY <1>6, SeqFun
  <2>3. \A k \in DOMAIN t : t[k][1] \in Nat
    BY <2>2, PairParts
  <2>4. ASSUME NEW k \in DOMAIN t, NEW l \in DOMAIN t, k < l PROVE t[k][1] < t[l][1]
    <3>1. t[k][1] <= t[l][1]
      BY <1>6, <2>4 DEF NonDecreasing
    <3>2. t[k][1] # t[l][1]
      <4>1. k # l
        BY <2>2, <2>4
      <4>2. QED
        BY <2>1, <4>1
    <3>3. t[k][1] \in Nat /\ t[l][1] \in Nat
      BY <2>3
    <3>4. QED
      BY <3>1, <3>2, <3>3
  <2>5. QED
    BY <2>4 DEF Increasing
<1>12. \A k \in DOMAIN t : t[k][2] = Total(t[k][1], s)
  BY <1>3, <1>9, <1>10
<1>13. ASSUME NEW w, Total(w, s) > 0 PROVE \E k \in DOMAIN t : t[k][1] = w
  <2>1. w \in Words
    <3>1. s \in [DOMAIN s -> Pair] /\ IsFiniteSet(DOMAIN s)
      BY SeqFun
    <3>2. PICK d \in DOMAIN s : s[d][1] = w
      BY <1>13, <3>1, UnitsFinite
    <3>3. QED
      BY <3>1, <3>2, PairParts
  <2> DEFINE p == GetPartition(w, n) + 1
  <2>2. p \in 1..n /\ GetPartition(w, n) = p - 1
    <3>1. hash[w] \in Nat
      BY <2>1
    <3>2. hash[w] % n \in 0..(n - 1)
      BY <3>1
    <3>3. QED
      BY <3>2 DEF GetPartition
  <2> HIDE DEF p
  <2>3. Total(w, part(p)) > 0
    BY <1>1, <1>13, <2>2
  <2>4. PICK j \in DOMAIN r[p] : r[p][j][1] = w
    BY <1>2, <2>2, <2>3 DEF Counted
  <2>5. r[p] \in Seq(Pair)
    BY <1>2, <2>2
  <2>6. DOMAIN r[p] \subseteq Nat
    BY <2>5, SeqFun
  <2>7. <<p, j>> \in Cells(r)
    BY <2>2, <2>4, <2>6 DEF Cells
  <2>8. PICK k \in DOMAIN t : g[k] = <<p, j>>
    BY <1>8, <2>7 DEF Matches
  <2>9. t[k] = r[p][j]
    BY <1>9, <2>8
  <2>10. QED
    BY <2>4, <2>9
<1>14. QED
  BY <1>6, <1>11, <1>12, <1>13 DEF Counted, t, F

-----------------------------------------------------------------------------
(***************************************************************************)
(* The lines of a text.                                                    *)
(***************************************************************************)

\* Where line i stops, and the position before its first.
StopOf(s, i) == Ascending(LineEnds(s))[i]

PastOf(s, i) == IF i = 1 THEN 0 ELSE StopOf(s, i - 1)

LEMMA LineEndsFacts ==
    ASSUME NEW s \in Seq(Words \cup {NL})
    PROVE  /\ IsFiniteSet(LineEnds(s)) /\ LineEnds(s) \subseteq 1..(Len(s) + 1)
           /\ \A j \in DOMAIN s : j \in LineEnds(s) <=> s[j] \notin Words
           /\ \A j \in DOMAIN s : \E e \in LineEnds(s) : j <= e
<1>1. Len(s) \in Nat /\ DOMAIN s = 1..Len(s) /\ s \in [1..Len(s) -> Words \cup {NL}]
  BY SeqFun
<1> DEFINE A == {i \in DOMAIN s : s[i] = NL}
           B == IF s # <<>> /\ Last(s) # NL THEN {Len(s) + 1} ELSE {}
<1>2. LineEnds(s) = A \cup B
  BY DEF LineEnds
<1>3. A \subseteq 1..(Len(s) + 1)
  BY <1>1
<1>4. B \subseteq {Len(s) + 1} /\ Len(s) + 1 \in 1..(Len(s) + 1)
  BY <1>1
<1>5. \A j \in DOMAIN s : s[j] = NL <=> s[j] \notin Words
  BY <1>1, MapReduceAssumption
<1>6. \A j \in DOMAIN s : j \notin B
  BY <1>1, <1>4
<1>7. ASSUME NEW j \in DOMAIN s PROVE \E e \in LineEnds(s) : j <= e
  <2>1. s # <<>> /\ Len(s) \in DOMAIN s /\ j <= Len(s)
    BY <1>1
  <2>2. CASE s[Len(s)] = NL
    <3>1. Len(s) \in LineEnds(s)
      BY <1>2, <2>1, <2>2
    <3>2. QED
      BY <2>1, <3>1
  <2>3. CASE s[Len(s)] # NL
    <3>1. Len(s) + 1 \in LineEnds(s)
      BY <1>2, <2>1, <2>3 DEF Last
    <3>2. j <= Len(s) + 1
      BY <1>1, <2>1
    <3>3. QED
      BY <3>1, <3>2
  <2>4. QED
    BY <2>2, <2>3
<1>8. \A j \in DOMAIN s : j \in A <=> s[j] = NL
  OBVIOUS
<1> HIDE DEF A, B
<1>9. LineEnds(s) \in SUBSET (1..(Len(s) + 1))
  BY <1>2, <1>3, <1>4
<1>10. IsFiniteSet(1..(Len(s) + 1))
  <2>1. 1 \in Int /\ Len(s) + 1 \in Int
    BY <1>1
  <2>2. QED
    BY <2>1, FS_Interval
<1>11. IsFiniteSet(LineEnds(s))
  BY <1>9, <1>10, FS_Subset
<1>12. \A j \in DOMAIN s : j \in LineEnds(s) <=> s[j] \notin Words
  BY <1>2, <1>5, <1>6, <1>8
<1>13. QED
  BY <1>7, <1>9, <1>11, <1>12

\* The lines are apart, and every word of the text is in one of them.
LEMMA LineBounds ==
    ASSUME NEW s \in Seq(Words \cup {NL}), NEW n, n = Cardinality(LineEnds(s))
    PROVE  /\ n \in Nat /\ DOMAIN Ascending(LineEnds(s)) = 1..n
           /\ \A i \in 1..n : /\ StopOf(s, i) \in 1..(Len(s) + 1)
                              /\ PastOf(s, i) \in 0..Len(s)
                              /\ PastOf(s, i) < StopOf(s, i)
           /\ \A i \in 1..n : \A j \in DOMAIN s :
                PastOf(s, i) < j /\ j < StopOf(s, i) => s[j] \in Words
           /\ \A i, l \in 1..n : i < l => StopOf(s, i) <= PastOf(s, l)
           /\ \A j \in DOMAIN s : s[j] \in Words =>
                \E i \in 1..n : PastOf(s, i) < j /\ j < StopOf(s, i)
<1> DEFINE E == LineEnds(s)
           a == Ascending(E)
           N == Len(s)
<1>1. N \in Nat /\ DOMAIN s = 1..N
  BY SeqFun
<1>2. /\ IsFiniteSet(E) /\ E \subseteq 1..(N + 1) /\ E \subseteq Int
      /\ \A j \in DOMAIN s : j \in E <=> s[j] \notin Words
      /\ \A j \in DOMAIN s : \E e \in E : j <= e
  <2>1. /\ IsFiniteSet(E) /\ E \subseteq 1..(N + 1)
        /\ \A j \in DOMAIN s : j \in E <=> s[j] \notin Words
        /\ \A j \in DOMAIN s : \E e \in E : j <= e
    BY LineEndsFacts
  <2>2. 1..(N + 1) \subseteq Int
    OBVIOUS
  <2> HIDE DEF E, N
  <2>3. QED
    BY <2>1, <2>2, Zenon
<1>3. /\ n \in Nat /\ Matches(a, 1..n, E)
      /\ \A k, l \in 1..n : k < l => a[k] < a[l]
  <2>1. n = Cardinality(E)
    OBVIOUS
  <2> HIDE DEF E
  <2>2. QED
    BY <1>2, <2>1, AscendingFacts
<1>4. \A i \in 1..n : StopOf(s, i) = a[i]
  BY DEF StopOf
<1>5. \A i \in 1..n : PastOf(s, i) = IF i = 1 THEN 0 ELSE a[i - 1]
  BY DEF PastOf, StopOf
<1> HIDE DEF a, E, N
<1>6. a \in [1..n -> E] /\ (\A e \in E : \E i \in 1..n : a[i] = e) /\ DOMAIN a = 1..n
  BY <1>3 DEF Matches
<1>7. \A i \in 1..n : a[i] \in 1..(N + 1) /\ a[i] \in E
  BY <1>2, <1>6
<1>8. ASSUME NEW i \in 1..n
      PROVE  PastOf(s, i) \in 0..N /\ PastOf(s, i) < a[i]
  <2>1. CASE i = 1
    BY <1>1, <1>5, <1>7, <2>1
  <2>2. CASE i # 1
    <3>1. i - 1 \in 1..n /\ i - 1 < i /\ PastOf(s, i) = a[i - 1]
      BY <1>3, <1>5, <2>2
    <3>2. a[i - 1] < a[i]
      BY <1>3, <3>1
    <3>3. a[i - 1] \in 1..(N + 1) /\ a[i] \in 1..(N + 1)
      BY <1>7, <3>1
    <3>4. QED
      BY <1>1, <3>1, <3>2, <3>3
  <2>3. QED
    BY <2>1, <2>2
<1>9. ASSUME NEW i \in 1..n, NEW l \in 1..n, i < l PROVE a[i] <= PastOf(s, l)
  <2>1. l - 1 \in 1..n /\ PastOf(s, l) = a[l - 1] /\ (i = l - 1 \/ i < l - 1)
    BY <1>3, <1>5, <1>9
  <2>2. a[i] \in Int /\ a[l - 1] \in Int
    BY <1>1, <1>7, <2>1
  <2>3. i < l - 1 => a[i] < a[l - 1]
    BY <1>3, <2>1
  <2>4. QED
    BY <2>1, <2>2, <2>3
<1>10. ASSUME NEW i \in 1..n, NEW j \in DOMAIN s, PastOf(s, i) < j, j < a[i]
       PROVE  s[j] \in Words
  <2> SUFFICES ASSUME s[j] \notin Words PROVE FALSE
    OBVIOUS
  <2>1. PICK l \in 1..n : a[l] = j
    BY <1>2, <1>6
  <2>2. l = i \/ l < i \/ i < l
    BY <1>3
  <2>3. a[i] \in Int /\ PastOf(s, i) \in Int /\ j \in Int
    BY <1>1, <1>7, <1>8
  <2>4. ~(l < i)
    <3>1. ASSUME l < i PROVE FALSE
      <4>1. j <= PastOf(s, i)
        BY <1>9, <2>1, <3>1
      <4>2. QED
        BY <1>10, <2>3, <4>1
    <3>2. QED
      BY <3>1
  <2>5. ~(i < l)
    <3>1. ASSUME i < l PROVE FALSE
      <4>1. a[i] < j
        BY <1>3, <2>1, <3>1
      <4>2. QED
        BY <1>10, <2>3, <4>1
    <3>2. QED
      BY <3>1
  <2>6. a[i] = j
    BY <2>1, <2>2, <2>4, <2>5
  <2>7. QED
    BY <1>10, <2>3, <2>6
<1>11. ASSUME NEW j \in DOMAIN s, s[j] \in Words
       PROVE  \E i \in 1..n : PastOf(s, i) < j /\ j < a[i]
  <2> DEFINE T == {i \in 1..n : j <= a[i]}
  <2>1. T \subseteq Nat /\ T # {}
    BY <1>2, <1>3, <1>6
  <2>2. PICK i \in T : \A y \in T : i <= y
    <3> HIDE DEF T
    <3>1. QED
      BY <2>1, LeastOf
  <2>3. i \in 1..n /\ j <= a[i]
    OBVIOUS
  <2>4. a[i] # j /\ a[i] \in Int /\ j \in Int /\ j > 0
    <3>1. a[i] \in E
      BY <1>7, <2>3
    <3>2. j \notin E
      BY <1>2, <1>11
    <3>3. a[i] \in Int /\ j \in Int /\ j > 0
      BY <1>1, <1>7, <2>3
    <3>4. QED
      BY <3>1, <3>2, <3>3
  <2>5. PastOf(s, i) < j
    <3>1. CASE i = 1
      BY <1>5, <2>3, <2>4, <3>1
    <3>2. CASE i # 1
      <4>1. i - 1 \in 1..n /\ PastOf(s, i) = a[i - 1]
        BY <1>3, <1>5, <2>3, <3>2
      <4>2. i - 1 \notin T
        BY <1>3, <2>2, <2>3
      <4>3. ~(j <= a[i - 1]) /\ a[i - 1] \in Int
        BY <1>1, <1>7, <4>1, <4>2
      <4>4. QED
        BY <2>4, <4>1, <4>3
    <3>3. QED
      BY <3>1, <3>2
  <2>6. j < a[i]
    BY <2>3, <2>4
  <2>7. QED
    BY <2>3, <2>5, <2>6
<1>12. /\ \A i \in 1..n : /\ StopOf(s, i) \in 1..(N + 1)
                          /\ PastOf(s, i) \in 0..N
                          /\ PastOf(s, i) < StopOf(s, i)
       /\ \A i, l \in 1..n : i < l => StopOf(s, i) <= PastOf(s, l)
  BY <1>4, <1>7, <1>8, <1>9
<1>13. /\ \A i \in 1..n : \A j \in DOMAIN s :
            PastOf(s, i) < j /\ j < StopOf(s, i) => s[j] \in Words
       /\ \A j \in DOMAIN s : s[j] \in Words =>
            \E i \in 1..n : PastOf(s, i) < j /\ j < StopOf(s, i)
  BY <1>4, <1>10, <1>11
<1>14. QED
  BY <1>3, <1>6, <1>12, <1>13 DEF a, E, N

\* What the mapper makes of line i, and where in the text each pair comes from.
LEMMA LineFacts ==
    ASSUME NEW s \in Seq(Words \cup {NL}), NEW n, n = Cardinality(LineEnds(s)), NEW i \in 1..n
    PROVE  /\ Map(Records(s)[i]) \in Seq(Pair)
           /\ Len(Map(Records(s)[i])) = (StopOf(s, i) - PastOf(s, i)) - 1
           /\ (StopOf(s, i) - PastOf(s, i)) - 1 \in Nat
           /\ \A k \in 1..((StopOf(s, i) - PastOf(s, i)) - 1) :
                /\ PastOf(s, i) + k \in DOMAIN s /\ s[PastOf(s, i) + k] \in Words
                /\ Map(Records(s)[i])[k] = <<s[PastOf(s, i) + k], 1>>
<1> DEFINE p == PastOf(s, i)
           m == (StopOf(s, i) - p) - 1
           r == Records(s)[i]
<1>1. Len(s) \in Nat /\ DOMAIN s = 1..Len(s)
  BY SeqFun
<1>2. /\ n \in Nat /\ DOMAIN Ascending(LineEnds(s)) = 1..n
      /\ StopOf(s, i) \in 1..(Len(s) + 1) /\ p \in 0..Len(s) /\ p < StopOf(s, i)
      /\ \A j \in DOMAIN s : p < j /\ j < StopOf(s, i) => s[j] \in Words
  BY LineBounds
<1>3. r = SubSeq(s, p + 1, p + m)
  <2>1. r = SubSeq(s, IF i = 1 THEN 1 ELSE StopOf(s, i - 1) + 1, StopOf(s, i) - 1)
    BY <1>2, Zenon DEF Records, StopOf
  <2>2. (IF i = 1 THEN 1 ELSE StopOf(s, i - 1) + 1) = p + 1
    BY DEF PastOf
  <2> DEFINE q == StopOf(s, i)
  <2> HIDE DEF p, q
  <2>3. q - 1 = p + ((q - p) - 1)
    BY <1>1, <1>2 DEF q
  <2>4. StopOf(s, i) - 1 = p + m
    BY <2>3 DEF q
  <2> HIDE DEF m, r
  <2>5. QED
    BY <2>1, <2>2, <2>4, Zenon
<1> DEFINE q == StopOf(s, i)
<1>4. m \in Nat /\ p \in Nat /\ p + m <= Len(s)
  <2> HIDE DEF p, q
  <2>1. (q - p) - 1 \in Nat /\ p \in Nat /\ p + ((q - p) - 1) <= Len(s)
    BY <1>1, <1>2 DEF q
  <2>2. QED
    BY <2>1 DEF q
<1>5. \A k \in 1..m : p + k \in DOMAIN s /\ p < p + k /\ p + k < StopOf(s, i)
  <2> HIDE DEF p, q
  <2>1. \A k \in 1..((q - p) - 1) : p + k \in 1..Len(s) /\ p < p + k /\ p + k < q
    BY <1>1, <1>2 DEF q
  <2>2. QED
    BY <1>1, <2>1 DEF q
<1> HIDE DEF p, m, r, q
<1>6. r \in Seq(Words \cup {NL}) /\ Len(r) = m /\ \A k \in 1..m : r[k] = s[p + k]
  <2>1. /\ SubSeq(s, p + 1, p + m) \in Seq(Words \cup {NL})
        /\ Len(SubSeq(s, p + 1, p + m)) = m
        /\ \A k \in 1..m : SubSeq(s, p + 1, p + m)[k] = s[p + k]
    BY <1>4, SubSeqFacts, ZenonT(60)
  <2>2. QED
    BY <1>3, <2>1, ZenonT(60)
<1>7. DOMAIN r = 1..m
  BY <1>6, SeqFun
<1>8. \A k \in 1..m : p + k \in DOMAIN s /\ s[p + k] \in Words
  BY <1>2, <1>5
<1>9. Map(r) = [k \in 1..m |-> <<r[k], 1>>]
  BY <1>7 DEF Map
<1>10. \A k \in 1..m : Map(r)[k] = <<s[p + k], 1>> /\ Map(r)[k] \in Pair
  BY <1>6, <1>8, <1>9 DEF Pair
<1>11. Map(r) \in [1..m -> Pair]
  BY <1>9, <1>10
<1>12. Map(r) \in Seq(Pair) /\ Len(Map(r)) = m
  BY <1>4, <1>11, FunSeq
<1>13. QED
  BY <1>4, <1>8, <1>10, <1>12 DEF p, m, r

\* The pairs of a file are its words, one for each occurrence.
LEMMA CollectedFacts ==
    ASSUME NEW s \in Seq(Words \cup {NL})
    PROVE  LET rs == Records(s)
               c == FlattenSeq([i \in DOMAIN rs |-> Map(rs[i])])
           IN  /\ c \in Seq(Pair)
               /\ \A w \in Words : Total(w, c) = Cardinality({i \in DOMAIN s : s[i] = w})
<1> DEFINE rs == Records(s)
           seqs == [i \in DOMAIN rs |-> Map(rs[i])]
           c == FlattenSeq(seqs)
           P == {j \in DOMAIN s : s[j] \in Words}
           u == [j \in P |-> <<s[j], 1>>]
<1>1. PICK n : n = Cardinality(LineEnds(s))
  OBVIOUS
<1> DEFINE len(i) == (StopOf(s, i) - PastOf(s, i)) - 1
<1>2. /\ n \in Nat /\ DOMAIN Ascending(LineEnds(s)) = 1..n
      /\ \A i \in 1..n : /\ StopOf(s, i) \in 1..(Len(s) + 1)
                         /\ PastOf(s, i) \in 0..Len(s)
      /\ \A i, l \in 1..n : i < l => StopOf(s, i) <= PastOf(s, l)
      /\ \A j \in DOMAIN s : s[j] \in Words =>
           \E i \in 1..n : PastOf(s, i) < j /\ j < StopOf(s, i)
  BY <1>1, LineBounds
<1>3. ASSUME NEW i \in 1..n
      PROVE  /\ Map(rs[i]) \in Seq(Pair) /\ Len(Map(rs[i])) = len(i) /\ len(i) \in Nat
             /\ \A k \in 1..len(i) :
                  /\ PastOf(s, i) + k \in P
                  /\ Map(rs[i])[k] = <<s[PastOf(s, i) + k], 1>>
  <2>1. /\ Map(rs[i]) \in Seq(Pair) /\ Len(Map(rs[i])) = len(i) /\ len(i) \in Nat
        /\ \A k \in 1..len(i) :
             /\ PastOf(s, i) + k \in DOMAIN s /\ s[PastOf(s, i) + k] \in Words
             /\ Map(rs[i])[k] = <<s[PastOf(s, i) + k], 1>>
    BY <1>1, LineFacts
  <2> HIDE DEF rs, len
  <2>2. QED
    BY <2>1
<1>4. DOMAIN rs = 1..n
  BY <1>2 DEF Records
<1> HIDE DEF rs
<1>5. seqs \in [1..n -> Seq(Pair)] /\ \A i \in 1..n : seqs[i] = Map(rs[i])
  BY <1>3, <1>4
<1>6. Len(s) \in Nat /\ DOMAIN s = 1..Len(s) /\ IsFiniteSet(DOMAIN s)
  BY SeqFun
<1>7. P \in SUBSET DOMAIN s /\ u \in [P -> Pair] /\ \A j \in P : u[j] = <<s[j], 1>>
  <2>1. \A j \in P : <<s[j], 1>> \in Pair
    BY DEF Pair
  <2>2. QED
    BY <2>1
<1>8. \A j \in DOMAIN s : s[j] \in Words => j \in P
  OBVIOUS
<1>9. \A j \in P : s[j] \in Words /\ j \in DOMAIN s
  OBVIOUS
<1> HIDE DEF P, u, seqs, len
<1>10. c \in Seq(Pair)
  BY <1>2, <1>5, FlattenFacts
<1>11. PICK f : Located(f, c, seqs, Cells(seqs))
  BY <1>2, <1>5, FlattenFacts, Zenon
<1> HIDE DEF c
<1> DEFINE C == Cells(seqs)
           pos == [x \in C |-> PastOf(s, x[1]) + x[2]]
<1>12. ASSUME NEW x \in C
       PROVE  /\ x[1] \in 1..n /\ x[2] \in 1..len(x[1]) /\ x = <<x[1], x[2]>>
              /\ pos[x] = PastOf(s, x[1]) + x[2] /\ pos[x] \in P
              /\ seqs[x[1]][x[2]] = u[pos[x]]
  <2>1. x[1] \in DOMAIN seqs /\ x[2] \in DOMAIN seqs[x[1]] /\ x = <<x[1], x[2]>>
    BY DEF Cells
  <2>2. x[1] \in 1..n
    BY <1>5, <2>1
  <2>3. seqs[x[1]] = Map(rs[x[1]]) /\ seqs[x[1]] \in Seq(Pair)
    BY <1>5, <2>2
  <2>4. DOMAIN seqs[x[1]] = 1..Len(seqs[x[1]])
    BY <2>3, SeqFun
  <2>5. Len(seqs[x[1]]) = len(x[1])
    BY <1>3, <2>2, <2>3, Zenon
  <2>6. x[2] \in 1..len(x[1])
    BY <2>1, <2>4, <2>5, Zenon
  <2>7. pos[x] = PastOf(s, x[1]) + x[2]
    OBVIOUS
  <2> HIDE DEF pos, C
  <2>8. pos[x] \in P /\ seqs[x[1]][x[2]] = <<s[pos[x]], 1>>
    <3>1. PastOf(s, x[1]) + x[2] \in P /\ Map(rs[x[1]])[x[2]] = <<s[PastOf(s, x[1]) + x[2]], 1>>
      BY <1>3, <2>2, <2>6
    <3>2. QED
      BY <2>3, <2>7, <3>1, Zenon
  <2>9. u[pos[x]] = <<s[pos[x]], 1>>
    BY <1>7, <2>8
  <2>10. QED
    BY <2>1, <2>2, <2>6, <2>7, <2>8, <2>9, Zenon
<1>13. pos \in [C -> P]
  BY <1>12
<1>14. ASSUME NEW x \in C, NEW y \in C, pos[x] = pos[y] PROVE x = y
  <2> DEFINE a == x[1]
             b == y[1]
             k == x[2]
             l == y[2]
  <2>1. /\ a \in 1..n /\ k \in 1..len(a) /\ x = <<a, k>> /\ pos[x] = PastOf(s, a) + k
        /\ b \in 1..n /\ l \in 1..len(b) /\ y = <<b, l>> /\ pos[y] = PastOf(s, b) + l
    <3> HIDE DEF pos, C
    <3>1. QED
      BY <1>12
  <2> HIDE DEF a, b, k, l, pos, C
  <2>2. /\ PastOf(s, a) \in Int /\ PastOf(s, b) \in Int
        /\ StopOf(s, a) \in Int /\ StopOf(s, b) \in Int
    BY <1>2, <1>6, <2>1
  <2>3. /\ k \in Int /\ k > 0 /\ PastOf(s, a) + k < StopOf(s, a)
        /\ l \in Int /\ l > 0 /\ PastOf(s, b) + l < StopOf(s, b)
    BY <2>1, <2>2, SMTT(30) DEF len
  <2>4. PastOf(s, a) + k = PastOf(s, b) + l
    BY <1>14, <2>1, Zenon
  <2>5. ~(a < b)
    <3>1. ASSUME a < b PROVE FALSE
      <4>1. StopOf(s, a) <= PastOf(s, b)
        BY <1>2, <2>1, <3>1
      <4>2. QED
        BY <2>2, <2>3, <2>4, <4>1
    <3>2. QED
      BY <3>1
  <2>6. ~(b < a)
    <3>1. ASSUME b < a PROVE FALSE
      <4>1. StopOf(s, b) <= PastOf(s, a)
        BY <1>2, <2>1, <3>1
      <4>2. QED
        BY <2>2, <2>3, <2>4, <4>1
    <3>2. QED
      BY <3>1
  <2>7. a = b
    BY <1>2, <2>1, <2>5, <2>6
  <2>8. k = l
    BY <2>2, <2>3, <2>4, <2>7
  <2>9. QED
    BY <2>1, <2>7, <2>8, Zenon
<1>15. ASSUME NEW j \in P PROVE \E x \in C : pos[x] = j
  <2>1. PICK i \in 1..n : PastOf(s, i) < j /\ j < StopOf(s, i)
    BY <1>2, <1>9
  <2> DEFINE k == j - PastOf(s, i)
  <2>2. PastOf(s, i) \in Int /\ StopOf(s, i) \in Int /\ j \in Int
    BY <1>2, <1>6, <1>9
  <2>3. k \in 1..len(i) /\ PastOf(s, i) + k = j /\ k \in Nat
    BY <2>1, <2>2 DEF len
  <2> HIDE DEF k
  <2>4. seqs[i] \in Seq(Pair) /\ Len(seqs[i]) = len(i)
    BY <1>3, <1>5
  <2>5. DOMAIN seqs[i] = 1..len(i)
    BY <2>4, SeqFun
  <2>6. <<i, k>> \in C
    BY <1>5, <2>3, <2>5 DEF Cells
  <2>7. pos[<<i, k>>] = j
    BY <2>3, <2>6
  <2>8. QED
    BY <2>6, <2>7
<1>16. Matches(pos, C, P)
  <2> HIDE DEF pos, C
  <2>1. QED
    BY <1>13, <1>14, <1>15 DEF Matches
<1> HIDE DEF pos, C
<1> DEFINE h == [k \in DOMAIN c |-> pos[f[k]]]
<1>17. Matches(h, DOMAIN c, P)
  <2>1. Matches(f, DOMAIN c, C)
    BY <1>11 DEF Located, C
  <2>2. QED
    BY <1>16, <2>1, Composed
<1>18. \A k \in DOMAIN c : c[k] = u[h[k]]
  <2>1. ASSUME NEW k \in DOMAIN c PROVE c[k] = u[h[k]]
    <3>1. c[k] = seqs[f[k][1]][f[k][2]] /\ f[k] \in C
      BY <1>11 DEF Located, Matches, C
    <3>2. seqs[f[k][1]][f[k][2]] = u[pos[f[k]]]
      BY <1>12, <3>1
    <3>3. h[k] = pos[f[k]]
      OBVIOUS
    <3> HIDE DEF h
    <3>4. QED
      BY <3>1, <3>2, <3>3, Zenon
  <2>2. QED
    BY <2>1
<1> HIDE DEF h
<1>19. c \in [DOMAIN c -> Pair] /\ IsFiniteSet(DOMAIN c)
  BY <1>10, SeqFun
<1>20. ASSUME NEW w \in Words PROVE Total(w, c) = Cardinality({i \in DOMAIN s : s[i] = w})
  <2> DEFINE O == {i \in DOMAIN s : s[i] = w}
             g == [i \in O |-> <<i, 1>>]
             U == Units(w, u)
  <2>1. Total(w, c) = Total(w, u)
    <3>1. u \in [P -> Pair]
      BY <1>7
    <3>2. QED
      BY <1>10, <1>17, <1>18, <3>1, MovedSeq
  <2>2. IsFiniteSet(O)
    BY <1>6, FS_Subset
  <2>3. ASSUME NEW i \in O PROVE g[i] \in U
    <3>1. i \in P /\ u[i] = <<w, 1>>
      BY <1>7, <1>8
    <3>2. u[i][1] = w /\ 1 \in 1..u[i][2] /\ 1 \in Nat
      BY <3>1
    <3>3. g[i] = <<i, 1>>
      BY <2>3
    <3>4. \E d \in P, k \in Nat : <<i, 1>> = <<d, k>> /\ u[d][1] = w /\ k \in 1..u[d][2]
      BY <3>1, <3>2, ZenonT(60)
    <3>5. <<i, 1>> \in U
      BY <1>7, <3>4, InUnits
    <3>6. QED
      BY <3>3, <3>5
  <2>4. ASSUME NEW x \in U PROVE \E i \in O : g[i] = x
    <3>1. PICK d \in P, k \in Nat : x = <<d, k>> /\ u[d][1] = w /\ k \in 1..u[d][2]
      BY <1>7, InUnits
    <3>2. u[d] = <<s[d], 1>> /\ d \in DOMAIN s
      BY <1>7, <1>9
    <3>3. s[d] = w /\ k = 1
      BY <3>1, <3>2
    <3>4. QED
      BY <3>1, <3>2, <3>3
  <2>5. \A i, j \in O : g[i] = g[j] => i = j
    OBVIOUS
  <2>6. g \in [O -> U]
    BY <2>3
  <2> HIDE DEF O, g, U
  <2>7. Matches(g, O, U)
    BY <2>4, <2>5, <2>6 DEF Matches
  <2>8. Cardinality(O) = Cardinality(U)
    BY <2>2, <2>7, MatchedSets
  <2>9. QED
    BY <2>1, <2>8, Zenon DEF Total, O, U
<1>21. QED
  BY <1>10, <1>20, Zenon DEF c, seqs, rs

\* n times the same pairs.
LEMMA CopiesFacts ==
    ASSUME NEW m \in Seq(Pair), NEW n \in Nat
    PROVE  /\ FlattenSeq([i \in 1..n |-> m]) \in Seq(Pair)
           /\ \A w : Total(w, FlattenSeq([i \in 1..n |-> m])) = n * Total(w, m)
<1> DEFINE seqs == [i \in 1..n |-> m]
           F == FlattenSeq(seqs)
           C == Cells(seqs)
           v == [x \in C |-> m[x[2]]]
<1>1. seqs \in [1..n -> Seq(Pair)] /\ \A i \in 1..n : seqs[i] = m
  OBVIOUS
<1>2. m \in [DOMAIN m -> Pair] /\ IsFiniteSet(DOMAIN m) /\ DOMAIN m \subseteq Nat
  BY SeqFun
<1>3. DOMAIN seqs = 1..n
  OBVIOUS
<1> HIDE DEF seqs
<1>4. F \in Seq(Pair)
  BY <1>1, FlattenFacts
<1>5. PICK f : Located(f, F, seqs, C)
  BY <1>1, FlattenFacts, Zenon
<1> HIDE DEF F
<1>6. \A x \in C : /\ x[1] \in 1..n /\ x[2] \in DOMAIN m /\ x = <<x[1], x[2]>>
                   /\ seqs[x[1]][x[2]] = m[x[2]]
  BY <1>1, <1>3 DEF Cells
<1>7. \A i \in 1..n, k \in DOMAIN m : <<i, k>> \in C
  BY <1>1, <1>2, <1>3 DEF Cells
<1> HIDE DEF C
<1>8. v \in [C -> Pair] /\ \A x \in C : v[x] = m[x[2]]
  BY <1>2, <1>6
<1> HIDE DEF v
<1>9. Matches(f, DOMAIN F, C) /\ \A k \in DOMAIN F : F[k] = v[f[k]]
  <2>1. Matches(f, DOMAIN F, C) /\ \A k \in DOMAIN F : F[k] = seqs[f[k][1]][f[k][2]]
    BY <1>5 DEF Located
  <2>2. \A k \in DOMAIN F : f[k] \in C
    BY <2>1 DEF Matches
  <2>3. \A k \in DOMAIN F : F[k] = v[f[k]]
    BY <1>6, <1>8, <2>1, <2>2
  <2>4. QED
    BY <2>1, <2>3
<1>10. F \in [DOMAIN F -> Pair] /\ IsFiniteSet(DOMAIN F)
  BY <1>4, SeqFun
<1>11. ASSUME NEW w PROVE Total(w, F) = n * Total(w, m)
  <2>1. Total(w, F) = Total(w, v)
    <3>1. v \in [C -> Pair]
      BY <1>8
    <3>2. Matches(f, DOMAIN F, C)
      BY <1>9
    <3>3. \A k \in DOMAIN F : F[k] = v[f[k]]
      BY <1>9
    <3>4. \A x : Total(x, F) = Total(x, v)
      BY <1>4, <3>1, <3>2, <3>3, MovedSeq
    <3>5. QED
      BY <3>4
  <2> DEFINE U == Units(w, m)
             A == (1..n) \X U
             V == Units(w, v)
             g == [y \in A |-> <<<<y[1], y[2][1]>>, y[2][2]>>]
  <2>2. \A x \in U : x \in (DOMAIN m) \X Nat /\ m[x[1]][1] = w /\ x[2] \in 1..m[x[1]][2]
    BY DEF Units
  <2>3. ASSUME NEW y \in A
        PROVE  /\ y[1] \in 1..n /\ y[2] \in U /\ y = <<y[1], y[2]>>
               /\ y[2][1] \in DOMAIN m /\ y[2] = <<y[2][1], y[2][2]>>
               /\ g[y] = <<<<y[1], y[2][1]>>, y[2][2]>> /\ g[y] \in V
    <3>1. y[1] \in 1..n /\ y[2] \in U /\ y = <<y[1], y[2]>>
      OBVIOUS
    <3>2. g[y] = <<<<y[1], y[2][1]>>, y[2][2]>>
      OBVIOUS
    <3> HIDE DEF U, A, g
    <3>3. /\ y[2][1] \in DOMAIN m /\ y[2][2] \in Nat /\ y[2] = <<y[2][1], y[2][2]>>
          /\ m[y[2][1]][1] = w /\ y[2][2] \in 1..m[y[2][1]][2]
      BY <2>2, <3>1
    <3> DEFINE d == <<y[1], y[2][1]>>
               k == y[2][2]
    <3>4. d \in C /\ v[d] = m[y[2][1]]
      BY <1>7, <1>8, <3>1, <3>3
    <3> HIDE DEF d
    <3>5. <<d, k>> \in V
      BY <1>8, <3>3, <3>4, InUnits
    <3>6. QED
      BY <3>1, <3>2, <3>3, <3>5 DEF d
  <2>4. g \in [A -> V]
    BY <2>3
  <2> HIDE DEF U, g
  <2>5. ASSUME NEW x \in A, NEW y \in A, g[x] = g[y] PROVE x = y
    <3>1. <<<<x[1], x[2][1]>>, x[2][2]>> = <<<<y[1], y[2][1]>>, y[2][2]>>
      <4>1. g[x] = <<<<x[1], x[2][1]>>, x[2][2]>>
        BY <2>3
      <4>2. g[y] = <<<<y[1], y[2][1]>>, y[2][2]>>
        BY <2>3
      <4>3. QED
        BY <2>5, <4>1, <4>2, Zenon
    <3>2. x[1] = y[1] /\ x[2][1] = y[2][1] /\ x[2][2] = y[2][2]
      BY <3>1
    <3>3. x[2] = <<x[2][1], x[2][2]>> /\ x = <<x[1], x[2]>>
      BY <2>3
    <3>4. y[2] = <<y[2][1], y[2][2]>> /\ y = <<y[1], y[2]>>
      BY <2>3
    <3>5. x[2] = y[2]
      BY <3>2, <3>3, <3>4, Zenon
    <3>6. QED
      BY <3>2, <3>3, <3>4, <3>5, Zenon
  <2>6. ASSUME NEW z \in V PROVE \E y \in A : g[y] = z
    <3>1. PICK c \in C, k \in Nat : z = <<c, k>> /\ v[c][1] = w /\ k \in 1..v[c][2]
      BY <1>8, InUnits
    <3>2. c[1] \in 1..n /\ c[2] \in DOMAIN m /\ c = <<c[1], c[2]>> /\ v[c] = m[c[2]]
      BY <1>6, <1>8
    <3>3. <<c[2], k>> \in U
      <4>1. m[c[2]][1] = w /\ k \in 1..m[c[2]][2]
        BY <3>1, <3>2, Zenon
      <4>2. QED
        BY <1>2, <3>2, <4>1, InUnits DEF U
    <3> DEFINE y == <<c[1], <<c[2], k>>>>
    <3>4. y \in A
      BY <3>2, <3>3
    <3>5. g[y] = <<<<c[1], c[2]>>, k>>
      BY <2>3, <3>4
    <3>6. g[y] = z
      BY <3>1, <3>2, <3>5
    <3>7. QED
      BY <3>4, <3>6
  <2>7. Matches(g, A, V)
    <3> HIDE DEF A, V
    <3>1. QED
      BY <2>4, <2>5, <2>6 DEF Matches
  <2>8. IsFiniteSet(U)
    BY <1>2, UnitsFinite DEF U
  <2>9. IsFiniteSet(1..n) /\ Cardinality(1..n) = n
    <3>1. 1 \in Int /\ n \in Int
      OBVIOUS
    <3>2. IsFiniteSet(1..n) /\ Cardinality(1..n) = IF 1 > n THEN 0 ELSE n - 1 + 1
      BY <3>1, FS_Interval
    <3>3. QED
      BY <3>2
  <2>10. IsFiniteSet(A) /\ Cardinality(A) = n * Cardinality(U)
    BY <2>8, <2>9, FS_Product
  <2>11. Cardinality(A) = Cardinality(V)
    <3> HIDE DEF A, V
    <3>1. QED
      BY <2>7, <2>10, MatchedSets
  <2> HIDE DEF A
  <2>12. QED
    BY <2>1, <2>10, <2>11, Zenon DEF Total, U, V
<1>12. QED
  BY <1>4, <1>11, Zenon DEF F, seqs

-----------------------------------------------------------------------------
(***************************************************************************)
(* The files the jobs write.                                               *)
(***************************************************************************)

\* What the variables hold, the hash and the paths of the files included.
MrTypes ==
    /\ MrTypeOK
    /\ hash \in [Words -> Nat]
    /\ output \in [Paths -> Seq(Pair) \cup {NoFile}]

\* The file of a distributed job with one reduce task has the words of the input,
\* in order, and each count is multiplied by the map outputs that were fetched:
\* ExecuteMapTask reads the whole input for each of them.
CountsScaled ==
    dist.fetched > 0 => CountsOf(output["dist"], dist.input, dist.fetched)

\* The inductive invariant: each result file counts the words of the input of
\* the job that wrote it last.
MrInv == MrTypes /\ LocalCountsExact /\ CountsScaled

LEMMA OccurrencesFacts ==
    ASSUME MrTypes, NEW path \in Inputs
    PROVE  /\ Collected(path) \in Seq(Pair)
           /\ \A w \in Words : /\ Total(w, Collected(path)) = Occurrences(w, path)
                               /\ Occurrences(w, path) \in Nat
<1> DEFINE s == IF path = "in" THEN text ELSE <<>>
<1>1. s \in Seq(Words \cup {NL})
  BY DEF MrTypes, MrTypeOK
<1>2. \A w : Cardinality({i \in DOMAIN s : s[i] = w}) = Occurrences(w, path)
  <2>1. CASE path = "in"
    BY <2>1, Zenon DEF Occurrences
  <2>2. CASE path # "in"
    <3>1. DOMAIN s = {}
      BY <2>2
    <3> HIDE DEF s
    <3>2. \A w : {i \in DOMAIN s : s[i] = w} = {}
      BY <3>1
    <3>3. \A w : Occurrences(w, path) = 0
      BY <2>2 DEF Occurrences
    <3>4. Cardinality({}) = 0
      BY FS_EmptySet
    <3>5. QED
      BY <3>2, <3>3, <3>4, Zenon
  <2>3. QED
    BY <2>1, <2>2
<1>3. Collected(path) = FlattenSeq([i \in DOMAIN Records(s) |-> Map(Records(s)[i])])
  BY Zenon DEF Collected
<1> HIDE DEF s
<1>4. /\ Collected(path) \in Seq(Pair)
      /\ \A w \in Words : Total(w, Collected(path)) = Cardinality({i \in DOMAIN s : s[i] = w})
  BY <1>1, <1>3, CollectedFacts, Zenon
<1>5. \A w \in Words : Total(w, Collected(path)) = Occurrences(w, path)
  BY <1>2, <1>4, Zenon
<1>6. \A w : Total(w, Collected(path)) \in Nat
  <2>1. /\ Collected(path) \in [DOMAIN Collected(path) -> Pair]
        /\ IsFiniteSet(DOMAIN Collected(path))
    BY <1>4, SeqFun
  <2>2. QED
    BY <2>1, UnitsFinite
<1>7. QED
  BY <1>4, <1>5, <1>6

\* A file that counts pairs has the counts of the words the pairs stand for.
LEMMA CountsFromTotals ==
    ASSUME MrTypes, NEW path \in Inputs, NEW n \in Nat \ {0}, NEW o, NEW c \in Seq(Pair),
           Counted(o, c), \A w \in Words : Total(w, c) = n * Occurrences(w, path)
    PROVE  o \in Seq(Pair) /\ CountsOf(o, path, n)
<1>1. o \in Seq(Pair) /\ Increasing(o)
  BY DEF Counted
<1>2. o \in [DOMAIN o -> Pair]
  BY <1>1, SeqFun
<1>3. ASSUME NEW w \in Words
      PROVE  Total(w, c) > 0 <=> Occurrences(w, path) > 0
  <2> DEFINE a == Occurrences(w, path)
  <2>1. a \in Nat /\ Total(w, c) = n * a
    BY OccurrencesFacts
  <2> HIDE DEF a
  <2>2. CASE a = 0
    BY <2>1, <2>2 DEF a
  <2>3. CASE a # 0
    <3>1. n * a > 0
      BY <2>1, <2>3
    <3>2. QED
      BY <2>1, <2>3, <3>1 DEF a
  <2>4. QED
    BY <2>2, <2>3
<1>4. \A i, j \in DOMAIN o : i < j => o[i][1] < o[j][1]
  BY <1>1 DEF Increasing
<1> DEFINE R == {<<w, n * Occurrences(w, path)>> : w \in {v \in Words : Occurrences(v, path) > 0}}
<1>5. ASSUME NEW k \in DOMAIN o PROVE o[k] \in R
  <2> DEFINE w == o[k][1]
  <2>1. w \in Words /\ o[k] = <<w, o[k][2]>> /\ o[k][2] > 0
    BY <1>2, PairParts
  <2>2. o[k][2] = Total(w, c)
    BY DEF Counted
  <2> HIDE DEF w
  <2>3. Total(w, c) > 0 /\ Total(w, c) = n * Occurrences(w, path)
    BY <2>1, <2>2
  <2>4. Occurrences(w, path) > 0
    BY <1>3, <2>1, <2>3
  <2>5. o[k] = <<w, n * Occurrences(w, path)>>
    BY <2>1, <2>2, <2>3, Zenon
  <2>6. QED
    BY <2>1, <2>4, <2>5
<1>6. ASSUME NEW x \in R PROVE x \in ToSet(o)
  <2>1. PICK w \in Words : Occurrences(w, path) > 0 /\ x = <<w, n * Occurrences(w, path)>>
    OBVIOUS
  <2>2. Total(w, c) > 0 /\ Total(w, c) = n * Occurrences(w, path)
    BY <1>3, <2>1
  <2>3. PICK k \in DOMAIN o : o[k][1] = w
    BY <2>2 DEF Counted
  <2>4. o[k][2] = Total(w, c)
    BY <2>3 DEF Counted
  <2>5. o[k] = <<o[k][1], o[k][2]>>
    BY <1>2, PairParts
  <2>6. o[k] = x
    BY <2>1, <2>2, <2>3, <2>4, <2>5, Zenon
  <2>7. QED
    BY <2>6 DEF ToSet
<1> HIDE DEF R
<1>7. ToSet(o) = R
  <2>1. \A x \in ToSet(o) : x \in R
    BY <1>5 DEF ToSet
  <2>2. QED
    BY <1>6, <2>1
<1>8. o # NoFile
  <2>1. ASSUME o = NoFile PROVE FALSE
    <3>1. 1 \in DOMAIN NoFile /\ NoFile[1] = <<"no file">>
      <4> DEFINE x == <<"no file">>
      <4>1. NoFile = <<x>>
        BY Zenon DEF NoFile
      <4> HIDE DEF x
      <4>2. 1 \in DOMAIN <<x>> /\ <<x>>[1] = x
        OBVIOUS
      <4>3. QED
        BY <4>1, <4>2, Zenon DEF x
    <3>2. o[1] \in Pair /\ o[1] = <<"no file">>
      BY <1>2, <2>1, <3>1
    <3>3. o[1] = <<o[1][1], o[1][2]>>
      BY <3>2, PairParts
    <3>4. Len(<<o[1][1], o[1][2]>>) = 2 /\ Len(<<"no file">>) = 1
      OBVIOUS
    <3>5. 2 = 1
      BY <3>2, <3>3, <3>4, Zenon
    <3>6. QED
      BY <3>5
  <2>2. QED
    BY <2>1
<1>9. QED
  BY <1>1, <1>4, <1>7, <1>8 DEF CountsOf, R

\* RunJob's result, for every hash, number of reduces and input, and with the
\* combiner or without.
LEMMA LocalResultFacts ==
    ASSUME MrTypes, config \in Configs
    PROVE  LocalResult \in Seq(Pair) /\ CountsOf(LocalResult, config.input, 1)
<1> DEFINE c == Collected(config.input)
           n == config.reduces
           part(p) == IF config.combiner THEN Combine(Sorted(Partitioned(c, n)[p]))
                      ELSE Sorted(Partitioned(c, n)[p])
           r == [p \in 1..n |-> Reduce(part(p))]
<1>1. config.input \in Inputs /\ n \in Nat \ {0} /\ config.combiner \in BOOLEAN
  BY MapReduceAssumption DEF Configs
<1>2. c \in Seq(Pair) /\ \A w \in Words : Total(w, c) = Occurrences(w, config.input)
                                         /\ Occurrences(w, config.input) \in Nat
  BY <1>1, OccurrencesFacts
<1>3. LocalResult = Sorted(FlattenSeq(r))
  BY Zenon DEF LocalResult
<1> HIDE DEF c, n
<1>4. ASSUME NEW p \in 1..n PROVE Counted(Reduce(part(p)), Partitioned(c, n)[p])
  <2> DEFINE s == Partitioned(c, n)[p]
  <2>1. s \in Seq(Pair)
    BY <1>1, <1>2, PartFacts
  <2> HIDE DEF s
  <2>2. Counted(Reduce(Sorted(s)), s) /\ Counted(Reduce(Combine(Sorted(s))), s)
    BY <2>1, Reduced
  <2>3. CASE config.combiner
    <3>1. part(p) = Combine(Sorted(s))
      BY <2>3, Zenon DEF s
    <3> HIDE DEF part
    <3>2. QED
      BY <2>2, <3>1, Zenon DEF s
  <2>4. CASE ~config.combiner
    <3>1. part(p) = Sorted(s)
      BY <2>4, Zenon DEF s
    <3> HIDE DEF part
    <3>2. QED
      BY <2>2, <3>1, Zenon DEF s
  <2>5. QED
    BY <2>3, <2>4
<1> HIDE DEF part
<1>5. \A p \in 1..n : r[p] = Reduce(part(p))
  OBVIOUS
<1>6. r \in [1..n -> Seq(Pair)]
  <2>1. \A p \in 1..n : Reduce(part(p)) \in Seq(Pair)
    BY <1>4 DEF Counted
  <2>2. QED
    BY <2>1
<1> HIDE DEF r
<1>7. \A p \in 1..n : Counted(r[p], Partitioned(c, n)[p])
  BY <1>4, <1>5, Zenon
<1>8. Counted(LocalResult, c)
  <2>1. hash \in [Words -> Nat]
    BY DEF MrTypes
  <2>2. Counted(Sorted(FlattenSeq(r)), c)
    BY <1>1, <1>2, <1>6, <1>7, <2>1, Merged
  <2>3. QED
    BY <1>3, <2>2, Zenon
<1>9. \A w \in Words : Total(w, c) = 1 * Occurrences(w, config.input)
  BY <1>2
<1>10. 1 \in Nat \ {0}
  OBVIOUS
<1>11. QED
  BY <1>1, <1>2, <1>8, <1>9, <1>10, CountsFromTotals

\* The reduce task's result: each of the n outputs fetched counts the whole input.
LEMMA ReduceTaskFacts ==
    ASSUME MrTypes, NEW path \in Inputs, NEW n \in Nat
    PROVE  /\ ReduceTaskResult(path, n) \in Seq(Pair)
           /\ n > 0 => CountsOf(ReduceTaskResult(path, n), path, n)
<1> DEFINE c == Collected(path)
           m == Sorted(c)
           F == FlattenSeq([i \in 1..n |-> m])
<1>1. c \in Seq(Pair) /\ \A w \in Words : Total(w, c) = Occurrences(w, path)
                                         /\ Occurrences(w, path) \in Nat
  BY OccurrencesFacts
<1>2. ReduceTaskResult(path, n) = Reduce(Sorted(F))
  BY Zenon DEF ReduceTaskResult, MapTaskOutput
<1> HIDE DEF c
<1>3. m \in Seq(Pair) /\ \A w : Total(w, m) = Total(w, c)
  BY <1>1, SortedFacts
<1> HIDE DEF m
<1>4. F \in Seq(Pair) /\ \A w : Total(w, F) = n * Total(w, m)
  BY <1>3, CopiesFacts
<1> HIDE DEF F
<1>5. Counted(ReduceTaskResult(path, n), F)
  <2>1. Counted(Reduce(Sorted(F)), F)
    BY <1>4, Reduced
  <2>2. QED
    BY <1>2, <2>1, Zenon
<1>6. \A w \in Words : Total(w, F) = n * Occurrences(w, path)
  BY <1>1, <1>3, <1>4, Zenon
<1>7. ReduceTaskResult(path, n) \in Seq(Pair)
  BY <1>5 DEF Counted
<1>8. ASSUME n > 0 PROVE CountsOf(ReduceTaskResult(path, n), path, n)
  <2>1. n \in Nat \ {0}
    BY <1>8
  <2>2. QED
    BY <1>4, <1>5, <1>6, <2>1, CountsFromTotals
<1>9. QED
  BY <1>7, <1>8

-----------------------------------------------------------------------------
LEMMA InitMrInv == Init => MrInv
<1> SUFFICES ASSUME Init PROVE MrInv
  OBVIOUS
<1>1. text \in Seq(Words \cup {NL})
  <2>1. PICK n \in 0..MaxText : text \in [1..n -> Words \cup {NL}]
    BY DEF Init, Texts
  <2>2. n \in Nat
    BY MapReduceAssumption
  <2>3. QED
    BY <2>1, <2>2, FunSeq
<1>2. hash \in [Words -> Nat]
  <2>1. hash \in [Words -> 0..(MaxReduces - 1)]
    BY DEF Init
  <2>2. 0..(MaxReduces - 1) \subseteq Nat
    BY MapReduceAssumption
  <2>3. QED
    BY <2>1, <2>2
<1>3. output \in [Paths -> Seq(Pair) \cup {NoFile}] /\ \A p \in Paths : output[p] = NoFile
  <2>1. output = [p \in Paths |-> NoFile]
    BY DEF Init
  <2>2. QED
    BY <2>1
<1>4. dist.maps = 0 /\ dist.fetched = 0 /\ runs = 0 /\ config = NoConfig /\ job_done = FALSE
  BY DEF Init
<1>5. 0 \in 0..MaxMaps /\ 0 \in 0..0 /\ 0 \in 0..MaxRuns
  BY MapReduceAssumption
<1>6. MrTypeOK
  BY <1>1, <1>3, <1>4, <1>5, Zenon DEF MrTypeOK
<1>7. LocalCountsExact
  BY <1>4 DEF LocalCountsExact
<1>8. CountsScaled
  BY <1>4 DEF CountsScaled
<1>9. QED
  BY <1>2, <1>3, <1>6, <1>7, <1>8 DEF MrInv, MrTypes

\* A file that counts the words of its input still does while the text stays.
LEMMA CountsKept ==
    ASSUME UNCHANGED text, NEW o, NEW path, NEW n, CountsOf(o, path, n)
    PROVE  CountsOf(o, path, n)'
<1>1. \A w : Occurrences(w, path)' = Occurrences(w, path)
  BY DEF Occurrences
<1> DEFINE occ(w) == Occurrences(w, path)
<1>2. {<<w, n * occ(w)'>> : w \in {v \in Words : occ(v)' > 0}}
        = {<<w, n * occ(w)>> : w \in {v \in Words : occ(v) > 0}}
  <2>1. {v \in Words : occ(v)' > 0} = {v \in Words : occ(v) > 0}
    BY <1>1
  <2>2. QED
    BY <1>1, <2>1
<1>3. QED
  BY <1>2 DEF CountsOf

LEMMA LocalKept ==
    ASSUME LocalCountsExact, UNCHANGED <<text, config, job_done>>,
           output'["out"] = output["out"]
    PROVE  LocalCountsExact'
<1> SUFFICES ASSUME job_done', config'.path = "out"
             PROVE  CountsOf(output["out"], config.input, 1)'
  BY DEF LocalCountsExact
<1>1. PICK o, q : o = output["out"] /\ q = config.input
  OBVIOUS
<1>2. CountsOf(o, q, 1)
  BY <1>1 DEF LocalCountsExact
<1>3. CountsOf(o, q, 1)'
  BY <1>2, CountsKept
<1>4. QED
  BY <1>1, <1>3, Zenon DEF CountsOf

LEMMA DistKept ==
    ASSUME CountsScaled, UNCHANGED <<text, dist>>,
           output'["dist"] = output["dist"]
    PROVE  CountsScaled'
<1> SUFFICES ASSUME dist'.fetched > 0
             PROVE  CountsOf(output["dist"], dist.input, dist.fetched)'
  BY DEF CountsScaled
<1>1. PICK o, q, n : o = output["dist"] /\ q = dist.input /\ n = dist.fetched
  OBVIOUS
<1>2. CountsOf(o, q, n)
  BY <1>1 DEF CountsScaled
<1>3. CountsOf(o, q, n)'
  BY <1>2, CountsKept
<1>4. QED
  BY <1>1, <1>3, Zenon DEF CountsOf

LEMMA SubmitJobInv == ASSUME MrInv, NEW c \in Configs, SubmitJob(c) PROVE MrInv'
<1>1. config' = c /\ job_done' = FALSE /\ UNCHANGED <<text, hash, dist, output, runs>>
  BY DEF SubmitJob
<1>2. MrTypes'
  BY <1>1, Zenon DEF MrInv, MrTypes, MrTypeOK
<1>3. LocalCountsExact'
  BY <1>1 DEF LocalCountsExact
<1>4. CountsScaled'
  BY <1>1, DistKept DEF MrInv
<1>5. QED
  BY <1>2, <1>3, <1>4 DEF MrInv

\* What writing a file to a path leaves.
LEMMA WriteFacts ==
    ASSUME MrTypes, NEW path \in Paths, NEW pairs \in Seq(Pair), WriteOutput(path, pairs)
    PROVE  /\ output' \in [Paths -> Seq(Pair) \cup {NoFile}]
           /\ path # "no_dir/out" => output'[path] = pairs
           /\ \A p \in Paths : p # path => output'[p] = output[p]
<1>1. output \in [Paths -> Seq(Pair) \cup {NoFile}]
  BY DEF MrTypes
<1>2. CASE path = "no_dir/out"
  BY <1>1, <1>2 DEF WriteOutput
<1>3. CASE path # "no_dir/out"
  <2>1. output' = [output EXCEPT ![path] = pairs]
    BY <1>3 DEF WriteOutput
  <2>2. QED
    BY <1>1, <2>1
<1>4. QED
  BY <1>2, <1>3

LEMMA FilesTyped ==
    ASSUME output' \in [Paths -> Seq(Pair) \cup {NoFile}]
    PROVE  \A p \in Paths : output'[p] = NoFile \/ output'[p] \in Seq(Pair)
OBVIOUS

LEMMA RunJobInv == ASSUME MrInv, RunJob PROVE MrInv'
<1>1. /\ config # NoConfig /\ runs < MaxRuns
      /\ WriteOutput(config.path, LocalResult)
      /\ job_done' = TRUE /\ runs' = runs + 1
      /\ UNCHANGED <<text, hash, config, dist>>
  BY DEF RunJob
<1>2. config \in Configs /\ MrTypes
  BY <1>1 DEF MrInv, MrTypes, MrTypeOK
<1>3. PICK o, q, path : o = LocalResult /\ q = config.input /\ path = config.path
  OBVIOUS
<1>4. o \in Seq(Pair) /\ CountsOf(o, q, 1)
  BY <1>2, <1>3, LocalResultFacts, Zenon
<1>5. path \in Paths /\ path # "dist" /\ "dist" \in Paths
  BY <1>2, <1>3 DEF Configs, Paths
<1>6. /\ output' \in [Paths -> Seq(Pair) \cup {NoFile}]
      /\ path # "no_dir/out" => output'[path] = o
      /\ output'["dist"] = output["dist"]
  <2>1. WriteOutput(path, o)
    BY <1>1, <1>3, Zenon
  <2>2. QED
    BY <1>2, <1>4, <1>5, <2>1, WriteFacts
<1>7. MrTypeOK'
  <2>1. runs' \in 0..MaxRuns
    BY <1>1, MapReduceAssumption DEF MrInv, MrTypes, MrTypeOK
  <2>2. \A p \in Paths : output'[p] = NoFile \/ output'[p] \in Seq(Pair)
    BY <1>6, FilesTyped
  <2>3. job_done' \in BOOLEAN
    BY <1>1
  <2>4. QED
    BY <1>1, <2>1, <2>2, <2>3, Zenon DEF MrInv, MrTypes, MrTypeOK
<1>8. LocalCountsExact'
  <2> SUFFICES ASSUME config'.path = "out"
               PROVE  CountsOf(output["out"], config.input, 1)'
    BY DEF LocalCountsExact
  <2>1. path = "out"
    BY <1>1, <1>3
  <2>2. output'["out"] = o /\ config'.input = q
    BY <1>1, <1>3, <1>6, <2>1
  <2>3. CountsOf(o, q, 1)'
    BY <1>1, <1>4, CountsKept
  <2>4. QED
    BY <2>2, <2>3, Zenon DEF CountsOf
<1>9. CountsScaled'
  BY <1>1, <1>6, DistKept DEF MrInv
<1>10. MrTypes'
  BY <1>1, <1>6, <1>7, Zenon DEF MrInv, MrTypes
<1>11. QED
  BY <1>8, <1>9, <1>10 DEF MrInv

LEMMA DistributedRunInv ==
    ASSUME MrInv, NEW path \in Inputs, NEW dest \in {"dist", "no_dir/out"},
           NEW maps \in 1..MaxMaps, NEW n \in 0..maps, DistributedRun(path, dest, maps, n)
    PROVE  MrInv'
<1>1. /\ runs < MaxRuns /\ WriteOutput(dest, ReduceTaskResult(path, n))
      /\ dest = "dist" => dist' = [input |-> path, maps |-> maps, fetched |-> n]
      /\ dest # "dist" => dist' = dist
      /\ runs' = runs + 1
      /\ UNCHANGED <<text, hash, config, job_done>>
  BY DEF DistributedRun
<1>2. MrTypes /\ n \in Nat /\ maps \in 0..MaxMaps
  BY MapReduceAssumption DEF MrInv
<1>3. PICK o : o = ReduceTaskResult(path, n)
  OBVIOUS
<1>4. o \in Seq(Pair) /\ (n > 0 => CountsOf(o, path, n))
  BY <1>2, <1>3, ReduceTaskFacts, Zenon
<1>5. /\ output' \in [Paths -> Seq(Pair) \cup {NoFile}]
      /\ dest = "dist" => output'["dist"] = o
      /\ dest # "dist" => output'["dist"] = output["dist"]
      /\ output'["out"] = output["out"]
  <2>1. WriteOutput(dest, o)
    BY <1>1, <1>3, Zenon
  <2>2. /\ dest \in Paths /\ "dist" \in Paths /\ "out" \in Paths
        /\ dest = "dist" => dest # "no_dir/out"
        /\ "out" # dest
    BY DEF Paths
  <2>3. QED
    BY <1>2, <1>4, <2>1, <2>2, WriteFacts
<1>6. MrTypeOK'
  <2>1. runs' \in 0..MaxRuns
    BY <1>1, MapReduceAssumption DEF MrInv, MrTypes, MrTypeOK
  <2>2. dist'.maps \in 0..MaxMaps /\ dist'.fetched \in 0..dist'.maps
    <3>1. CASE dest = "dist"
      <4>1. dist'.maps = maps /\ dist'.fetched = n
        BY <1>1, <3>1
      <4>2. QED
        BY <1>2, <4>1
    <3>2. CASE dest # "dist"
      BY <1>1, <1>2, <3>2 DEF MrTypes, MrTypeOK
    <3>3. QED
      BY <3>1, <3>2
  <2>3. \A p \in Paths : output'[p] = NoFile \/ output'[p] \in Seq(Pair)
    BY <1>5, FilesTyped
  <2>4. QED
    BY <1>1, <2>1, <2>2, <2>3, Zenon DEF MrInv, MrTypes, MrTypeOK
<1>7. LocalCountsExact'
  BY <1>1, <1>5, LocalKept DEF MrInv
<1>8. CountsScaled'
  <2>1. CASE dest = "dist"
    <3> SUFFICES ASSUME dist'.fetched > 0
                 PROVE  CountsOf(output["dist"], dist.input, dist.fetched)'
      BY DEF CountsScaled
    <3>1. dist'.fetched = n /\ dist'.input = path /\ output'["dist"] = o
      BY <1>1, <1>5, <2>1
    <3>2. CountsOf(o, path, n)
      BY <1>4, <3>1
    <3>3. CountsOf(o, path, n)'
      BY <1>1, <3>2, CountsKept
    <3>4. QED
      BY <3>1, <3>3, Zenon DEF CountsOf
  <2>2. CASE dest # "dist"
    BY <1>1, <1>5, <2>2, DistKept DEF MrInv
  <2>3. QED
    BY <2>1, <2>2
<1>9. MrTypes'
  BY <1>1, <1>5, <1>6, Zenon DEF MrInv, MrTypes
<1>10. QED
  BY <1>7, <1>8, <1>9 DEF MrInv

\* MrInv holds in every reachable state: every operation of the job tracker and
\* every distributed job leaves result files that count the words.
THEOREM MrInductive == Spec => []MrInv
<1>1. Init => MrInv
  BY InitMrInv
<1>2. MrInv /\ [Next]_vars => MrInv'
  <2> SUFFICES ASSUME MrInv, [Next]_vars PROVE MrInv'
    OBVIOUS
  <2>1. CASE \E c \in Configs : SubmitJob(c)
    BY <2>1, SubmitJobInv
  <2>2. CASE RunJob
    BY <2>2, RunJobInv
  <2>3. CASE \E path \in Inputs, dest \in {"dist", "no_dir/out"}, maps \in 1..MaxMaps :
               \E fetched \in 0..maps : DistributedRun(path, dest, maps, fetched)
    BY <2>3, DistributedRunInv
  <2>4. CASE UNCHANGED vars
    <3>1. UNCHANGED <<text, hash, config, job_done, dist, output, runs>>
      BY <2>4 DEF vars
    <3>2. MrTypes'
      BY <3>1, Zenon DEF MrInv, MrTypes, MrTypeOK
    <3>3. LocalCountsExact' /\ CountsScaled'
      BY <3>1, LocalKept, DistKept DEF MrInv
    <3>4. QED
      BY <3>2, <3>3 DEF MrInv
  <2>5. QED
    BY <2>1, <2>2, <2>3, <2>4 DEF Next
<1>3. QED
  BY <1>1, <1>2, PTL DEF Spec

\* The tracker's state and the result files keep their types: a result is never
\* a pair with a count of zero or with what is not a word.
THEOREM MrTypeCorrect == Spec => []MrTypeOK
<1>1. MrInv => MrTypeOK
  BY DEF MrInv, MrTypes
<1>2. QED
  BY <1>1, MrInductive, PTL

\* When IsJobDone() holds and the file could be opened, it has exactly the
\* counts of the words of the input, for every text, every hash, every number
\* of reduces, with the combiner and without.
THEOREM LocalCountsAlwaysExact == Spec => []LocalCountsExact
<1>1. MrInv => LocalCountsExact
  BY DEF MrInv
<1>2. QED
  BY <1>1, MrInductive, PTL

\* The counts of a distributed job with one reduce task are those of its input
\* times the map outputs that the reduce task fetched, however many map tasks
\* there are: with more than one they are not the counts of the words.
THEOREM DistributedCountsScaled == Spec => []CountsScaled
<1>1. MrInv => CountsScaled
  BY DEF MrInv
<1>2. QED
  BY <1>1, MrInductive, PTL
=============================================================================
