--------------------------- MODULE ListingProofs ---------------------------
(***************************************************************************)
(* Proofs about Listing: what its loops return, for every set of positions *)
(* and every limit.                                                        *)
(***************************************************************************)
EXTENDS Listing, FiniteSetTheorems, WellFoundedInduction, TLAPS

-----------------------------------------------------------------------------
(* Numbers and cardinalities *)

\* A set of numbers has a least one. What holds at a number if it holds at the one
\* before holds everywhere: there is no first number at which it fails.
LEMMA FirstNumber ==
  ASSUME NEW T \in SUBSET Nat, T # {}
  PROVE  \E m \in T : \A k \in T : m <= k
<1> DEFINE R == OpToRel(<, Nat)
<1>1. IsWellFoundedOn(R, Nat)
  BY NatLessThanWellFounded
<1>2. \E m \in T : \A k \in T : ~(<<k, m>> \in R)
  <2> HIDE DEF R
  <2> QED  BY <1>1, WFMin
<1>3. ASSUME NEW m \in T, NEW k \in T, ~(<<k, m>> \in R)
      PROVE  m <= k
  BY <1>3 DEF OpToRel
<1> QED  BY <1>2, <1>3

\* Positions are finitely many.
LEMMA PositionsFinite ==
  ASSUME NEW n \in Nat, NEW ids \in SUBSET (1..n)
  PROVE  IsFiniteSet(ids) /\ Cardinality(ids) \in Nat /\ Cardinality(ids) <= n
<1>1. IsFiniteSet(1..n) /\ Cardinality(1..n) = n
  BY FS_Interval
<1> QED  BY <1>1, FS_Subset, FS_CardinalityType

\* What a rising sequence lists, it lists once.
LEMMA RisingIsInjective ==
  ASSUME NEW c \in Nat, NEW S \in SUBSET Nat, NEW s \in [1..c -> S],
         \A i, j \in 1..c : i < j => s[i] < s[j]
  PROVE  s \in Injection(1..c, S)
<1> SUFFICES ASSUME NEW i \in 1..c, NEW j \in 1..c, s[i] = s[j]
             PROVE  i = j
  BY DEF Injection, IsInjective
<1>1. s[i] \in Nat /\ s[j] \in Nat
  OBVIOUS
<1>2. ~(i < j) /\ ~(j < i)
  BY <1>1
<1> QED  BY <1>2

\* As many different elements as there are, are all of them.
LEMMA AllListed ==
  ASSUME NEW S, IsFiniteSet(S), NEW s \in Injection(1..Cardinality(S), S)
  PROVE  \A x \in S : \E i \in 1..Cardinality(S) : s[i] = x
<1>1. Cardinality(S) \in Nat
  BY FS_CardinalityType
<1>2. Cardinality(1..Cardinality(S)) = Cardinality(S)
  BY <1>1, FS_Interval
<1>3. s \in Surjection(1..Cardinality(S), S)
  BY <1>2, FS_Injection
<1> QED  BY <1>3 DEF Surjection

\* Two sets whose elements correspond are equal in size.
LEMMA SameSize ==
  ASSUME NEW S, NEW T, IsFiniteSet(S), NEW f \in [S -> T],
         \A x, y \in S : f[x] = f[y] => x = y,
         \A t \in T : \E x \in S : f[x] = t
  PROVE  IsFiniteSet(T) /\ Cardinality(T) = Cardinality(S)
<1>1. f \in Bijection(S, T)
  BY DEF Bijection, Injection, Surjection, IsInjective
<1> QED  BY <1>1, FS_Bijection DEF ExistsBijection

-----------------------------------------------------------------------------
(* Positions in order *)

\* Every set of positions can be put in order: position by position.
LEMMA CanBeOrdered ==
  ASSUME NEW n \in Nat, NEW ids \in SUBSET (1..n)
  PROVE  \E s \in [1..Cardinality(ids) -> ids] :
           \A i, j \in 1..Cardinality(ids) : i < j => s[i] < s[j]
<1> DEFINE At(k) == ids \cap 1..k
           Rising(s, c) == \A i, j \in 1..c : i < j => s[i] < s[j]
           Good(k) == \E s \in [1..Cardinality(At(k)) -> At(k)] : Rising(s, Cardinality(At(k)))
           T == {k \in 0..n : ~Good(k)}
<1>1. \A k \in Nat : IsFiniteSet(At(k)) /\ Cardinality(At(k)) \in Nat
  <2> SUFFICES ASSUME NEW k \in Nat
               PROVE  IsFiniteSet(At(k)) /\ Cardinality(At(k)) \in Nat
    OBVIOUS
  <2> QED  BY PositionsFinite
<1>2. Good(0)
  <2>1. At(0) = {}
    OBVIOUS
  <2>2. Cardinality(At(0)) = 0
    BY <2>1, FS_EmptySet
  <2>3. << >> \in [1..Cardinality(At(0)) -> At(0)]
    BY <2>2
  <2>4. Rising(<< >>, Cardinality(At(0)))
    BY <2>2
  <2> QED  BY <2>3, <2>4
<1>3. ASSUME NEW m \in 1..n, Good(m - 1)
      PROVE  Good(m)
  <2> DEFINE c == Cardinality(At(m - 1))
  <2>1. c \in Nat /\ IsFiniteSet(At(m - 1))
    BY <1>1
  <2>2. PICK s \in [1..c -> At(m - 1)] : Rising(s, c)
    BY <1>3
  <2>3. CASE m \notin ids
    <3>1. At(m) = At(m - 1)
      BY <2>3
    <3> QED  BY <1>3, <3>1
  <2>4. CASE m \in ids
    <3>1. At(m) = At(m - 1) \cup {m} /\ m \notin At(m - 1)
      BY <2>4
    <3>2. Cardinality(At(m)) = c + 1
      <4> HIDE DEF At
      <4> QED  BY <2>1, <3>1, FS_AddElement
    <3> DEFINE t == [i \in 1..(c + 1) |-> IF i = c + 1 THEN m ELSE s[i]]
    <3>3. \A i \in 1..c : s[i] \in 1..(m - 1)
      BY <2>2
    <3>4. t \in [1..(c + 1) -> At(m)]
      <4> HIDE DEF c
      <4>1. \A i \in 1..c : s[i] \in At(m - 1)
        BY <2>2
      <4> HIDE DEF At
      <4> QED  BY <2>1, <3>1, <4>1
    <3>5. Rising(t, c + 1)
      <4> SUFFICES ASSUME NEW i \in 1..(c + 1), NEW j \in 1..(c + 1), i < j
                   PROVE  t[i] < t[j]
        OBVIOUS
      <4> HIDE DEF c
      <4>1. i \in 1..c /\ t[i] = s[i]
        BY <2>1
      <4>2. CASE j = c + 1
        BY <3>3, <4>1, <4>2
      <4>3. CASE j # c + 1
        BY <2>1, <2>2, <4>1, <4>3
      <4> QED  BY <4>2, <4>3
    <3> HIDE DEF t, At, Rising
    <3> QED  BY <3>2, <3>4, <3>5
  <2> QED  BY <2>3, <2>4
<1>4. T = {}
  <2> SUFFICES ASSUME T # {}
               PROVE  FALSE
    OBVIOUS
  <2>1. T \in SUBSET Nat
    OBVIOUS
  <2>2. PICK m \in T : \A k \in T : m <= k
    <3> HIDE DEF T
    <3> QED  BY <2>1, FirstNumber
  <2>3. m \in 0..n /\ ~Good(m)
    OBVIOUS
  <2> HIDE DEF Good
  <2>4. m \in 1..n
    BY <1>2, <2>3
  <2>5. m - 1 \in 0..n /\ m - 1 \notin T
    BY <2>2, <2>4
  <2> QED  BY <1>3, <2>3, <2>4, <2>5
<1>5. Good(n)
  <2> HIDE DEF Good
  <2> QED  BY <1>4
<1>6. At(n) = ids
  OBVIOUS
<1> QED  BY <1>5, <1>6

\* InOrder lists all positions, each once, the lower ones first.
LEMMA InOrderLists ==
  ASSUME NEW n \in Nat, NEW ids \in SUBSET (1..n)
  PROVE  LET s == InOrder(ids)
             c == Cardinality(ids)
         IN  /\ c \in Nat
             /\ s \in [1..c -> ids]
             /\ \A i, j \in 1..c : i < j => s[i] < s[j]
             /\ \A x \in ids : \E i \in 1..c : s[i] = x
<1> DEFINE c == Cardinality(ids)
<1>1. IsFiniteSet(ids) /\ c \in Nat
  BY PositionsFinite
<1>2. \E s \in [1..c -> ids] : \A i, j \in DOMAIN s : i < j => s[i] < s[j]
  <2>1. PICK s \in [1..c -> ids] : \A i, j \in 1..c : i < j => s[i] < s[j]
    BY CanBeOrdered
  <2>2. DOMAIN s = 1..c
    OBVIOUS
  <2> QED  BY <2>1, <2>2
<1>3. PICK s : s = InOrder(ids)
  OBVIOUS
<1>4. /\ s \in [1..c -> ids]
      /\ \A i, j \in DOMAIN s : i < j => s[i] < s[j]
  BY <1>2, <1>3 DEF InOrder
<1> HIDE DEF c
<1>5. DOMAIN s = 1..c
  BY <1>4
<1>6. \A i, j \in 1..c : i < j => s[i] < s[j]
  BY <1>4, <1>5
<1>7. s \in Injection(1..c, ids)
  BY <1>1, <1>4, <1>6, RisingIsInjective
<1>8. \A x \in ids : \E i \in 1..c : s[i] = x
  BY <1>1, <1>7, AllListed DEF c
<1> QED  BY <1>1, <1>3, <1>4, <1>6, <1>8 DEF c

-----------------------------------------------------------------------------
(* The newest of them *)

\* A list of the newest is falling, no longer than its limit, and leaves a position
\* out only if the limit is filled by higher ones.
LEMMA NewestLists ==
  ASSUME NEW n \in Nat, NEW ids \in SUBSET (1..n), NEW k \in Nat
  PROVE  LET s == NewestFirst(ids, k)
             m == Least(k, Cardinality(ids))
         IN  /\ m \in Nat /\ m <= k
             /\ s \in [1..m -> ids]
             /\ \A i, j \in 1..m : i < j => s[i] > s[j]
             /\ \A x \in ids :
                  (\A i \in 1..m : s[i] # x) => m = k /\ (\A i \in 1..m : s[i] > x)
<1> DEFINE c == Cardinality(ids)
           m == Least(k, c)
           s == NewestFirst(ids, k)
<1>1. PICK o : o = InOrder(ids)
  OBVIOUS
<1>2. /\ c \in Nat
      /\ o \in [1..c -> ids]
      /\ \A i, j \in 1..c : i < j => o[i] < o[j]
      /\ \A x \in ids : \E i \in 1..c : o[i] = x
  BY <1>1, InOrderLists
<1> HIDE DEF c
<1>3. m \in Nat /\ m <= k /\ m <= c /\ (m = k \/ m = c)
  BY <1>2 DEF Least
<1>4. s = [i \in 1..m |-> o[c + 1 - i]]
  BY <1>1 DEF NewestFirst, c
<1> HIDE DEF m, s
<1>5. \A i \in 1..m : c + 1 - i \in 1..c
  BY <1>2, <1>3
<1>6. s \in [1..m -> ids]
  BY <1>2, <1>4, <1>5
<1>7. ASSUME NEW i \in 1..m, NEW j \in 1..m, i < j
      PROVE  s[i] > s[j]
  <2>1. o[c + 1 - j] < o[c + 1 - i]
    BY <1>2, <1>3, <1>5, <1>7
  <2> QED  BY <1>4, <2>1
<1>8. ASSUME NEW x \in ids, \A i \in 1..m : s[i] # x
      PROVE  m = k /\ \A i \in 1..m : s[i] > x
  <2>1. PICK l \in 1..c : o[l] = x
    BY <1>2
  <2>2. ~ (c + 1 - l \in 1..m)
    <3>1. c + 1 - (c + 1 - l) = l
      BY <1>2
    <3> QED  BY <1>4, <1>8, <2>1, <3>1
  <2>3. c + 1 - l > m
    BY <1>2, <1>3, <2>2
  <2>4. m = k
    BY <1>2, <1>3, <2>3
  <2>5. ASSUME NEW i \in 1..m
        PROVE  s[i] > x
    <3>1. l < c + 1 - i
      BY <1>2, <1>3, <2>3
    <3>2. o[l] < o[c + 1 - i]
      BY <1>2, <1>5, <3>1
    <3> QED  BY <1>4, <2>1, <3>2
  <2> QED  BY <2>4, <2>5
<1> QED
  BY <1>3, <1>6, <1>7, <1>8 DEF c, m, s

\* The rank of a position: how many are not below it.
Rank(ids) == [x \in ids |-> Cardinality({y \in ids : y >= x})]

\* A position is listed at its rank. Those whose rank is within the limit are as
\* many as the list is long.
LEMMA NewestByRank ==
  ASSUME NEW n \in Nat, NEW ids \in SUBSET (1..n), NEW k \in Nat
  PROVE  LET m == Least(k, Cardinality(ids))
             rank == Rank(ids)
         IN  /\ \A x \in ids : rank[x] \in 1..Cardinality(ids)
             /\ \A x \in ids : rank[x] <= k => NewestFirst(ids, k)[rank[x]] = x
             /\ Cardinality({x \in ids : rank[x] <= k}) = m
<1> DEFINE c == Cardinality(ids)
           m == Least(k, c)
           s == NewestFirst(ids, k)
           Upward(x) == {y \in ids : y >= x}
           rank == Rank(ids)
           Shown == {x \in ids : rank[x] <= k}
<1>0. \A x \in ids : rank[x] = Cardinality(Upward(x))
  BY DEF Rank
<1> HIDE DEF rank
<1>1. PICK o : o = InOrder(ids)
  OBVIOUS
<1>2. /\ c \in Nat
      /\ o \in [1..c -> ids]
      /\ \A i, j \in 1..c : i < j => o[i] < o[j]
      /\ \A x \in ids : \E i \in 1..c : o[i] = x
  BY <1>1, InOrderLists
<1> HIDE DEF c
<1>3. m \in Nat /\ m <= k /\ m <= c /\ (m = k \/ m = c)
  BY <1>2 DEF Least
<1>4. s = [i \in 1..m |-> o[c + 1 - i]]
  BY <1>1 DEF NewestFirst, c
<1> HIDE DEF m, s
<1>5. \A i \in 1..c : o[i] \in ids /\ o[i] \in Nat
  <2>1. \A i \in 1..c : o[i] \in ids
    BY <1>2
  <2>2. \A x \in ids : x \in Nat
    OBVIOUS
  <2> QED  BY <2>1, <2>2
<1>6. \A i, j \in 1..c : o[i] = o[j] => i = j
  <2> SUFFICES ASSUME NEW i \in 1..c, NEW j \in 1..c, o[i] = o[j]
               PROVE  i = j
    OBVIOUS
  <2>1. ~(i < j) /\ ~(j < i)
    BY <1>2, <1>5
  <2> QED  BY <1>2, <2>1
<1>7. ASSUME NEW l \in 1..c
      PROVE  Cardinality(Upward(o[l])) = c + 1 - l
  <2> DEFINE f == [i \in l..c |-> o[i]]
  <2>1. IsFiniteSet(l..c) /\ Cardinality(l..c) = c + 1 - l
    BY <1>2, FS_Interval
  <2>2. ASSUME NEW i \in l..c
        PROVE  o[i] \in Upward(o[l])
    <3>1. i \in 1..c /\ (l < i \/ l = i)
      BY <1>2
    <3>2. o[i] >= o[l]
      BY <1>2, <1>5, <3>1
    <3> QED  BY <1>5, <3>1, <3>2
  <2>3. ASSUME NEW y \in Upward(o[l])
        PROVE  \E i \in l..c : o[i] = y
    <3>1. PICK i \in 1..c : o[i] = y
      BY <1>2
    <3>2. ~(i < l)
      BY <1>2, <1>5, <3>1
    <3>3. i \in l..c
      BY <1>2, <3>2
    <3> QED  BY <3>1, <3>3
  <2> HIDE DEF Upward
  <2>4. f \in [l..c -> Upward(o[l])]
    BY <2>2
  <2>5. \A i, j \in l..c : f[i] = f[j] => i = j
    <3>1. \A i \in l..c : i \in 1..c
      BY <1>2
    <3> QED  BY <1>6, <3>1
  <2>6. \A y \in Upward(o[l]) : \E i \in l..c : f[i] = y
    BY <2>3
  <2> HIDE DEF f
  <2> QED  BY <2>1, <2>4, <2>5, <2>6, SameSize
<1>8. ASSUME NEW x \in ids
      PROVE  /\ rank[x] \in 1..c
             /\ rank[x] <= k => s[rank[x]] = x
  <2>1. PICK l \in 1..c : o[l] = x
    BY <1>2
  <2>2. rank[x] = c + 1 - l
    <3> HIDE DEF Upward
    <3> QED  BY <1>0, <1>7, <2>1
  <2>3. c + 1 - l \in 1..c
    BY <1>2
  <2>4. ASSUME c + 1 - l <= k
        PROVE  s[c + 1 - l] = x
    <3>1. c + 1 - l \in 1..m
      BY <1>2, <1>3, <2>4
    <3>2. c + 1 - (c + 1 - l) = l
      BY <1>2
    <3> QED  BY <1>4, <2>1, <3>1, <3>2
  <2> QED  BY <2>2, <2>3, <2>4
<1>9. Cardinality(Shown) = m
  <2> DEFINE lo == c + 1 - m
             f == [i \in lo..c |-> o[i]]
  <2>1. IsFiniteSet(lo..c) /\ Cardinality(lo..c) = m
    BY <1>2, <1>3, FS_Interval
  <2>2. \A i \in lo..c : i \in 1..c
    BY <1>2, <1>3
  <2>3. \A l \in 1..c : o[l] \in Shown <=> c + 1 - l <= k
    <3> HIDE DEF Upward
    <3> QED  BY <1>0, <1>5, <1>7
  <2> HIDE DEF Shown
  <2>4. \A l \in 1..c : c + 1 - l <= k <=> l \in lo..c
    BY <1>2, <1>3
  <2>5. f \in [lo..c -> Shown]
    BY <2>2, <2>3, <2>4
  <2>6. \A i, j \in lo..c : f[i] = f[j] => i = j
    BY <1>6, <2>2
  <2>7. ASSUME NEW x \in Shown
        PROVE  \E i \in lo..c : f[i] = x
    <3>1. x \in ids
      BY DEF Shown
    <3>2. PICK l \in 1..c : o[l] = x
      BY <1>2, <3>1
    <3>3. l \in lo..c
      BY <2>3, <2>4, <3>2
    <3> QED  BY <3>2, <3>3
  <2> HIDE DEF f, lo
  <2> QED  BY <2>1, <2>5, <2>6, <2>7, SameSize
<1> QED
  BY <1>8, <1>9 DEF c, m, s, rank
=============================================================================
