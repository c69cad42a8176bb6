------------------------ MODULE BatchSharding_proofs ------------------------
(***************************************************************************)
(* Theorems about the packers and the sharding of a batch: whatever the    *)
(* lengths, a packer puts every item into one bin within the capacity, and *)
(* the shards of a batch hold each of its rows once.                       *)
(***************************************************************************)
EXTENDS BatchSharding, FiniteSetsExt, FiniteSetTheorems, SequenceTheorems,
        WellFoundedInduction, TLAPS

-----------------------------------------------------------------------------
(* Induction and recursion up to a number.                                 *)

LEMMA UpTo ==
  ASSUME NEW N \in Nat, NEW S, 0 \in S, \A n \in 1 .. N : n - 1 \in S => n \in S
  PROVE  \A n \in 0 .. N : n \in S
<1> DEFINE T == {n \in 0 .. N : n \notin S}
           R == OpToRel(<, Nat)
<1>1. R = {ss \in Nat \X Nat : ss[1] < ss[2]}
  BY DEF OpToRel
<1>2. IsWellFoundedOn(R, Nat)
  BY NatLessThanWellFounded DEF OpToRel
<1> SUFFICES ASSUME T # {} PROVE FALSE
  OBVIOUS
<1>t. T \subseteq Nat
  OBVIOUS
<1>3. PICK x \in T : \A y \in T : ~(<<y, x>> \in R)
  <2> HIDE DEF R, T
  <2> QED
    BY <1>2, <1>t, WFMin
<1> HIDE DEF R
<1>4. \A y \in T : ~(y < x)
  <2> HIDE DEF T
  <2> QED
    BY <1>1, <1>3, <1>t
<1>5. x \in 1 .. N /\ x \notin S /\ x - 1 \in 0 .. N /\ x - 1 < x
  OBVIOUS
<1>6. x - 1 \in S
  BY <1>4, <1>5
<1> QED
  BY <1>5, <1>6

(* A loop of N turns that starts with a and whose turns are given.         *)
Runs(m, g, a, turn, W) ==
    /\ g = [n \in 0 .. m |-> IF n = 0 THEN a ELSE turn[<<n, g[n - 1]>>]]
    /\ \A n \in 0 .. m : g[n] \in W[n]

LEMMA Iterates ==
  ASSUME NEW N \in Nat, NEW W, NEW turn, NEW a, a \in W[0],
         \A n \in 1 .. N : \A v \in W[n - 1] : turn[<<n, v>>] \in W[n]
  PROVE  \E g : Runs(N, g, a, turn, W)
<1> USE DEF Runs
<1> DEFINE S == {m \in 0 .. N : \E g : Runs(m, g, a, turn, W)}
<1>1. 0 \in S
  <2> DEFINE g == [n \in {0} |-> a]
  <2>1. 0 .. 0 = {0}
    OBVIOUS
  <2>2. g = [n \in 0 .. 0 |-> IF n = 0 THEN a ELSE turn[<<n, g[n - 1]>>]]
    BY <2>1
  <2>3. \A n \in 0 .. 0 : g[n] \in W[n]
    BY <2>1
  <2>4. Runs(0, g, a, turn, W)
    BY <2>2, <2>3
  <2> HIDE DEF Runs, g
  <2> QED
    BY <2>4
<1>2. ASSUME NEW m \in 1 .. N, m - 1 \in S PROVE m \in S
  <2>1. PICK h : Runs(m - 1, h, a, turn, W)
    BY <1>2
  <2> DEFINE g == [n \in 0 .. m |-> IF n < m THEN h[n] ELSE turn[<<m, h[m - 1]>>]]
  <2>2. \A n \in 0 .. m : n < m => g[n] = h[n]
    OBVIOUS
  <2>3. g[m] = turn[<<m, h[m - 1]>>]
    OBVIOUS
  <2>4. \A n \in 0 .. m - 1 :
           h[n] = IF n = 0 THEN a ELSE turn[<<n, h[n - 1]>>]
    BY <2>1
  <2>5. \A n \in 0 .. m : g[n] = IF n = 0 THEN a ELSE turn[<<n, g[n - 1]>>]
    <3> SUFFICES ASSUME NEW n \in 0 .. m
                 PROVE  g[n] = IF n = 0 THEN a ELSE turn[<<n, g[n - 1]>>]
      OBVIOUS
    <3> HIDE DEF g
    <3>1. CASE n = m
      <4>1. n # 0 /\ g[n - 1] = h[m - 1]
        BY <2>2, <3>1
      <4> QED
        BY <2>3, <3>1, <4>1
    <3>2. CASE n < m /\ n # 0
      <4>1. g[n] = h[n] /\ g[n - 1] = h[n - 1] /\ n \in 0 .. m - 1
        BY <2>2, <3>2
      <4> QED
        BY <2>4, <3>2, <4>1
    <3>3. CASE n = 0
      <4>1. g[n] = h[n] /\ n \in 0 .. m - 1
        BY <2>2, <3>3
      <4> QED
        BY <2>4, <3>3, <4>1
    <3> QED
      BY <3>1, <3>2, <3>3
  <2>6. g = [n \in 0 .. m |-> IF n = 0 THEN a ELSE turn[<<n, g[n - 1]>>]]
    <3>1. g = [n \in 0 .. m |-> g[n]]
      OBVIOUS
    <3> HIDE DEF g
    <3> QED
      BY <2>5, <3>1
  <2>7. \A n \in 0 .. m : g[n] \in W[n]
    <3> SUFFICES ASSUME NEW n \in 0 .. m PROVE g[n] \in W[n]
      OBVIOUS
    <3> HIDE DEF g
    <3>1. CASE n < m
      <4>1. n \in 0 .. m - 1 /\ g[n] = h[n]
        BY <2>2, <3>1
      <4> QED
        BY <2>1, <4>1
    <3>2. CASE n = m
      <4>1. h[m - 1] \in W[m - 1]
        BY <2>1
      <4> QED
        BY <2>3, <3>2, <4>1
    <3> QED
      BY <3>1, <3>2
  <2>8. Runs(m, g, a, turn, W)
    BY <2>6, <2>7
  <2> HIDE DEF Runs, g
  <2> QED
    BY <2>8
<1> HIDE DEF S
<1>3. N \in S
  BY <1>1, <1>2, UpTo
<1> QED
  BY <1>3 DEF S

-----------------------------------------------------------------------------
(* Sorting: the n-th member of a set is the one with n - 1 before it.      *)

IsTotalOrder(R, S) ==
    /\ \A i \in S : <<i, i>> \notin R
    /\ \A i, j, k \in S : <<i, j>> \in R /\ <<j, k>> \in R => <<i, k>> \in R
    /\ \A i, j \in S : i = j \/ <<i, j>> \in R \/ <<j, i>> \in R

Ahead(R, S, i) == {j \in S : <<j, i>> \in R}

SortedBy(R, S) ==
    [n \in 1 .. Cardinality(S) |->
        CHOOSE i \in S : Cardinality(Ahead(R, S, i)) = n - 1]

\* Each member once, and in the order of R.
InSortedOrder(s, R, S) ==
    /\ s \in Seq(S) /\ Len(s) = Cardinality(S)
    /\ \A i, j \in 1 .. Len(s) : i < j => <<s[i], s[j]>> \in R
    /\ \A i, j \in 1 .. Len(s) : s[i] = s[j] => i = j
    /\ \A x \in S : \E n \in 1 .. Len(s) : s[n] = x

LEMMA SortedIs ==
  ASSUME NEW S, IsFiniteSet(S), NEW R, IsTotalOrder(R, S)
  PROVE  InSortedOrder(SortedBy(R, S), R, S)
<1> DEFINE n == Cardinality(S)
           rank == [i \in S |-> Cardinality(Ahead(R, S, i))]
<1>1. n \in Nat
  BY FS_CardinalityType
<1>2. ASSUME NEW i \in S
      PROVE  IsFiniteSet(Ahead(R, S, i)) /\ rank[i] \in 0 .. n - 1
  <2>1. Ahead(R, S, i) \subseteq S \ {i}
    BY DEF Ahead, IsTotalOrder
  <2>2. IsFiniteSet(S \ {i}) /\ Cardinality(S \ {i}) = n - 1
    BY FS_RemoveElement
  <2>3. /\ IsFiniteSet(Ahead(R, S, i))
        /\ Cardinality(Ahead(R, S, i)) <= n - 1
    BY <2>1, <2>2, FS_Subset
  <2>4. Cardinality(Ahead(R, S, i)) \in Nat
    BY <2>3, FS_CardinalityType
  <2> QED
    BY <1>1, <2>3, <2>4
<1>3. ASSUME NEW i \in S, NEW j \in S, <<i, j>> \in R
      PROVE  rank[i] < rank[j]
  <2>1. Ahead(R, S, i) \subseteq Ahead(R, S, j) \ {i}
    BY <1>3 DEF Ahead, IsTotalOrder
  <2>2. i \in Ahead(R, S, j)
    BY <1>3 DEF Ahead
  <2>3. IsFiniteSet(Ahead(R, S, j)) /\ rank[j] \in 0 .. n - 1 /\ rank[i] \in 0 .. n - 1
    BY <1>2
  <2>4. /\ IsFiniteSet(Ahead(R, S, j) \ {i})
        /\ Cardinality(Ahead(R, S, j) \ {i}) = Cardinality(Ahead(R, S, j)) - 1
    BY <2>2, <2>3, FS_RemoveElement
  <2>5. Cardinality(Ahead(R, S, i)) <= Cardinality(Ahead(R, S, j)) - 1
    BY <2>1, <2>4, FS_Subset
  <2> QED
    BY <1>1, <2>3, <2>5
<1> HIDE DEF rank
<1>4. \A i, j \in S : rank[i] = rank[j] => i = j
  <2> SUFFICES ASSUME NEW i \in S, NEW j \in S, rank[i] = rank[j] PROVE i = j
    OBVIOUS
  <2>1. rank[i] \in Int /\ rank[j] \in Int
    BY <1>1, <1>2
  <2>2. <<i, j>> \notin R /\ <<j, i>> \notin R
    BY <1>3, <2>1
  <2> QED
    BY <2>2 DEF IsTotalOrder
<1>5. \A m \in 0 .. n - 1 : \E i \in S : rank[i] = m
  <2> DEFINE T == {rank[i] : i \in S}
  <2>1. T \subseteq 0 .. n - 1
    BY <1>2
  <2>2. IsFiniteSet(0 .. n - 1) /\ Cardinality(0 .. n - 1) = n
    <3>1. 0 \in Int /\ n - 1 \in Int
      BY <1>1
    <3>2. /\ IsFiniteSet(0 .. n - 1)
          /\ Cardinality(0 .. n - 1) = IF 0 > n - 1 THEN 0 ELSE (n - 1) - 0 + 1
      BY <3>1, FS_Interval
    <3> QED
      BY <1>1, <3>2
  <2>3. Cardinality(T) = n
    <3> DEFINE f == [i \in S |-> rank[i]]
    <3>1. f \in [S -> T] /\ (\A i, j \in S : f[i] = f[j] => i = j)
          /\ \A t \in T : \E i \in S : f[i] = t
      BY <1>4
    <3> HIDE DEF f, T
    <3>2. f \in Bijection(S, T)
      BY <3>1 DEF Bijection, Injection, Surjection, IsInjective
    <3>3. ExistsBijection(S, T)
      BY <3>2 DEF ExistsBijection
    <3> QED
      BY <3>3, FS_Bijection
  <2> HIDE DEF T
  <2>4. T = 0 .. n - 1
    BY <2>1, <2>2, <2>3, FS_Subset
  <2> QED
    BY <2>4 DEF T
<1> DEFINE s == SortedBy(R, S)
<1>6. \A m \in 1 .. n : s[m] \in S /\ rank[s[m]] = m - 1
  <2> SUFFICES ASSUME NEW m \in 1 .. n PROVE s[m] \in S /\ rank[s[m]] = m - 1
    OBVIOUS
  <2>1. \E i \in S : rank[i] = m - 1
    BY <1>1, <1>5
  <2>2. \E i \in S : Cardinality(Ahead(R, S, i)) = m - 1
    BY <2>1 DEF rank
  <2>3. s[m] = CHOOSE i \in S : Cardinality(Ahead(R, S, i)) = m - 1
    BY DEF SortedBy
  <2>4. s[m] \in S /\ Cardinality(Ahead(R, S, s[m])) = m - 1
    BY <2>2, <2>3
  <2> QED
    BY <2>4 DEF rank
<1>7. s \in Seq(S) /\ Len(s) = n
  <2>1. s = [m \in 1 .. n |-> s[m]]
    BY DEF SortedBy
  <2> HIDE DEF s
  <2> QED
    BY <1>1, <1>6, <2>1
<1> HIDE DEF s, n
<1>8. \A i, j \in 1 .. n : s[i] = s[j] => i = j
  BY <1>1, <1>6
<1>9. \A i, j \in 1 .. n : i < j => <<s[i], s[j]>> \in R
  <2> SUFFICES ASSUME NEW i \in 1 .. n, NEW j \in 1 .. n, i < j
               PROVE  <<s[i], s[j]>> \in R
    OBVIOUS
  <2>1. /\ s[i] \in S /\ s[j] \in S /\ rank[s[i]] = i - 1 /\ rank[s[j]] = j - 1
    BY <1>6
  <2>2. s[i] # s[j]
    BY <1>1, <1>8
  <2>3. <<s[j], s[i]>> \notin R
    BY <1>1, <1>3, <2>1
  <2> QED
    BY <2>1, <2>2, <2>3 DEF IsTotalOrder
<1>10. \A x \in S : \E m \in 1 .. n : s[m] = x
  <2> SUFFICES ASSUME NEW x \in S PROVE \E m \in 1 .. n : s[m] = x
    OBVIOUS
  <2>1. rank[x] \in 0 .. n - 1
    BY <1>2 DEF n
  <2> DEFINE m == rank[x] + 1
  <2>2. m \in 1 .. n /\ m - 1 = rank[x]
    BY <1>1, <2>1
  <2>3. s[m] \in S /\ rank[s[m]] = rank[x]
    BY <1>6, <2>2
  <2>4. s[m] = x
    BY <1>4, <2>3
  <2> QED
    BY <2>2, <2>4
<1> QED
  BY <1>7, <1>8, <1>9, <1>10 DEF InSortedOrder, s, n

-----------------------------------------------------------------------------
(* Joining the parts of a list, one after the other.                       *)

Flatten(ss) ==
    CHOOSE flatten : flatten = [i \in 1 .. Len(ss) |->
        IF i = 1 THEN ss[i] ELSE flatten[i - 1] \o ss[i]]

\* g has the parts joined so far.
Joins(g, ss, X) ==
    /\ g[0] = <<>>
    /\ \A i \in 0 .. Len(ss) : g[i] \in Seq(X)
    /\ \A i \in 1 .. Len(ss) : g[i] = g[i - 1] \o ss[i]
    /\ FlattenSeq(ss) = g[Len(ss)]

LEMMA FlattenJoins ==
  ASSUME NEW X, NEW ss \in Seq(Seq(X))
  PROVE  \E g : Joins(g, ss, X)
<1> DEFINE N == Len(ss)
           W == [n \in 0 .. N |-> Seq(X)]
           turn == [p \in (1 .. N) \X Seq(X) |-> p[2] \o ss[p[1]]]
<1>1. N \in Nat /\ \A i \in 1 .. N : ss[i] \in Seq(X)
  BY ElementOfSeq, LenProperties
<1>2. ASSUME NEW n \in 1 .. N, NEW v \in W[n - 1]
      PROVE  turn[<<n, v>>] \in W[n] /\ turn[<<n, v>>] = v \o ss[n]
  <2>1. v \in Seq(X) /\ ss[n] \in Seq(X)
    BY <1>1
  <2>2. v \o ss[n] \in Seq(X)
    BY <2>1, ConcatProperties
  <2>3. W[n] = Seq(X)
    <3>1. n \in 0 .. N
      BY <1>1
    <3> QED
      BY <3>1
  <2>4. <<n, v>> \in (1 .. N) \X Seq(X) /\ <<n, v>>[1] = n /\ <<n, v>>[2] = v
    BY <2>1
  <2>5. turn[<<n, v>>] = v \o ss[n]
    <3> HIDE DEF N
    <3> QED
      BY <2>4
  <2> QED
    BY <2>2, <2>3, <2>5
<1>3. <<>> \in W[0]
  BY <1>1, EmptySeq
<1> HIDE DEF N, W, turn
<1>4. PICK g : Runs(N, g, <<>>, turn, W)
  BY <1>1, <1>2, <1>3, Iterates
<1>5. /\ \A n \in 0 .. N : g[n] \in Seq(X)
      /\ g[0] = <<>>
      /\ \A n \in 1 .. N : g[n] = g[n - 1] \o ss[n]
  <2>1. \A n \in 0 .. N : g[n] \in W[n]
    BY <1>4 DEF Runs
  <2>2. /\ g[0] = <<>>
        /\ \A n \in 1 .. N : g[n] = turn[<<n, g[n - 1]>>]
    BY <1>1, <1>4 DEF Runs
  <2>3. \A n \in 1 .. N : g[n - 1] \in W[n - 1]
    BY <1>1, <2>1
  <2>4. \A n \in 0 .. N : W[n] = Seq(X)
    BY DEF W
  <2> QED
    BY <1>2, <2>1, <2>2, <2>3, <2>4
<1>6. FlattenSeq(ss) = g[N]
  <2>1. CASE N = 0
    <3>1. ss = <<>>
      BY <2>1, EmptySeq DEF N
    <3> QED
      BY <1>5, <2>1, <3>1 DEF FlattenSeq, N
  <2>2. CASE N # 0
    <3> DEFINE f == [i \in 1 .. N |-> g[i]]
    <3>1. g[1] = ss[1]
      <4>a. 1 \in 1 .. N /\ 1 - 1 = 0
        BY <1>1, <2>2
      <4>b. g[1] = g[1 - 1] \o ss[1]
        BY <1>5, <4>a
      <4>1. g[1] = <<>> \o ss[1] /\ ss[1] \in Seq(X)
        BY <1>1, <1>5, <4>a, <4>b
      <4> QED
        BY <4>1, ConcatEmptySeq
    <3>2. f = [i \in 1 .. N |-> IF i = 1 THEN ss[i] ELSE f[i - 1] \o ss[i]]
      <4>1. \A i \in 1 .. N : f[i] = IF i = 1 THEN ss[i] ELSE f[i - 1] \o ss[i]
        <5> SUFFICES ASSUME NEW i \in 1 .. N
                     PROVE  f[i] = IF i = 1 THEN ss[i] ELSE f[i - 1] \o ss[i]
          OBVIOUS
        <5>1. i # 1 => i - 1 \in 1 .. N
          BY <1>1
        <5>2. f[i] = g[i] /\ (i # 1 => f[i - 1] = g[i - 1])
          BY <5>1
        <5> QED
          BY <1>5, <3>1, <5>2
      <4>2. f = [i \in 1 .. N |-> f[i]]
        BY SMTT(30)
      <4> HIDE DEF f
      <4> QED
        BY <4>1, <4>2
    <3> HIDE DEF f
    <3> DEFINE F == Flatten(ss)
    <3>3. F = [i \in 1 .. N |-> IF i = 1 THEN ss[i] ELSE F[i - 1] \o ss[i]]
      BY <3>2 DEF Flatten, N
    <3>4. FlattenSeq(ss) = F[N]
      BY <2>2 DEF FlattenSeq, Flatten, N
    <3> HIDE DEF F
    <3>5. \A n \in 0 .. N : n = 0 \/ F[n] = g[n]
      <4> DEFINE S == {n \in 0 .. N : n = 0 \/ F[n] = g[n]}
      <4>1. 0 \in S
        BY <1>1
      <4>2. ASSUME NEW n \in 1 .. N, n - 1 \in S PROVE n \in S
        <5>1. F[n] = IF n = 1 THEN ss[n] ELSE F[n - 1] \o ss[n]
          BY <3>3
        <5>2. n # 1 => F[n - 1] = g[n - 1]
          BY <4>2
        <5>3. g[n] = g[n - 1] \o ss[n]
          BY <1>5
        <5>4. F[n] = g[n]
          BY <3>1, <5>1, <5>2, <5>3
        <5> QED
          BY <5>4
      <4>3. \A n \in 0 .. N : n \in S
        <5> HIDE DEF S
        <5> QED
          BY <1>1, <4>1, <4>2, UpTo
      <4> QED
        BY <4>3
    <3> QED
      BY <1>1, <2>2, <3>4, <3>5
  <2> QED
    BY <2>1, <2>2
<1> QED
  BY <1>5, <1>6 DEF Joins, N

\* No member twice.
Once(s) == \A i, j \in 1 .. Len(s) : s[i] = s[j] => i = j

\* No two parts have a member in common.
Apart(ss) ==
    \A k, l \in 1 .. Len(ss) : k # l =>
        \A i \in 1 .. Len(ss[k]), j \in 1 .. Len(ss[l]) : ss[k][i] # ss[l][j]

MemberOf(s, x) == \E i \in 1 .. Len(s) : s[i] = x

LEMMA JoinMembers ==
  ASSUME NEW X, NEW s \in Seq(X), NEW t \in Seq(X)
  PROVE  /\ \A x : MemberOf(s \o t, x) <=> MemberOf(s, x) \/ MemberOf(t, x)
         /\ Once(s) /\ Once(t) /\ (\A x : ~(MemberOf(s, x) /\ MemberOf(t, x)))
               => Once(s \o t)
<1> DEFINE u == s \o t
           m == Len(s)
           n == Len(t)
<1>1. m \in Nat /\ n \in Nat /\ Len(u) = m + n
  BY ConcatProperties, LenProperties
<1>2. \A i \in 1 .. m : i \in 1 .. m + n /\ u[i] = s[i]
  BY <1>1, ConcatProperties
<1>3. \A i \in m + 1 .. m + n : i - m \in 1 .. n /\ u[i] = t[i - m]
  <2>1. \A i \in 1 .. m + n : u[i] = IF i <= m THEN s[i] ELSE t[i - m]
    BY ConcatProperties
  <2> HIDE DEF u, m, n
  <2> QED
    BY <1>1, <2>1
<1> HIDE DEF u, m, n
<1>4. \A i \in 1 .. m + n : i \in 1 .. m \/ i \in m + 1 .. m + n
  BY <1>1
<1>5. ASSUME NEW x PROVE MemberOf(u, x) <=> MemberOf(s, x) \/ MemberOf(t, x)
  <2>1. ASSUME MemberOf(u, x) PROVE MemberOf(s, x) \/ MemberOf(t, x)
    <3>1. PICK i \in 1 .. m + n : u[i] = x
      BY <1>1, <2>1 DEF MemberOf
    <3> QED
      BY <1>2, <1>3, <1>4, <3>1 DEF MemberOf, m, n
  <2>2. ASSUME MemberOf(s, x) PROVE MemberOf(u, x)
    BY <1>1, <1>2, <2>2 DEF MemberOf, m
  <2>3. ASSUME MemberOf(t, x) PROVE MemberOf(u, x)
    <3>1. PICK i \in 1 .. n : t[i] = x
      BY <2>3 DEF MemberOf, n
    <3> DEFINE j == i + m
    <3>2. j \in m + 1 .. m + n /\ j - m = i /\ j \in 1 .. m + n
      BY <1>1
    <3> HIDE DEF j
    <3>3. u[j] = x
      BY <1>3, <3>1, <3>2
    <3> QED
      BY <1>1, <3>2, <3>3 DEF MemberOf
  <2> QED
    BY <2>1, <2>2, <2>3
<1>6. ASSUME Once(s), Once(t), \A x : ~(MemberOf(s, x) /\ MemberOf(t, x))
      PROVE  Once(u)
  <2>1. \A i, j \in 1 .. m : s[i] = s[j] => i = j
    BY <1>6 DEF Once, m
  <2>2. \A i, j \in 1 .. n : t[i] = t[j] => i = j
    BY <1>6 DEF Once, n
  <2>3. \A i \in 1 .. m, j \in 1 .. n : s[i] # t[j]
    BY <1>6 DEF MemberOf, m, n
  <2> SUFFICES ASSUME NEW i \in 1 .. m + n, NEW j \in 1 .. m + n, u[i] = u[j]
               PROVE  i = j
    BY <1>1 DEF Once
  <2>4. CASE i \in 1 .. m /\ j \in 1 .. m
    BY <1>2, <2>1, <2>4
  <2>5. CASE i \in m + 1 .. m + n /\ j \in m + 1 .. m + n
    <3>1. i - m = j - m
      BY <1>3, <2>2, <2>5
    <3> QED
      BY <1>1, <3>1
  <2>6. CASE i \in 1 .. m /\ j \in m + 1 .. m + n
    BY <1>2, <1>3, <2>3, <2>6
  <2>7. CASE i \in m + 1 .. m + n /\ j \in 1 .. m
    BY <1>2, <1>3, <2>3, <2>7
  <2> QED
    BY <1>4, <2>4, <2>5, <2>6, <2>7
<1> QED
  BY <1>5, <1>6 DEF u

\* What is joined has the members of its parts, each once if each part has
\* its own once.
LEMMA FlattenMembers ==
  ASSUME NEW X, NEW ss \in Seq(Seq(X))
  PROVE  /\ FlattenSeq(ss) \in Seq(X)
         /\ \A x : MemberOf(FlattenSeq(ss), x)
                      <=> \E k \in 1 .. Len(ss) : MemberOf(ss[k], x)
         /\ (\A k \in 1 .. Len(ss) : Once(ss[k])) /\ Apart(ss)
               => Once(FlattenSeq(ss))
<1> DEFINE N == Len(ss)
<1>1. PICK g : Joins(g, ss, X)
  BY FlattenJoins
<1>2. N \in Nat /\ \A i \in 1 .. N : ss[i] \in Seq(X)
  BY ElementOfSeq, LenProperties
<1>3. /\ g[0] = <<>> /\ FlattenSeq(ss) = g[N]
      /\ \A i \in 0 .. N : g[i] \in Seq(X)
      /\ \A i \in 1 .. N : g[i] = g[i - 1] \o ss[i]
  BY <1>1 DEF Joins
<1> HIDE DEF N
<1> DEFINE Has(n) == \A x : MemberOf(g[n], x) <=> \E k \in 1 .. n : MemberOf(ss[k], x)
           S == {n \in 0 .. N : Has(n)}
<1>4. \A n \in 0 .. N : Has(n)
  <2>1. 0 \in S
    BY <1>2, <1>3 DEF MemberOf
  <2>2. ASSUME NEW n \in 1 .. N, n - 1 \in S PROVE n \in S
    <3>a. n - 1 \in 0 .. N /\ n \in 0 .. N
      BY <1>2
    <3>b. Has(n - 1)
      BY <2>2
    <3>1. /\ g[n] = g[n - 1] \o ss[n] /\ g[n - 1] \in Seq(X) /\ ss[n] \in Seq(X)
          /\ n - 1 \in 0 .. N /\ n \in 0 .. N
      BY <1>2, <1>3, <3>a
    <3>2. \A x : MemberOf(g[n], x) <=> MemberOf(g[n - 1], x) \/ MemberOf(ss[n], x)
      BY <3>1, JoinMembers
    <3>3. \A k : k \in 1 .. n <=> k \in 1 .. n - 1 \/ k = n
      BY <1>2
    <3>4. Has(n)
      BY <3>b, <3>2, <3>3
    <3> HIDE DEF Has
    <3> QED
      BY <3>1, <3>4
  <2>3. \A n \in 0 .. N : n \in S
    <3> HIDE DEF S
    <3> QED
      BY <1>2, <2>1, <2>2, UpTo
  <2> QED
    BY <2>3
<1>5. ASSUME \A k \in 1 .. N : Once(ss[k]), Apart(ss) PROVE Once(g[N])
  <2> DEFINE U == {n \in 0 .. N : Once(g[n])}
  <2>1. 0 \in U
    BY <1>2, <1>3 DEF Once
  <2>2. ASSUME NEW n \in 1 .. N, n - 1 \in U PROVE n \in U
    <3>a. n - 1 \in 0 .. N /\ n \in 0 .. N
      BY <1>2
    <3>b. Once(g[n - 1]) /\ Once(ss[n])
      BY <1>5, <2>2
    <3>1. /\ g[n] = g[n - 1] \o ss[n] /\ g[n - 1] \in Seq(X) /\ ss[n] \in Seq(X)
          /\ n - 1 \in 0 .. N /\ n \in 0 .. N
      BY <1>2, <1>3, <3>a
    <3>2. ASSUME NEW x, MemberOf(g[n - 1], x), MemberOf(ss[n], x) PROVE FALSE
      <4>1. PICK k \in 1 .. n - 1 : MemberOf(ss[k], x)
        <5>1. Has(n - 1)
          BY <1>4, <3>1
        <5> QED
          BY <3>2, <5>1
      <4>2. k \in 1 .. N /\ k # n
        BY <1>2
      <4> QED
        BY <1>5, <3>2, <4>1, <4>2 DEF Apart, MemberOf, N
    <3>3. Once(g[n])
      BY <3>b, <3>1, <3>2, JoinMembers
    <3> QED
      BY <3>1, <3>3
  <2>3. \A n \in 0 .. N : n \in U
    <3> HIDE DEF U
    <3> QED
      BY <1>2, <2>1, <2>2, UpTo
  <2> QED
    BY <1>2, <2>3
<1>6. N \in 0 .. N
  BY <1>2
<1>7. FlattenSeq(ss) \in Seq(X) /\ Has(N)
  BY <1>3, <1>4, <1>6
<1> QED
  BY <1>3, <1>5, <1>7 DEF N

\* Consecutive pieces of a list make up the list again.
LEMMA FlattenPieces ==
  ASSUME NEW X, NEW ss \in Seq(Seq(X)), NEW b \in Seq(X), NEW e, e[0] = 0,
         \A i \in 0 .. Len(ss) : e[i] \in 0 .. Len(b),
         \A i \in 1 .. Len(ss) :
             e[i - 1] <= e[i] /\ ss[i] = SubSeq(b, e[i - 1] + 1, e[i])
  PROVE  FlattenSeq(ss) = SubSeq(b, 1, e[Len(ss)])
<1> DEFINE N == Len(ss)
<1>1. PICK g : Joins(g, ss, X)
  BY FlattenJoins
<1>2. N \in Nat /\ Len(b) \in Nat
  BY LenProperties
<1>3. g[0] = <<>> /\ FlattenSeq(ss) = g[N] /\ \A i \in 1 .. N : g[i] = g[i - 1] \o ss[i]
  BY <1>1 DEF Joins
<1> HIDE DEF N
<1> DEFINE T == {n \in 0 .. N : g[n] = SubSeq(b, 1, e[n])}
<1>4. 0 \in T
  <2>1. SubSeq(b, 1, 0) = <<>>
    BY SubSeqEmpty
  <2>2. SubSeq(b, 1, e[0]) = <<>> /\ 0 \in 0 .. N
    BY <1>2, <2>1
  <2> QED
    BY <1>3, <2>2
<1>5. ASSUME NEW n \in 1 .. N, n - 1 \in T PROVE n \in T
  <2> DEFINE p == e[n - 1]
             q == e[n]
  <2>1. /\ p \in 0 .. Len(b) /\ q \in 0 .. Len(b) /\ p <= q
        /\ ss[n] = SubSeq(b, p + 1, q)
    BY <1>2 DEF N
  <2>2. g[n] = SubSeq(b, 1, p) \o SubSeq(b, p + 1, q)
    BY <1>3, <1>5, <2>1
  <2> HIDE DEF p, q
  <2>3. 1 \in 1 .. Len(b) + 1 /\ p \in 1 - 1 .. Len(b) /\ q \in p .. Len(b)
    BY <1>2, <2>1
  <2>4. SubSeq(b, 1, p) \o SubSeq(b, p + 1, q) = SubSeq(b, 1, q)
    BY <2>3, ConcatAdjacentSubSeq
  <2>5. g[n] = SubSeq(b, 1, q)
    BY <2>2, <2>4, Zenon
  <2>6. n \in 0 .. N
    BY <1>2
  <2> QED
    BY <2>5, <2>6 DEF q
<1>6. \A n \in 0 .. N : n \in T
  <2> HIDE DEF T
  <2> QED
    BY <1>2, <1>4, <1>5, UpTo
<1> QED
  BY <1>2, <1>3, <1>6 DEF N

(* The load of a bin: the lengths of its items added up, one by one.       *)
Sums(g, bin, lens) ==
    /\ g[0] = 0
    /\ \A n \in 0 .. Len(bin) : g[n] \in Nat
    /\ \A n \in 1 .. Len(bin) : g[n] = g[n - 1] + lens[bin[n]]
    /\ Load(bin, lens) = g[Len(bin)]

Weighs(lens, I) == \A i \in I : lens[i] \in Nat

Sum(bin, lens) ==
    CHOOSE sum : sum = [n \in 0 .. Len(bin) |->
        IF n = 0 THEN 0 ELSE sum[n - 1] + lens[bin[n]]]

LEMMA LoadSums ==
  ASSUME NEW I, NEW bin \in Seq(I), NEW lens, Weighs(lens, I)
  PROVE  \E g : Sums(g, bin, lens)
<1> DEFINE N == Len(bin)
           W == [n \in 0 .. N |-> Nat]
           turn == [p \in (1 .. N) \X Nat |-> p[2] + lens[bin[p[1]]]]
<1>1. N \in Nat /\ \A n \in 1 .. N : bin[n] \in I /\ lens[bin[n]] \in Nat
  BY ElementOfSeq, LenProperties DEF Weighs
<1>2. ASSUME NEW n \in 1 .. N, NEW v \in W[n - 1]
      PROVE  turn[<<n, v>>] \in W[n] /\ turn[<<n, v>>] = v + lens[bin[n]]
  <2>1. n - 1 \in 0 .. N /\ n \in 0 .. N
    BY <1>1
  <2>2. v \in Nat /\ lens[bin[n]] \in Nat
    BY <1>1, <2>1
  <2>3. turn[<<n, v>>] = v + lens[bin[n]]
    BY <2>2
  <2> HIDE DEF turn
  <2> QED
    BY <2>1, <2>2, <2>3
<1>3. 0 \in W[0]
  BY <1>1
<1> HIDE DEF N, W, turn
<1>4. PICK g : Runs(N, g, 0, turn, W)
  <2>1. \A n \in 1 .. N : \A v \in W[n - 1] : turn[<<n, v>>] \in W[n]
    BY <1>2
  <2> QED
    BY <1>1, <1>3, <2>1, Iterates
<1>5. ASSUME NEW n \in 1 .. N
      PROVE  turn[<<n, g[n - 1]>>] = g[n - 1] + lens[bin[n]]
  <2>1. n - 1 \in 0 .. N
    BY <1>1
  <2>2. g[n - 1] \in W[n - 1]
    BY <1>4, <2>1 DEF Runs
  <2> QED
    BY <1>2, <2>2
<1>6. g = [n \in 0 .. N |-> IF n = 0 THEN 0 ELSE g[n - 1] + lens[bin[n]]]
  <2>1. g = [n \in 0 .. N |-> IF n = 0 THEN 0 ELSE turn[<<n, g[n - 1]>>]]
    BY <1>4 DEF Runs
  <2>2. \A n \in 0 .. N : n # 0 => turn[<<n, g[n - 1]>>] = g[n - 1] + lens[bin[n]]
    <3>1. \A n \in 0 .. N : n # 0 => n \in 1 .. N
      BY <1>1
    <3> QED
      BY <1>5, <3>1
  <2> QED
    BY <2>1, <2>2
<1> DEFINE f == Sum(bin, lens)
<1>7. f = [n \in 0 .. N |-> IF n = 0 THEN 0 ELSE f[n - 1] + lens[bin[n]]]
  BY <1>6 DEF Sum, N
<1>8. Load(bin, lens) = f[N]
  BY Zenon DEF Load, Sum, N
<1> HIDE DEF f
<1>9. f[0] = 0 /\ \A n \in 1 .. N : f[n] = f[n - 1] + lens[bin[n]]
  BY <1>1, <1>7
<1>10. \A n \in 0 .. N : f[n] \in Nat
  <2> DEFINE S == {n \in 0 .. N : f[n] \in Nat}
  <2>1. 0 \in S
    BY <1>1, <1>9
  <2>2. ASSUME NEW n \in 1 .. N, n - 1 \in S PROVE n \in S
    BY <1>1, <1>9, <2>2
  <2>3. \A n \in 0 .. N : n \in S
    <3> HIDE DEF S
    <3> QED
      BY <1>1, <2>1, <2>2, UpTo
  <2> QED
    BY <2>3
<1> QED
  BY <1>8, <1>9, <1>10 DEF Sums, N

\* Bins with the same lengths in the same places have the same load.
LEMMA SameLoad ==
  ASSUME NEW I, NEW bin \in Seq(I), NEW lens, Weighs(lens, I),
         NEW J, NEW other \in Seq(J), NEW weights, Weighs(weights, J),
         Len(other) = Len(bin),
         \A n \in 1 .. Len(bin) : weights[other[n]] = lens[bin[n]]
  PROVE  Load(other, weights) = Load(bin, lens)
<1> DEFINE N == Len(bin)
<1>1. N \in Nat
  BY LenProperties
<1>2. PICK g : Sums(g, bin, lens)
  BY LoadSums
<1>3. PICK h : Sums(h, other, weights)
  BY LoadSums
<1> HIDE DEF N
<1>4. /\ g[0] = 0 /\ h[0] = 0
      /\ \A n \in 1 .. N : g[n] = g[n - 1] + lens[bin[n]]
      /\ \A n \in 1 .. N : h[n] = h[n - 1] + lens[bin[n]]
      /\ Load(bin, lens) = g[N] /\ Load(other, weights) = h[N]
  BY <1>2, <1>3 DEF Sums, N
<1> DEFINE S == {n \in 0 .. N : g[n] = h[n]}
<1>5. 0 \in S
  BY <1>1, <1>4
<1>6. ASSUME NEW n \in 1 .. N, n - 1 \in S PROVE n \in S
  <2>1. g[n] = g[n - 1] + lens[bin[n]] /\ h[n] = h[n - 1] + lens[bin[n]]
    BY <1>4
  <2> QED
    BY <1>1, <1>6, <2>1
<1>7. \A n \in 0 .. N : n \in S
  <2> HIDE DEF S
  <2> QED
    BY <1>1, <1>5, <1>6, UpTo
<1> QED
  BY <1>1, <1>4, <1>7

LEMMA LoadIs ==
  ASSUME NEW I, NEW bin \in Seq(I), NEW lens, Weighs(lens, I)
  PROVE  /\ Load(bin, lens) \in Nat
         /\ Load(<<>>, lens) = 0
         /\ \A i \in I : Load(Append(bin, i), lens) = Load(bin, lens) + lens[i]
<1>1. PICK g : Sums(g, bin, lens)
  BY LoadSums
<1>2. Len(bin) \in Nat
  BY LenProperties
<1>3. Load(bin, lens) \in Nat
  BY <1>1, <1>2 DEF Sums
<1>4. Load(<<>>, lens) = 0
  <2>1. <<>> \in Seq(I) /\ Len(<<>>) = 0
    BY EmptySeq
  <2>2. PICK e : Sums(e, <<>>, lens)
    BY <2>1, LoadSums
  <2> QED
    BY <2>1, <2>2 DEF Sums
<1>5. ASSUME NEW i \in I
      PROVE  Load(Append(bin, i), lens) = Load(bin, lens) + lens[i]
  <2> DEFINE more == Append(bin, i)
             N == Len(bin)
  <2>1. more \in Seq(I) /\ Len(more) = N + 1 /\ more[N + 1] = i
        /\ \A n \in 1 .. N : more[n] = bin[n]
    BY AppendProperties
  <2> HIDE DEF more
  <2>2. PICK h : Sums(h, more, lens)
    BY <2>1, LoadSums
  <2>3. /\ g[0] = 0 /\ h[0] = 0
        /\ \A n \in 1 .. N : g[n] = g[n - 1] + lens[bin[n]]
        /\ \A n \in 1 .. N + 1 : h[n] = h[n - 1] + lens[more[n]]
        /\ Load(bin, lens) = g[N] /\ Load(more, lens) = h[N + 1]
    BY <1>1, <2>1, <2>2 DEF Sums
  <2> HIDE DEF N
  <2>a. N \in Nat
    BY <1>2 DEF N
  <2> DEFINE S == {n \in 0 .. N : g[n] = h[n]}
  <2>4. 0 \in S
    BY <2>a, <2>3
  <2>5. ASSUME NEW n \in 1 .. N, n - 1 \in S PROVE n \in S
    <3>1. n \in 1 .. N + 1
      BY <2>a
    <3>2. g[n] = g[n - 1] + lens[bin[n]] /\ h[n] = h[n - 1] + lens[bin[n]]
      BY <2>1, <2>3, <3>1
    <3> QED
      BY <2>a, <2>5, <3>2
  <2>6. \A n \in 0 .. N : n \in S
    <3> HIDE DEF S
    <3> QED
      BY <2>a, <2>4, <2>5, UpTo
  <2>7. g[N] = h[N]
    BY <2>a, <2>6
  <2>8. N + 1 \in 1 .. N + 1 /\ N + 1 - 1 = N
    BY <2>a
  <2>9. ASSUME NEW m \in 1 .. N + 1, m = N + 1 PROVE h[m] = h[N] + lens[more[m]]
    <3>1. m - 1 = N
      BY <2>a, <2>9
    <3>2. h[m] = h[m - 1] + lens[more[m]]
      BY <2>3
    <3> QED
      BY <3>1, <3>2, Zenon
  <2>10. Load(more, lens) = h[N] + lens[i]
    <3>1. h[N + 1] = h[N] + lens[more[N + 1]]
      BY <2>8, <2>9
    <3> QED
      BY <2>1, <2>3, <3>1
  <2>11. Load(more, lens) = Load(bin, lens) + lens[i]
    BY <2>3, <2>7, <2>10
  <2> QED
    BY <2>11 DEF more
<1> QED
  BY <1>3, <1>4, <1>5

LEMMA AppendMembers ==
  ASSUME NEW X, NEW s \in Seq(X), NEW i \in X
  PROVE  /\ Append(s, i) \in Seq(X) /\ Append(s, i) # <<>>
         /\ \A x : MemberOf(Append(s, i), x) <=> MemberOf(s, x) \/ x = i
         /\ Once(s) /\ ~MemberOf(s, i) => Once(Append(s, i))
<1> DEFINE t == Append(s, i)
           n == Len(s)
<1>1. /\ t \in Seq(X) /\ t # <<>> /\ Len(t) = n + 1 /\ t[n + 1] = i /\ n \in Nat
      /\ \A k \in 1 .. n : t[k] = s[k]
  BY AppendProperties, LenProperties
<1> HIDE DEF t, n
<1>2. \A k \in 1 .. n + 1 : k \in 1 .. n \/ k = n + 1
  BY <1>1
<1>3. \A k \in 1 .. n : k \in 1 .. n + 1
  BY <1>1
<1>4. n + 1 \in 1 .. n + 1
  BY <1>1
<1>5. \A x : MemberOf(t, x) <=> MemberOf(s, x) \/ x = i
  BY <1>1, <1>2, <1>3, <1>4 DEF MemberOf, n
<1>6. ASSUME Once(s), ~MemberOf(s, i) PROVE Once(t)
  <2> SUFFICES ASSUME NEW k \in 1 .. n + 1, NEW l \in 1 .. n + 1, t[k] = t[l]
               PROVE  k = l
    BY <1>1 DEF Once
  <2>1. CASE k \in 1 .. n /\ l \in 1 .. n
    BY <1>1, <1>6, <2>1 DEF Once, n
  <2>2. CASE k = n + 1 /\ l \in 1 .. n
    BY <1>1, <1>6, <2>2 DEF MemberOf, n
  <2>3. CASE l = n + 1 /\ k \in 1 .. n
    BY <1>1, <1>6, <2>3 DEF MemberOf, n
  <2> QED
    BY <1>2, <2>1, <2>2, <2>3
<1> QED
  BY <1>1, <1>5, <1>6 DEF t

-----------------------------------------------------------------------------
(* The least and the greatest of a set of numbers.                         *)

LEMMA MinIs ==
  ASSUME NEW S \in SUBSET Nat, S # {}
  PROVE  Min(S) \in S /\ \A y \in S : Min(S) <= y
<1> DEFINE R == OpToRel(<, Nat)
<1>1. R = {ss \in Nat \X Nat : ss[1] < ss[2]}
  BY DEF OpToRel
<1>2. IsWellFoundedOn(R, Nat)
  BY NatLessThanWellFounded DEF OpToRel
<1> HIDE DEF R
<1>3. PICK x \in S : \A y \in S : ~(<<y, x>> \in R)
  BY <1>2, WFMin
<1>4. ASSUME NEW y \in S PROVE x <= y
  <2>1. x \in Nat /\ y \in Nat
    OBVIOUS
  <2>2. ~(<<y, x>> \in R)
    BY <1>3
  <2>3. ~(y < x)
    BY <1>1, <2>1, <2>2
  <2> QED
    BY <2>1, <2>3
<1> QED
  BY <1>4 DEF Min

LEMMA MaxIs ==
  ASSUME NEW N \in Nat, NEW S \in SUBSET (0 .. N), S # {}
  PROVE  Max(S) \in S /\ \A y \in S : y <= Max(S)
<1> DEFINE T == {N - y : y \in S}
<1>a. \A y \in S : y \in 0 .. N
  OBVIOUS
<1>b. \A y \in S : N - y \in Nat
  BY <1>a
<1>1. T \in SUBSET Nat /\ T # {}
  BY <1>b
<1>2. Min(T) \in T /\ \A y \in T : Min(T) <= y
  <2> HIDE DEF T
  <2> QED
    BY <1>1, MinIs
<1>3. PICK x \in S : N - x = Min(T)
  BY <1>2
<1>4. \A y \in S : N - y \in T
  OBVIOUS
<1>5. \A y \in S : y <= x
  <2> HIDE DEF T
  <2> QED
    BY <1>a, <1>2, <1>3, <1>4
<1>6. \E z \in S : \A y \in S : z >= y
  BY <1>5
<1> QED
  BY <1>6 DEF Max

-----------------------------------------------------------------------------
(* Bins: no item twice, no more than the capacity.  A list of bins packs a *)
(* set of items if it holds each of them in one place and no other.        *)

Lengths(lens, capacity) ==
    /\ lens \in Seq(Nat) /\ capacity \in Nat
    /\ \A i \in DOMAIN lens : lens[i] <= capacity

Bins(lens, capacity) ==
    {bin \in Seq(DOMAIN lens) : Once(bin) /\ Load(bin, lens) <= capacity}

UsedBins(lens, capacity) == Bins(lens, capacity) \ {<<>>}

Held(bins, x) == \E b \in 1 .. Len(bins) : MemberOf(bins[b], x)

Packs(bins, G, I) ==
    bins \in Seq(G) /\ Apart(bins) /\ \A x : Held(bins, x) <=> x \in I

Contents(bin, I) == \A x : MemberOf(bin, x) <=> x \in I

LEMMA PackNothing == \A G : Packs(<<>>, G, {})
<1> TAKE G
<1>1. <<>> \in Seq(G) /\ Len(<<>>) = 0
  BY EmptySeq
<1> QED
  BY <1>1 DEF Packs, Apart, Held

LEMMA PackOne ==
  ASSUME NEW G, NEW bin \in G, NEW I, Contents(bin, I)
  PROVE  Packs(<<bin>>, G, I)
<1> DEFINE s == <<bin>>
<1>1. s \in Seq(G) /\ Len(s) = 1 /\ s[1] = bin
  OBVIOUS
<1> HIDE DEF s
<1>2. \A k \in 1 .. Len(s) : k = 1
  BY <1>1
<1>3. Apart(s)
  BY <1>2 DEF Apart
<1>4. \A x : Held(s, x) <=> MemberOf(bin, x)
  BY <1>1, <1>2 DEF Held
<1>5. Packs(s, G, I)
  BY <1>1, <1>3, <1>4 DEF Packs, Contents
<1> QED
  BY <1>5 DEF s

LEMMA PackJoin ==
  ASSUME NEW G, NEW r, NEW s, NEW I, NEW J, Packs(r, G, I), Packs(s, G, J),
         I \cap J = {}
  PROVE  Packs(r \o s, G, I \cup J)
<1> DEFINE t == r \o s
           m == Len(r)
           n == Len(s)
<1>1. r \in Seq(G) /\ s \in Seq(G) /\ m \in Nat /\ n \in Nat
  BY LenProperties DEF Packs
<1>2. t \in Seq(G) /\ Len(t) = m + n
      /\ \A i \in 1 .. m + n : t[i] = IF i <= m THEN r[i] ELSE s[i - m]
  BY <1>1, ConcatProperties
<1> HIDE DEF t
<1>3. \A x : Held(r, x) <=> x \in I
  BY DEF Packs
<1>4. \A x : Held(s, x) <=> x \in J
  BY DEF Packs
<1>a. /\ \A b \in 1 .. m : \A x : MemberOf(r[b], x) => x \in I
      /\ \A b \in 1 .. n : \A x : MemberOf(s[b], x) => x \in J
  BY <1>3, <1>4 DEF Held
<1>5. /\ \A i \in 1 .. m : i \in 1 .. m + n /\ t[i] = r[i]
      /\ \A i \in 1 .. n : i + m \in 1 .. m + n /\ t[i + m] = s[i]
      /\ \A i \in 1 .. m + n :
            \/ i \in 1 .. m /\ t[i] = r[i]
            \/ i - m \in 1 .. n /\ t[i] = s[i - m]
  <2> HIDE DEF m, n
  <2>1. \A i \in 1 .. n : i + m \in 1 .. m + n /\ ~(i + m <= m) /\ (i + m) - m = i
    BY <1>1
  <2> QED
    BY <1>1, <1>2, <2>1
<1> HIDE DEF m, n
<1>6. \A x : Held(t, x) <=> x \in I \cup J
  <2> SUFFICES ASSUME NEW x PROVE Held(t, x) <=> Held(r, x) \/ Held(s, x)
    BY <1>3, <1>4
  <2>1. ASSUME Held(t, x) PROVE Held(r, x) \/ Held(s, x)
    BY <1>2, <1>5, <2>1 DEF Held, m, n
  <2>2. ASSUME Held(r, x) PROVE Held(t, x)
    BY <1>2, <1>5, <2>2 DEF Held, m
  <2>3. ASSUME Held(s, x) PROVE Held(t, x)
    <3>1. PICK b \in 1 .. n : MemberOf(s[b], x)
      BY <2>3 DEF Held, n
    <3>2. b + m \in 1 .. m + n /\ t[b + m] = s[b]
      BY <1>5
    <3>3. MemberOf(t[b + m], x)
      BY <3>1, <3>2
    <3> QED
      BY <1>2, <3>2, <3>3 DEF Held
  <2> QED
    BY <2>1, <2>2, <2>3
<1>7. Apart(t)
  <2>1. SUFFICES ASSUME NEW k \in 1 .. m + n, NEW l \in 1 .. m + n, k # l,
                        NEW i \in 1 .. Len(t[k]), NEW j \in 1 .. Len(t[l]),
                        t[k][i] = t[l][j]
                 PROVE  FALSE
    BY <1>2, Zenon DEF Apart
  <2>2. MemberOf(t[k], t[k][i]) /\ MemberOf(t[l], t[k][i])
    BY <2>1 DEF MemberOf
  <2>3. CASE k \in 1 .. m /\ t[k] = r[k] /\ l \in 1 .. m /\ t[l] = r[l]
    <3>1. Apart(r)
      BY DEF Packs
    <3> QED
      BY <2>1, <2>3, <3>1 DEF Apart, m
  <2>4. CASE k - m \in 1 .. n /\ t[k] = s[k - m] /\ l - m \in 1 .. n /\ t[l] = s[l - m]
    <3>1. Apart(s)
      BY DEF Packs
    <3>2. k - m # l - m
      BY <1>1, <2>1
    <3> QED
      BY <2>1, <2>4, <3>1, <3>2 DEF Apart, n
  <2>5. CASE k \in 1 .. m /\ t[k] = r[k] /\ l - m \in 1 .. n /\ t[l] = s[l - m]
    BY <1>a, <2>2, <2>5
  <2>6. CASE k - m \in 1 .. n /\ t[k] = s[k - m] /\ l \in 1 .. m /\ t[l] = r[l]
    BY <1>a, <2>2, <2>6
  <2> QED
    BY <1>5, <2>3, <2>4, <2>5, <2>6
<1>8. Packs(t, G, I \cup J)
  BY <1>2, <1>6, <1>7 DEF Packs
<1> QED
  BY <1>8 DEF t

LEMMA PackMore ==
  ASSUME NEW G, NEW bins, NEW I, Packs(bins, G, I), NEW bin \in G, NEW J,
         Contents(bin, J), I \cap J = {}
  PROVE  Packs(Append(bins, bin), G, I \cup J)
<1>1. bins \in Seq(G)
  BY DEF Packs
<1>2. Append(bins, bin) = bins \o <<bin>>
  BY <1>1, AppendIsConcat
<1>3. Packs(<<bin>>, G, J)
  BY PackOne
<1>4. Packs(bins \o <<bin>>, G, I \cup J)
  BY <1>3, PackJoin
<1> QED
  BY <1>2, <1>4, Zenon

LEMMA PackInto ==
  ASSUME NEW G, NEW bins, NEW I, Packs(bins, G, I), NEW b \in 1 .. Len(bins),
         NEW bin \in G, NEW J, I \cap J = {},
         \A x : MemberOf(bin, x) <=> MemberOf(bins[b], x) \/ x \in J
  PROVE  Packs([bins EXCEPT ![b] = bin], G, I \cup J)
<1> DEFINE t == [bins EXCEPT ![b] = bin]
           n == Len(bins)
<1>1. bins \in Seq(G) /\ n \in Nat /\ Apart(bins) /\ \A x : Held(bins, x) <=> x \in I
  BY LenProperties DEF Packs
<1>2. t \in Seq(G) /\ Len(t) = n /\ \A c \in 1 .. n : t[c] = IF c = b THEN bin ELSE bins[c]
  BY <1>1, ExceptSeq
<1> HIDE DEF t
<1>3. \A x : \A c \in 1 .. n :
          MemberOf(t[c], x) <=> MemberOf(bins[c], x) \/ (c = b /\ x \in J)
  BY <1>2
<1>4. \A c \in 1 .. n : \A x : MemberOf(bins[c], x) => x \in I
  BY <1>1 DEF Held
<1>5. \A x : Held(t, x) <=> x \in I \cup J
  <2> SUFFICES ASSUME NEW x PROVE Held(t, x) <=> Held(bins, x) \/ x \in J
    BY <1>1
  <2> QED
    BY <1>2, <1>3 DEF Held
<1>6. Apart(t)
  <2>1. SUFFICES ASSUME NEW k \in 1 .. n, NEW l \in 1 .. n, k # l, NEW x,
                        MemberOf(t[k], x), MemberOf(t[l], x)
                 PROVE  FALSE
    <3>1. SUFFICES ASSUME NEW k \in 1 .. n, NEW l \in 1 .. n, k # l,
                          NEW i \in 1 .. Len(t[k]), NEW j \in 1 .. Len(t[l]),
                          t[k][i] = t[l][j]
                   PROVE  FALSE
      BY <1>2, Zenon DEF Apart
    <3>2. MemberOf(t[k], t[k][i]) /\ MemberOf(t[l], t[k][i])
      BY <3>1 DEF MemberOf
    <3> QED
      BY <2>1, <3>1, <3>2
  <2>2. \/ MemberOf(bins[k], x) /\ MemberOf(bins[l], x)
        \/ k = b /\ x \in J /\ MemberOf(bins[l], x)
        \/ l = b /\ x \in J /\ MemberOf(bins[k], x)
    BY <1>3, <2>1
  <2>3. ~(MemberOf(bins[k], x) /\ MemberOf(bins[l], x))
    <3>1. ASSUME NEW i \in 1 .. Len(bins[k]), NEW j \in 1 .. Len(bins[l])
          PROVE  bins[k][i] # bins[l][j]
      BY <1>1, <2>1, Zenon DEF Apart
    <3> QED
      BY <3>1 DEF MemberOf
  <2> QED
    BY <1>4, <2>2, <2>3
<1>7. Packs(t, G, I \cup J)
  BY <1>2, <1>5, <1>6 DEF Packs
<1> QED
  BY <1>7 DEF t

\* An item that fits joins a bin.
LEMMA BinGrows ==
  ASSUME NEW lens, NEW capacity, Lengths(lens, capacity),
         NEW bin \in Bins(lens, capacity), NEW i \in DOMAIN lens,
         ~MemberOf(bin, i), Fits(bin, i, lens, capacity)
  PROVE  /\ Append(bin, i) \in UsedBins(lens, capacity)
         /\ \A x : MemberOf(Append(bin, i), x) <=> MemberOf(bin, x) \/ x \in {i}
<1> DEFINE t == Append(bin, i)
           D == DOMAIN lens
<1>1. bin \in Seq(D) /\ Once(bin)
  BY DEF Bins
<1>2. Load(t, lens) <= capacity
  <2>1. Weighs(lens, D)
    BY ElementOfSeq DEF Weighs, Lengths
  <2>2. Load(t, lens) = Load(bin, lens) + lens[i]
    BY <1>1, <2>1, LoadIs
  <2> QED
    BY <2>2 DEF Fits
<1>3. /\ t \in Seq(D) /\ t # <<>> /\ Once(t)
      /\ \A x : MemberOf(t, x) <=> MemberOf(bin, x) \/ x = i
  BY <1>1, AppendMembers
<1> HIDE DEF t
<1>4. t \in UsedBins(lens, capacity)
  BY <1>2, <1>3 DEF UsedBins, Bins
<1> QED
  BY <1>3, <1>4 DEF t

LEMMA BinStarts ==
  ASSUME NEW lens, NEW capacity, Lengths(lens, capacity)
  PROVE  /\ <<>> \in Bins(lens, capacity) /\ Contents(<<>>, {})
         /\ \A i \in DOMAIN lens :
               <<i>> \in UsedBins(lens, capacity) /\ Contents(<<i>>, {i})
<1> DEFINE D == DOMAIN lens
<1>1. <<>> \in Seq(D) /\ Len(<<>>) = 0 /\ Weighs(lens, D)
  BY EmptySeq, ElementOfSeq DEF Weighs, Lengths
<1>2. Load(<<>>, lens) = 0
  BY <1>1, LoadIs
<1>3. <<>> \in Bins(lens, capacity)
  BY <1>1, <1>2 DEF Bins, Once, Lengths
<1>4. \A x : ~MemberOf(<<>>, x)
  BY <1>1 DEF MemberOf
<1>5. ASSUME NEW i \in D
      PROVE  <<i>> \in UsedBins(lens, capacity) /\ Contents(<<i>>, {i})
  <2>1. Append(<<>>, i) = <<i>>
    <3>1. <<>> \o <<i>> = <<i>>
      BY ConcatEmptySeq
    <3> QED
      BY <1>1, <3>1, AppendIsConcat
  <2>2. Fits(<<>>, i, lens, capacity)
    BY <1>2, ElementOfSeq DEF Fits, Lengths
  <2>3. /\ Append(<<>>, i) \in UsedBins(lens, capacity)
        /\ \A x : MemberOf(Append(<<>>, i), x) <=> MemberOf(<<>>, x) \/ x \in {i}
    BY <1>3, <1>4, <2>2, BinGrows
  <2> QED
    BY <1>4, <2>1, <2>3 DEF Contents
<1> QED
  BY <1>3, <1>4, <1>5 DEF Contents

-----------------------------------------------------------------------------
(* The packers that place one item after another.                          *)

ConcatenativePlace(bins, i, lens, capacity) ==
    IF bins # <<>> /\ Fits(Last(bins), i, lens, capacity)
    THEN AddTo(bins, Len(bins), i)
    ELSE Append(bins, <<i>>)

FirstFitPlace(bins, i, lens, capacity) ==
    LET fitting == {b \in DOMAIN bins : Fits(bins[b], i, lens, capacity)}
    IN  IF fitting = {} THEN Append(bins, <<i>>)
                        ELSE AddTo(bins, Min(fitting), i)

\* An item that is in no bin yet joins one in which it fits, or starts one.
LEMMA ItemJoins ==
  ASSUME NEW lens, NEW capacity, Lengths(lens, capacity),
         NEW bins, NEW I, Packs(bins, UsedBins(lens, capacity), I),
         NEW i \in DOMAIN lens, i \notin I
  PROVE  /\ Packs(Append(bins, <<i>>), UsedBins(lens, capacity), I \cup {i})
         /\ \A b \in 1 .. Len(bins) :
               Fits(bins[b], i, lens, capacity)
                   => Packs(AddTo(bins, b, i), UsedBins(lens, capacity), I \cup {i})
<1> DEFINE G == UsedBins(lens, capacity)
<1>1. <<i>> \in G /\ Contents(<<i>>, {i}) /\ I \cap {i} = {} /\ Packs(bins, G, I)
  BY BinStarts
<1>2. Packs(Append(bins, <<i>>), G, I \cup {i})
  <2> HIDE DEF G
  <2> QED
    BY <1>1, PackMore
<1>3. ASSUME NEW b \in 1 .. Len(bins), Fits(bins[b], i, lens, capacity)
      PROVE  Packs(AddTo(bins, b, i), G, I \cup {i})
  <2>1. bins \in Seq(G)
    BY DEF Packs
  <2>2. bins[b] \in Bins(lens, capacity)
    BY <2>1, ElementOfSeq DEF UsedBins
  <2>3. ~MemberOf(bins[b], i)
    BY DEF Packs, Held
  <2>4. /\ Append(bins[b], i) \in G
        /\ \A x : MemberOf(Append(bins[b], i), x) <=> MemberOf(bins[b], x) \/ x \in {i}
    BY <1>3, <2>2, <2>3, BinGrows
  <2>5. Packs([bins EXCEPT ![b] = Append(bins[b], i)], G, I \cup {i})
    <3> HIDE DEF G
    <3> QED
      BY <1>1, <2>4, PackInto
  <2> QED
    BY <2>5 DEF AddTo
<1> QED
  BY <1>2, <1>3

LEMMA ConcatenativeTurn ==
  ASSUME NEW lens, NEW capacity, Lengths(lens, capacity),
         NEW bins, NEW I, Packs(bins, UsedBins(lens, capacity), I),
         NEW i \in DOMAIN lens, i \notin I
  PROVE  Packs(ConcatenativePlace(bins, i, lens, capacity),
               UsedBins(lens, capacity), I \cup {i})
<1>1. CASE bins # <<>> /\ Fits(Last(bins), i, lens, capacity)
  <2>1. Len(bins) \in 1 .. Len(bins) /\ Last(bins) = bins[Len(bins)]
    <3>1. bins \in Seq(UsedBins(lens, capacity))
      BY DEF Packs
    <3> QED
      BY <1>1, <3>1, LenProperties, EmptySeq DEF Last
  <2>2. Packs(AddTo(bins, Len(bins), i), UsedBins(lens, capacity), I \cup {i})
    BY <1>1, <2>1, ItemJoins
  <2> QED
    BY <1>1, <2>2 DEF ConcatenativePlace
<1>2. CASE ~(bins # <<>> /\ Fits(Last(bins), i, lens, capacity))
  BY <1>2, ItemJoins DEF ConcatenativePlace
<1> QED
  BY <1>1, <1>2

LEMMA FirstFitTurn ==
  ASSUME NEW lens, NEW capacity, Lengths(lens, capacity),
         NEW bins, NEW I, Packs(bins, UsedBins(lens, capacity), I),
         NEW i \in DOMAIN lens, i \notin I
  PROVE  Packs(FirstFitPlace(bins, i, lens, capacity),
               UsedBins(lens, capacity), I \cup {i})
<1> DEFINE fitting == {b \in DOMAIN bins : Fits(bins[b], i, lens, capacity)}
<1>1. CASE fitting # {}
  <2>1. bins \in Seq(UsedBins(lens, capacity))
    BY DEF Packs
  <2>2. DOMAIN bins = 1 .. Len(bins)
    BY <2>1, LenProperties
  <2>3. fitting \in SUBSET Nat
    BY <2>2
  <2>4. Min(fitting) \in fitting
    <3> HIDE DEF fitting
    <3> QED
      BY <1>1, <2>3, MinIs
  <2>5. Packs(AddTo(bins, Min(fitting), i), UsedBins(lens, capacity), I \cup {i})
    BY <2>2, <2>4, ItemJoins
  <2> QED
    BY <1>1, <2>5 DEF FirstFitPlace
<1>2. CASE fitting = {}
  BY <1>2, ItemJoins DEF FirstFitPlace
<1> QED
  BY <1>1, <1>2

ConcatenativePacked(lens, capacity) ==
    CHOOSE packed : packed = [n \in 0 .. Len(lens) |->
        IF n = 0 THEN <<>> ELSE ConcatenativePlace(packed[n - 1], n, lens, capacity)]

FirstFitPacked(lens, capacity, order) ==
    CHOOSE packed : packed = [n \in 0 .. Len(order) |->
        IF n = 0 THEN <<>> ELSE FirstFitPlace(packed[n - 1], order[n], lens, capacity)]

LEMMA ConcatenativePacks ==
  ASSUME NEW lens, NEW capacity, Lengths(lens, capacity)
  PROVE  Packs(Concatenative(lens, capacity), UsedBins(lens, capacity), DOMAIN lens)
<1> DEFINE N == Len(lens)
           G == UsedBins(lens, capacity)
           Place(bins, i) == ConcatenativePlace(bins, i, lens, capacity)
           W == [n \in 0 .. N |-> {bins \in Seq(G) : Packs(bins, G, 1 .. n)}]
           turn == [p \in (1 .. N) \X Seq(G) |-> Place(p[2], p[1])]
<1>1. N \in Nat /\ DOMAIN lens = 1 .. N
  BY LenProperties DEF Lengths
<1>2. ASSUME NEW n \in 1 .. N, NEW v, Packs(v, G, 1 .. n - 1)
      PROVE  Packs(Place(v, n), G, 1 .. n)
  <2>1. n \in DOMAIN lens /\ n \notin 1 .. n - 1 /\ (1 .. n - 1) \cup {n} = 1 .. n
    BY <1>1
  <2>2. Packs(Place(v, n), G, (1 .. n - 1) \cup {n})
    BY <1>2, <2>1, ConcatenativeTurn
  <2> QED
    BY <2>1, <2>2, Zenon
<1> HIDE DEF N, G, Place
<1>3. ASSUME NEW n \in 1 .. N, NEW v \in W[n - 1]
      PROVE  turn[<<n, v>>] \in W[n] /\ turn[<<n, v>>] = Place(v, n)
  <2>1. n - 1 \in 0 .. N /\ n \in 0 .. N
    BY <1>1
  <2>2. v \in Seq(G) /\ Packs(v, G, 1 .. n - 1)
    BY <2>1
  <2>3. Packs(Place(v, n), G, 1 .. n)
    BY <1>2, <2>2
  <2>4. turn[<<n, v>>] = Place(v, n)
    BY <2>2
  <2>5. Place(v, n) \in W[n]
    BY <2>1, <2>3 DEF Packs
  <2> HIDE DEF turn, W
  <2> QED
    BY <2>4, <2>5
<1>4. <<>> \in W[0]
  <2>1. 1 .. 0 = {} /\ 0 \in 0 .. N
    BY <1>1
  <2>2. Packs(<<>>, G, 1 .. 0)
    BY <2>1, PackNothing
  <2> QED
    BY <2>1, <2>2 DEF Packs
<1> HIDE DEF W, turn
<1>5. PICK g : Runs(N, g, <<>>, turn, W)
  <2>1. \A n \in 1 .. N : \A v \in W[n - 1] : turn[<<n, v>>] \in W[n]
    BY <1>3
  <2> QED
    BY <1>1, <1>4, <2>1, Iterates
<1>6. g = [n \in 0 .. N |-> IF n = 0 THEN <<>> ELSE Place(g[n - 1], n)]
  <2>1. ASSUME NEW n \in 0 .. N, n # 0 PROVE turn[<<n, g[n - 1]>>] = Place(g[n - 1], n)
    <3>1. n \in 1 .. N /\ n - 1 \in 0 .. N
      BY <1>1, <2>1
    <3>2. g[n - 1] \in W[n - 1]
      BY <1>5, <3>1 DEF Runs
    <3> QED
      BY <1>3, <3>1, <3>2
  <2>2. g = [n \in 0 .. N |-> IF n = 0 THEN <<>> ELSE turn[<<n, g[n - 1]>>]]
    BY <1>5 DEF Runs
  <2> QED
    BY <2>1, <2>2
<1> DEFINE f == ConcatenativePacked(lens, capacity)
<1>7. f = [n \in 0 .. N |-> IF n = 0 THEN <<>> ELSE Place(f[n - 1], n)]
  BY <1>6 DEF ConcatenativePacked, N, Place
<1>8. Concatenative(lens, capacity) = f[N]
  BY Zenon DEF Concatenative, ConcatenativePacked, ConcatenativePlace, N
<1> HIDE DEF f
<1> DEFINE S == {n \in 0 .. N : Packs(f[n], G, 1 .. n)}
<1>9. 0 \in S
  <2>1. f[0] = <<>> /\ 1 .. 0 = {} /\ 0 \in 0 .. N
    BY <1>1, <1>7
  <2> QED
    BY <2>1, PackNothing
<1>10. ASSUME NEW n \in 1 .. N, n - 1 \in S PROVE n \in S
  <2>1. n \in 0 .. N /\ n # 0
    BY <1>1
  <2>2. f[n] = Place(f[n - 1], n)
    BY <1>7, <2>1
  <2>3. Packs(f[n], G, 1 .. n)
    BY <1>2, <1>10, <2>2
  <2> QED
    BY <2>1, <2>3
<1>11. \A n \in 0 .. N : n \in S
  <2> HIDE DEF S
  <2> QED
    BY <1>1, <1>9, <1>10, UpTo
<1>12. Packs(f[N], G, 1 .. N)
  BY <1>1, <1>11
<1> QED
  BY <1>1, <1>8, <1>12 DEF G

Placed(order, n) == {order[m] : m \in 1 .. n}

LEMMA FirstFitPacks ==
  ASSUME NEW lens, NEW capacity, Lengths(lens, capacity),
         NEW order \in Seq(DOMAIN lens), Once(order)
  PROVE  Packs(FirstFit(lens, capacity, order), UsedBins(lens, capacity),
               Placed(order, Len(order)))
<1> DEFINE N == Len(order)
           G == UsedBins(lens, capacity)
           Place(bins, i) == FirstFitPlace(bins, i, lens, capacity)
           W == [n \in 0 .. N |-> {bins \in Seq(G) : Packs(bins, G, Placed(order, n))}]
           turn == [p \in (1 .. N) \X Seq(G) |-> Place(p[2], order[p[1]])]
<1>1. N \in Nat /\ \A n \in 1 .. N : order[n] \in DOMAIN lens
  BY ElementOfSeq, LenProperties
<1>2. ASSUME NEW n \in 1 .. N, NEW v, Packs(v, G, Placed(order, n - 1))
      PROVE  Packs(Place(v, order[n]), G, Placed(order, n))
  <2>1. \A k \in 1 .. n - 1 : k \in 1 .. N /\ k # n
    BY <1>1
  <2>2. order[n] \notin Placed(order, n - 1)
    BY <2>1 DEF Once, Placed
  <2>3. Placed(order, n) = Placed(order, n - 1) \cup {order[n]}
    <3>1. \A k : k \in 1 .. n <=> k \in 1 .. n - 1 \/ k = n
      BY <1>1
    <3> QED
      BY <3>1 DEF Placed
  <2>4. Packs(Place(v, order[n]), G, Placed(order, n - 1) \cup {order[n]})
    BY <1>1, <1>2, <2>2, FirstFitTurn
  <2> QED
    BY <2>3, <2>4, Zenon
<1> HIDE DEF N, G, Place
<1>3. ASSUME NEW n \in 1 .. N, NEW v \in W[n - 1]
      PROVE  turn[<<n, v>>] \in W[n] /\ turn[<<n, v>>] = Place(v, order[n])
  <2>1. n - 1 \in 0 .. N /\ n \in 0 .. N
    BY <1>1
  <2>2. v \in Seq(G) /\ Packs(v, G, Placed(order, n - 1))
    BY <2>1
  <2>3. Packs(Place(v, order[n]), G, Placed(order, n))
    BY <1>2, <2>2
  <2>4. turn[<<n, v>>] = Place(v, order[n])
    BY <2>2
  <2>5. Place(v, order[n]) \in W[n]
    BY <2>1, <2>3 DEF Packs
  <2> HIDE DEF turn, W
  <2> QED
    BY <2>4, <2>5
<1>4. <<>> \in W[0]
  <2>1. Placed(order, 0) = {} /\ 0 \in 0 .. N
    BY <1>1 DEF Placed
  <2>2. Packs(<<>>, G, Placed(order, 0))
    BY <2>1, PackNothing
  <2> QED
    BY <2>1, <2>2 DEF Packs
<1> HIDE DEF W, turn
<1>5. PICK g : Runs(N, g, <<>>, turn, W)
  <2>1. \A n \in 1 .. N : \A v \in W[n - 1] : turn[<<n, v>>] \in W[n]
    BY <1>3
  <2> QED
    BY <1>1, <1>4, <2>1, Iterates
<1>6. g = [n \in 0 .. N |-> IF n = 0 THEN <<>> ELSE Place(g[n - 1], order[n])]
  <2>1. ASSUME NEW n \in 0 .. N, n # 0
        PROVE  turn[<<n, g[n - 1]>>] = Place(g[n - 1], order[n])
    <3>1. n \in 1 .. N /\ n - 1 \in 0 .. N
      BY <1>1, <2>1
    <3>2. g[n - 1] \in W[n - 1]
      BY <1>5, <3>1 DEF Runs
    <3> QED
      BY <1>3, <3>1, <3>2
  <2>2. g = [n \in 0 .. N |-> IF n = 0 THEN <<>> ELSE turn[<<n, g[n - 1]>>]]
    BY <1>5 DEF Runs
  <2> QED
    BY <2>1, <2>2
<1> DEFINE f == FirstFitPacked(lens, capacity, order)
<1>7. f = [n \in 0 .. N |-> IF n = 0 THEN <<>> ELSE Place(f[n - 1], order[n])]
  BY <1>6 DEF FirstFitPacked, N, Place
<1>8. FirstFit(lens, capacity, order) = f[N]
  BY Zenon DEF FirstFit, FirstFitPacked, FirstFitPlace, N
<1> HIDE DEF f
<1> DEFINE S == {n \in 0 .. N : Packs(f[n], G, Placed(order, n))}
<1>9. 0 \in S
  <2>1. f[0] = <<>> /\ Placed(order, 0) = {} /\ 0 \in 0 .. N
    BY <1>1, <1>7 DEF Placed
  <2> QED
    BY <2>1, PackNothing
<1>10. ASSUME NEW n \in 1 .. N, n - 1 \in S PROVE n \in S
  <2>1. n \in 0 .. N /\ n # 0
    BY <1>1
  <2>2. f[n] = Place(f[n - 1], order[n])
    BY <1>7, <2>1
  <2>3. Packs(f[n], G, Placed(order, n))
    BY <1>2, <1>10, <2>2
  <2> QED
    BY <2>1, <2>3
<1>11. \A n \in 0 .. N : n \in S
  <2> HIDE DEF S
  <2> QED
    BY <1>1, <1>9, <1>10, UpTo
<1>12. Packs(f[N], G, Placed(order, N))
  BY <1>1, <1>11
<1> QED
  BY <1>8, <1>12 DEF G, N

-----------------------------------------------------------------------------
(* Numbers sorted by their lengths, and what is kept of a list.            *)

Shorter(I, lens) ==
    {p \in I \X I : \/ lens[p[1]] < lens[p[2]]
                    \/ lens[p[1]] = lens[p[2]] /\ p[1] < p[2]}

Longer(I, lens) ==
    {p \in I \X I : \/ lens[p[1]] > lens[p[2]]
                    \/ lens[p[1]] = lens[p[2]] /\ p[1] < p[2]}

LongerReversed(I, lens) ==
    {p \in I \X I : \/ lens[p[1]] > lens[p[2]]
                    \/ lens[p[1]] = lens[p[2]] /\ p[1] > p[2]}

LEMMA LengthOrders ==
  ASSUME NEW I \in SUBSET Nat, NEW lens, Weighs(lens, I)
  PROVE  /\ IsTotalOrder(Shorter(I, lens), I)
         /\ IsTotalOrder(Longer(I, lens), I)
         /\ IsTotalOrder(LongerReversed(I, lens), I)
<1>1. \A i \in I : i \in Nat /\ lens[i] \in Nat
  BY DEF Weighs
<1>2. IsTotalOrder(Shorter(I, lens), I)
  BY <1>1 DEF IsTotalOrder, Shorter
<1>3. IsTotalOrder(Longer(I, lens), I)
  BY <1>1 DEF IsTotalOrder, Longer
<1>4. IsTotalOrder(LongerReversed(I, lens), I)
  BY <1>1 DEF IsTotalOrder, LongerReversed
<1> QED
  BY <1>2, <1>3, <1>4

LEMMA AscendingIs ==
  ASSUME NEW I \in SUBSET Nat, IsFiniteSet(I), NEW lens, Weighs(lens, I)
  PROVE  InSortedOrder(Ascending(I, lens), Shorter(I, lens), I)
<1>1. ASSUME NEW i \in I
      PROVE  Cardinality({j \in I : lens[j] < lens[i] \/ (lens[j] = lens[i] /\ j < i)})
                 = Cardinality(Ahead(Shorter(I, lens), I, i))
  BY <1>1 DEF Ahead, Shorter
<1>2. Ascending(I, lens) = [n \in 1 .. Cardinality(I) |-> CHOOSE i \in I :
          Cardinality({j \in I : lens[j] < lens[i] \/ (lens[j] = lens[i] /\ j < i)}) = n - 1]
  BY DEF Ascending, Sorted
<1>3. Ascending(I, lens) = SortedBy(Shorter(I, lens), I)
  BY <1>1, <1>2, Zenon DEF SortedBy
<1>4. InSortedOrder(SortedBy(Shorter(I, lens), I), Shorter(I, lens), I)
  BY LengthOrders, SortedIs
<1> QED
  BY <1>3, <1>4, Zenon

LEMMA DescendingIs ==
  ASSUME NEW I \in SUBSET Nat, IsFiniteSet(I), NEW lens, Weighs(lens, I)
  PROVE  InSortedOrder(Descending(I, lens), Longer(I, lens), I)
<1>1. ASSUME NEW i \in I
      PROVE  Cardinality({j \in I : lens[j] > lens[i] \/ (lens[j] = lens[i] /\ j < i)})
                 = Cardinality(Ahead(Longer(I, lens), I, i))
  BY <1>1 DEF Ahead, Longer
<1>2. Descending(I, lens) = [n \in 1 .. Cardinality(I) |-> CHOOSE i \in I :
          Cardinality({j \in I : lens[j] > lens[i] \/ (lens[j] = lens[i] /\ j < i)}) = n - 1]
  BY DEF Descending, Sorted
<1>3. Descending(I, lens) = SortedBy(Longer(I, lens), I)
  BY <1>1, <1>2, Zenon DEF SortedBy
<1>4. InSortedOrder(SortedBy(Longer(I, lens), I), Longer(I, lens), I)
  BY LengthOrders, SortedIs
<1> QED
  BY <1>3, <1>4, Zenon

LEMMA SortedOnce ==
  ASSUME NEW s, NEW R, NEW I, InSortedOrder(s, R, I)
  PROVE  s \in Seq(I) /\ Once(s) /\ Contents(s, I)
<1>1. s \in Seq(I) /\ \A n \in 1 .. Len(s) : s[n] \in I
  BY ElementOfSeq DEF InSortedOrder
<1> QED
  BY <1>1 DEF InSortedOrder, Once, Contents, MemberOf

LEMMA LengthsWeigh ==
  ASSUME NEW lens, NEW capacity, Lengths(lens, capacity)
  PROVE  /\ DOMAIN lens = 1 .. Len(lens) /\ Len(lens) \in Nat
         /\ DOMAIN lens \in SUBSET Nat /\ IsFiniteSet(DOMAIN lens)
         /\ \A I \in SUBSET DOMAIN lens : Weighs(lens, I) /\ IsFiniteSet(I)
<1>1. DOMAIN lens = 1 .. Len(lens) /\ Len(lens) \in Nat
  BY LenProperties DEF Lengths
<1>2. IsFiniteSet(DOMAIN lens)
  BY <1>1, FS_Interval
<1>3. \A I \in SUBSET DOMAIN lens : IsFiniteSet(I)
  BY <1>2, FS_Subset
<1>4. \A I \in SUBSET DOMAIN lens : Weighs(lens, I)
  BY <1>1, ElementOfSeq DEF Weighs, Lengths
<1> QED
  BY <1>1, <1>2, <1>3, <1>4

DescendingReversed(I, lens) ==
    Sorted(I, LAMBDA i, j : lens[i] > lens[j] \/ (lens[i] = lens[j] /\ i > j))

LEMMA FirstFitDecreasingPacks ==
  ASSUME NEW lens, NEW capacity, Lengths(lens, capacity)
  PROVE  Packs(FirstFitDecreasing(lens, capacity), UsedBins(lens, capacity), DOMAIN lens)
<1> DEFINE I == DOMAIN lens
           s == SortedBy(LongerReversed(I, lens), I)
<1>1. I \in SUBSET Nat /\ IsFiniteSet(I) /\ Weighs(lens, I)
  BY LengthsWeigh
<1>2. InSortedOrder(s, LongerReversed(I, lens), I)
  BY <1>1, LengthOrders, SortedIs
<1>3. s \in Seq(I) /\ Once(s) /\ Contents(s, I)
  BY <1>2, SortedOnce
<1>4. Packs(FirstFit(lens, capacity, s), UsedBins(lens, capacity), Placed(s, Len(s)))
  BY <1>3, FirstFitPacks
<1>5. Placed(s, Len(s)) = I
  BY <1>3 DEF Placed, Contents, MemberOf
<1>6. ASSUME NEW i \in I
      PROVE  Cardinality({j \in I : lens[j] > lens[i] \/ (lens[j] = lens[i] /\ j > i)})
                 = Cardinality(Ahead(LongerReversed(I, lens), I, i))
  <2>1. {j \in I : lens[j] > lens[i] \/ (lens[j] = lens[i] /\ j > i)}
            = Ahead(LongerReversed(I, lens), I, i)
    <3> HIDE DEF I
    <3> QED
      BY DEF Ahead, LongerReversed
  <2> QED
    BY <2>1, Zenon
<1>7. DescendingReversed(I, lens)
          = [n \in 1 .. Cardinality(I) |-> CHOOSE i \in I :
                Cardinality({j \in I : lens[j] > lens[i] \/ (lens[j] = lens[i] /\ j > i)})
                    = n - 1]
  BY DEF DescendingReversed, Sorted
<1>8. DescendingReversed(I, lens) = s
  BY <1>6, <1>7, Zenon DEF SortedBy
<1>9. FirstFitDecreasing(lens, capacity)
          = FirstFit(lens, capacity, DescendingReversed(DOMAIN lens, lens))
  BY Zenon DEF FirstFitDecreasing, DescendingReversed
<1>10. FirstFitDecreasing(lens, capacity) = FirstFit(lens, capacity, s)
  BY <1>8, <1>9, Zenon
<1> QED
  BY <1>4, <1>5, <1>10, Zenon

\* "at" has the places that are kept of the first n.
Keeps(s, at, items, places, n, X) ==
    /\ s \in Seq(X) /\ at \in Seq(1 .. n) /\ Len(s) = Len(at)
    /\ Once(at) /\ Contents(at, {p \in 1 .. n : p \in places})
    /\ \A k \in 1 .. Len(at) : s[k] = items[at[k]]

KeptSoFar(items, places) ==
    CHOOSE kept : kept = [n \in 0 .. Len(items) |->
        IF n = 0 THEN <<>>
        ELSE IF n \in places THEN Append(kept[n - 1], items[n]) ELSE kept[n - 1]]

LEMMA KeepsMore ==
  ASSUME NEW X, NEW items \in Seq(X), NEW places, NEW n \in 1 .. Len(items),
         NEW s, NEW at, Keeps(s, at, items, places, n - 1, X)
  PROVE  \E to : Keeps(IF n \in places THEN Append(s, items[n]) ELSE s, to,
                       items, places, n, X)
<1>1. /\ n \in Nat /\ items[n] \in X /\ s \in Seq(X) /\ at \in Seq(1 .. n - 1)
      /\ Len(s) = Len(at) /\ Once(at) /\ Len(at) \in Nat
      /\ \A x : MemberOf(at, x) <=> x \in 1 .. n - 1 /\ x \in places
      /\ \A k \in 1 .. Len(at) : s[k] = items[at[k]]
  BY ElementOfSeq, LenProperties DEF Keeps, Contents
<1>2. at \in Seq(1 .. n)
  <2>1. 1 .. n - 1 \subseteq 1 .. n
    BY <1>1
  <2> QED
    BY <1>1, <2>1, SeqMonotonic
<1>3. CASE n \in places
  <2> DEFINE t == Append(s, items[n])
             to == Append(at, n)
             m == Len(at)
  <2>1. n \in 1 .. n
    BY <1>1
  <2>2. ~MemberOf(at, n)
    BY <1>1
  <2>3. to \in Seq(1 .. n) /\ Once(to) /\ \A x : MemberOf(to, x) <=> MemberOf(at, x) \/ x = n
    BY <1>1, <1>2, <2>1, <2>2, AppendMembers
  <2>4. t \in Seq(X)
    BY <1>1, AppendProperties
  <2>5. /\ Len(t) = m + 1 /\ Len(to) = m + 1 /\ t[m + 1] = items[n] /\ to[m + 1] = n
        /\ \A k \in 1 .. m : t[k] = s[k] /\ to[k] = at[k]
    BY <1>1, <1>2, <2>1, AppendProperties
  <2> HIDE DEF t, to
  <2>6. \A k \in 1 .. Len(to) : t[k] = items[to[k]]
    <3>1. m \in Nat /\ \A k \in 1 .. m : s[k] = items[at[k]]
      BY <1>1
    <3> HIDE DEF m
    <3>2. \A k \in 1 .. m + 1 : k \in 1 .. m \/ k = m + 1
      BY <3>1
    <3> QED
      BY <2>5, <3>1, <3>2
  <2>7. \A x : MemberOf(to, x) <=> x \in 1 .. n /\ x \in places
    <3>1. \A x : x \in 1 .. n <=> x \in 1 .. n - 1 \/ x = n
      BY <1>1
    <3> QED
      BY <1>1, <1>3, <2>3, <3>1
  <2>8. Keeps(t, to, items, places, n, X)
    BY <2>3, <2>4, <2>5, <2>6, <2>7 DEF Keeps, Contents
  <2> QED
    BY <1>3, <2>8 DEF t
<1>4. CASE n \notin places
  <2>1. \A x : x \in 1 .. n /\ x \in places <=> x \in 1 .. n - 1 /\ x \in places
    BY <1>1, <1>4
  <2>2. Keeps(s, at, items, places, n, X)
    BY <1>1, <1>2, <2>1 DEF Keeps, Contents
  <2> QED
    BY <1>4, <2>2
<1> QED
  BY <1>3, <1>4

LEMMA KeptIs ==
  ASSUME NEW X, NEW items \in Seq(X), NEW places
  PROVE  \E at : Keeps(Kept(items, places), at, items, places, Len(items), X)
<1> DEFINE N == Len(items)
           Turn(n, s) == IF n \in places THEN Append(s, items[n]) ELSE s
           W == [n \in 0 .. N |-> {s \in Seq(X) :
                                      \E at : Keeps(s, at, items, places, n, X)}]
           turn == [p \in (1 .. N) \X Seq(X) |-> Turn(p[1], p[2])]
<1>1. N \in Nat
  BY LenProperties
<1>2. ASSUME NEW n \in 1 .. N, NEW s, \E at : Keeps(s, at, items, places, n - 1, X)
      PROVE  Turn(n, s) \in Seq(X) /\ \E to : Keeps(Turn(n, s), to, items, places, n, X)
  <2>1. PICK to : Keeps(Turn(n, s), to, items, places, n, X)
    BY <1>2, KeepsMore
  <2> QED
    BY <2>1 DEF Keeps
<1> HIDE DEF N, Turn
<1>3. ASSUME NEW n \in 1 .. N, NEW v \in W[n - 1]
      PROVE  turn[<<n, v>>] \in W[n] /\ turn[<<n, v>>] = Turn(n, v)
  <2>1. n - 1 \in 0 .. N /\ n \in 0 .. N
    BY <1>1
  <2>2. v \in Seq(X) /\ \E at : Keeps(v, at, items, places, n - 1, X)
    BY <2>1
  <2>3. Turn(n, v) \in Seq(X) /\ \E to : Keeps(Turn(n, v), to, items, places, n, X)
    BY <1>2, <2>2
  <2>4. turn[<<n, v>>] = Turn(n, v)
    BY <2>2
  <2>5. Turn(n, v) \in W[n]
    BY <2>1, <2>3
  <2> HIDE DEF turn, W
  <2> QED
    BY <2>4, <2>5
<1>4. Keeps(<<>>, <<>>, items, places, 0, X)
  <2>1. <<>> \in Seq(X) /\ <<>> \in Seq(1 .. 0) /\ Len(<<>>) = 0 /\ 1 .. 0 = {}
    BY EmptySeq
  <2> QED
    BY <2>1 DEF Keeps, Once, Contents, MemberOf
<1>5. <<>> \in W[0]
  <2>1. 0 \in 0 .. N /\ <<>> \in Seq(X)
    BY <1>1, <1>4 DEF Keeps
  <2> QED
    BY <1>4, <2>1
<1> HIDE DEF W, turn
<1>6. PICK g : Runs(N, g, <<>>, turn, W)
  <2>1. \A n \in 1 .. N : \A v \in W[n - 1] : turn[<<n, v>>] \in W[n]
    BY <1>3
  <2> QED
    BY <1>1, <1>5, <2>1, Iterates
<1>7. g = [n \in 0 .. N |-> IF n = 0 THEN <<>> ELSE Turn(n, g[n - 1])]
  <2>1. ASSUME NEW n \in 0 .. N, n # 0
        PROVE  turn[<<n, g[n - 1]>>] = Turn(n, g[n - 1])
    <3>1. n \in 1 .. N /\ n - 1 \in 0 .. N
      BY <1>1, <2>1
    <3>2. g[n - 1] \in W[n - 1]
      BY <1>6, <3>1 DEF Runs
    <3> QED
      BY <1>3, <3>1, <3>2
  <2>2. g = [n \in 0 .. N |-> IF n = 0 THEN <<>> ELSE turn[<<n, g[n - 1]>>]]
    BY <1>6 DEF Runs
  <2> QED
    BY <2>1, <2>2
<1> DEFINE f == KeptSoFar(items, places)
<1>8. f = [n \in 0 .. N |-> IF n = 0 THEN <<>> ELSE Turn(n, f[n - 1])]
  BY <1>7 DEF KeptSoFar, N, Turn
<1>9. Kept(items, places) = f[N]
  BY Zenon DEF Kept, KeptSoFar, N
<1> HIDE DEF f
<1> DEFINE S == {n \in 0 .. N : \E at : Keeps(f[n], at, items, places, n, X)}
<1>10. 0 \in S
  <2>1. f[0] = <<>> /\ 0 \in 0 .. N
    BY <1>1, <1>8
  <2> QED
    BY <1>4, <2>1
<1>11. ASSUME NEW n \in 1 .. N, n - 1 \in S PROVE n \in S
  <2>1. n \in 0 .. N /\ n # 0
    BY <1>1
  <2>2. f[n] = Turn(n, f[n - 1])
    BY <1>8, <2>1
  <2>3. \E to : Keeps(f[n], to, items, places, n, X)
    BY <1>2, <1>11, <2>2
  <2> QED
    BY <2>1, <2>3
<1>12. \A n \in 0 .. N : n \in S
  <2> HIDE DEF S
  <2> QED
    BY <1>1, <1>10, <1>11, UpTo
<1>13. \E at : Keeps(f[N], at, items, places, N, X)
  BY <1>1, <1>12
<1> QED
  BY <1>9, <1>13 DEF N

\* What is kept of a list has the items at these places, each once if the
\* list has them once.
LEMMA KeptMembers ==
  ASSUME NEW X, NEW items \in Seq(X), NEW places
  PROVE  /\ Kept(items, places) \in Seq(X)
         /\ \A x : MemberOf(Kept(items, places), x)
                      <=> \E p \in 1 .. Len(items) : p \in places /\ items[p] = x
         /\ Once(items) => Once(Kept(items, places))
<1> DEFINE s == Kept(items, places)
           N == Len(items)
<1>1. PICK at : Keeps(s, at, items, places, N, X)
  BY KeptIs
<1> HIDE DEF s
<1>2. /\ s \in Seq(X) /\ Len(s) = Len(at) /\ Once(at)
      /\ \A k \in 1 .. Len(at) : at[k] \in 1 .. N /\ s[k] = items[at[k]]
      /\ \A p : MemberOf(at, p) <=> p \in 1 .. N /\ p \in places
  BY <1>1, ElementOfSeq DEF Keeps, Contents
<1>3. ASSUME NEW x PROVE MemberOf(s, x) <=> \E p \in 1 .. N : p \in places /\ items[p] = x
  <2>1. ASSUME MemberOf(s, x) PROVE \E p \in 1 .. N : p \in places /\ items[p] = x
    <3>1. PICK k \in 1 .. Len(at) : items[at[k]] = x
      BY <1>2, <2>1 DEF MemberOf
    <3>2. MemberOf(at, at[k])
      BY <3>1 DEF MemberOf
    <3> QED
      BY <1>2, <3>1, <3>2
  <2>2. ASSUME NEW p \in 1 .. N, p \in places, items[p] = x PROVE MemberOf(s, x)
    <3>1. PICK k \in 1 .. Len(at) : at[k] = p
      BY <1>2, <2>2 DEF MemberOf
    <3> QED
      BY <1>2, <2>2, <3>1 DEF MemberOf
  <2> QED
    BY <2>1, <2>2
<1>4. ASSUME Once(items) PROVE Once(s)
  <2> SUFFICES ASSUME NEW k \in 1 .. Len(at), NEW l \in 1 .. Len(at), s[k] = s[l]
               PROVE  k = l
    BY <1>2 DEF Once
  <2>1. at[k] = at[l]
    BY <1>2, <1>4 DEF Once, N
  <2> QED
    BY <1>2, <2>1 DEF Once
<1> QED
  BY <1>2, <1>3, <1>4 DEF s, N

-----------------------------------------------------------------------------
(* Taking lists of bins apart and putting them together.                   *)

\* What is removed from a list is no longer in it.
LEMMA RemoveMembers ==
  ASSUME NEW X, NEW s \in Seq(X), NEW k \in 1 .. Len(s)
  PROVE  /\ RemoveAt(s, k) \in Seq(X) /\ Len(RemoveAt(s, k)) = Len(s) - 1
         /\ \A i \in 1 .. Len(s) - 1 : RemoveAt(s, k)[i] = IF i < k THEN s[i] ELSE s[i + 1]
         /\ Once(s) => /\ Once(RemoveAt(s, k))
                       /\ \A x : MemberOf(RemoveAt(s, k), x) <=> MemberOf(s, x) /\ x # s[k]
<1> DEFINE N == Len(s)
           p == SubSeq(s, 1, k - 1)
           q == SubSeq(s, k + 1, N)
           t == p \o q
<1>1. N \in Nat /\ k \in 1 .. N /\ \A i \in 1 .. N : s[i] \in X
  BY ElementOfSeq, LenProperties
<1>2. /\ p \in Seq(X) /\ Len(p) = k - 1
      /\ \A i \in 1 .. k - 1 : p[i] = s[i]
  <2> HIDE DEF N
  <2>1. /\ 1 \in Int /\ k - 1 \in Int /\ \A i \in 1 .. k - 1 : s[i] \in X
        /\ k - 1 - 1 + 1 = k - 1 /\ \A i \in 1 .. k - 1 : 1 + i - 1 = i
    BY <1>1
  <2>2. /\ SubSeq(s, 1, k - 1) \in Seq(X)
        /\ Len(SubSeq(s, 1, k - 1)) = IF 1 <= k - 1 THEN k - 1 - 1 + 1 ELSE 0
        /\ \A i \in 1 .. k - 1 - 1 + 1 : SubSeq(s, 1, k - 1)[i] = s[1 + i - 1]
    BY <2>1, SubSeqProperties
  <2>3. Len(p) = k - 1
    BY <1>1, <2>2
  <2> QED
    BY <2>1, <2>2, <2>3
<1>3. /\ q \in Seq(X) /\ Len(q) = N - k
      /\ \A i \in 1 .. N - k : q[i] = s[k + i]
  <2> HIDE DEF N
  <2>1. /\ N \in Int /\ k + 1 \in Int /\ \A i \in k + 1 .. N : s[i] \in X
        /\ N - (k + 1) + 1 = N - k /\ \A i \in 1 .. N - k : k + 1 + i - 1 = k + i
    BY <1>1
  <2>2. /\ SubSeq(s, k + 1, N) \in Seq(X)
        /\ Len(SubSeq(s, k + 1, N)) = IF k + 1 <= N THEN N - (k + 1) + 1 ELSE 0
        /\ \A i \in 1 .. N - (k + 1) + 1 : SubSeq(s, k + 1, N)[i] = s[k + 1 + i - 1]
    BY <2>1, SubSeqProperties
  <2>3. Len(q) = N - k
    BY <1>1, <2>2
  <2> QED
    BY <2>1, <2>2, <2>3
<1> HIDE DEF p, q, N
<1>4. /\ t \in Seq(X) /\ Len(t) = N - 1
      /\ \A i \in 1 .. (k - 1) + (N - k) : t[i] = IF i <= k - 1 THEN p[i] ELSE q[i - (k - 1)]
  <2>1. /\ t \in Seq(X) /\ Len(t) = Len(p) + Len(q)
        /\ \A i \in 1 .. Len(p) + Len(q) : t[i] = IF i <= Len(p) THEN p[i] ELSE q[i - Len(p)]
    BY <1>2, <1>3, ConcatProperties
  <2> HIDE DEF t
  <2> QED
    BY <1>1, <1>2, <1>3, <2>1
<1> HIDE DEF t
<1>5. \A i \in 1 .. N - 1 : t[i] = IF i < k THEN s[i] ELSE s[i + 1]
  <2> SUFFICES ASSUME NEW i \in 1 .. N - 1
               PROVE  t[i] = IF i < k THEN s[i] ELSE s[i + 1]
    OBVIOUS
  <2>1. i \in 1 .. (k - 1) + (N - k)
    BY <1>1
  <2>2. CASE i < k
    <3>1. i \in 1 .. k - 1 /\ i <= k - 1
      BY <1>1, <2>2
    <3> QED
      BY <1>2, <1>4, <2>1, <2>2, <3>1
  <2>3. CASE ~(i < k)
    <3>1. i - (k - 1) \in 1 .. N - k /\ ~(i <= k - 1) /\ k + (i - (k - 1)) = i + 1
      BY <1>1, <2>3
    <3>2. q[i - (k - 1)] = s[k + (i - (k - 1))]
      BY <1>3, <3>1
    <3> QED
      BY <1>4, <2>1, <2>3, <3>1, <3>2
  <2> QED
    BY <2>2, <2>3
<1>6. \A i \in 1 .. N - 1 : IF i < k THEN i \in 1 .. N /\ i # k
                                     ELSE i + 1 \in 1 .. N /\ i + 1 # k
  BY <1>1
<1>7. \A j \in 1 .. N : \/ j < k /\ j \in 1 .. N - 1
                        \/ j = k
                        \/ j - 1 \in 1 .. N - 1 /\ ~(j - 1 < k) /\ (j - 1) + 1 = j
  BY <1>1
<1>8. ASSUME Once(s) PROVE Once(t)
  <2>1. \A i, j \in 1 .. N : s[i] = s[j] => i = j
    BY <1>8 DEF Once, N
  <2> SUFFICES ASSUME NEW i \in 1 .. N - 1, NEW j \in 1 .. N - 1, t[i] = t[j]
               PROVE  i = j
    BY <1>4 DEF Once
  <2>2. CASE i < k /\ j < k
    BY <1>5, <1>6, <2>1, <2>2
  <2>3. CASE ~(i < k) /\ ~(j < k)
    <3>1. i + 1 = j + 1
      BY <1>5, <1>6, <2>1, <2>3
    <3> QED
      BY <1>1, <3>1
  <2>4. CASE i < k /\ ~(j < k)
    <3>1. i = j + 1
      BY <1>5, <1>6, <2>1, <2>4
    <3> QED
      BY <1>1, <2>4, <3>1
  <2>5. CASE ~(i < k) /\ j < k
    <3>1. i + 1 = j
      BY <1>5, <1>6, <2>1, <2>5
    <3> QED
      BY <1>1, <2>5, <3>1
  <2> QED
    BY <2>2, <2>3, <2>4, <2>5
<1>9. ASSUME Once(s), NEW x PROVE MemberOf(t, x) <=> MemberOf(s, x) /\ x # s[k]
  <2>1. \A i, j \in 1 .. N : s[i] = s[j] => i = j
    BY <1>9 DEF Once, N
  <2>2. ASSUME MemberOf(t, x) PROVE MemberOf(s, x) /\ x # s[k]
    <3>1. PICK i \in 1 .. N - 1 : t[i] = x
      BY <1>4, <2>2 DEF MemberOf
    <3>2. PICK j \in 1 .. N : j # k /\ s[j] = x
      BY <1>5, <1>6, <3>1
    <3> QED
      BY <1>1, <2>1, <3>2 DEF MemberOf, N
  <2>3. ASSUME MemberOf(s, x), x # s[k] PROVE MemberOf(t, x)
    <3>1. PICK j \in 1 .. N : s[j] = x
      BY <2>3 DEF MemberOf, N
    <3>2. \/ j \in 1 .. N - 1 /\ t[j] = x
          \/ j - 1 \in 1 .. N - 1 /\ t[j - 1] = x
      BY <1>5, <1>7, <2>3, <3>1
    <3> QED
      BY <1>4, <3>2 DEF MemberOf
  <2> QED
    BY <2>2, <2>3
<1>10. RemoveAt(s, k) = t
  BY Zenon DEF RemoveAt, t, p, q, N
<1> QED
  BY <1>4, <1>5, <1>8, <1>9, <1>10 DEF N

LEMMA PackWider ==
  ASSUME NEW G, NEW H, G \subseteq H, NEW bins, NEW I, Packs(bins, G, I)
  PROVE  Packs(bins, H, I)
BY SeqMonotonic DEF Packs

\* Some of the bins, no one of them twice.
LEMMA PackSome ==
  ASSUME NEW G, NEW bins, NEW I, Packs(bins, G, I), NEW H, NEW s \in Seq(H),
         NEW at \in Seq(1 .. Len(bins)), Len(at) = Len(s), Once(at),
         \A k \in 1 .. Len(s) : s[k] = bins[at[k]]
  PROVE  Packs(s, H, {x \in I : \E k \in 1 .. Len(s) : MemberOf(bins[at[k]], x)})
<1>1. /\ Apart(bins) /\ \A x : Held(bins, x) <=> x \in I
      /\ \A k \in 1 .. Len(s) : at[k] \in 1 .. Len(bins)
  BY ElementOfSeq DEF Packs
<1>2. \A x : Held(s, x) <=> \E k \in 1 .. Len(s) : MemberOf(bins[at[k]], x)
  BY DEF Held
<1>3. \A x : (\E k \in 1 .. Len(s) : MemberOf(bins[at[k]], x)) => x \in I
  BY <1>1 DEF Held
<1>4. Apart(s)
  <2> SUFFICES ASSUME NEW k \in 1 .. Len(s), NEW l \in 1 .. Len(s), k # l,
                      NEW i \in 1 .. Len(s[k]), NEW j \in 1 .. Len(s[l])
               PROVE  s[k][i] # s[l][j]
    BY DEF Apart
  <2>1. at[k] # at[l] /\ at[k] \in 1 .. Len(bins) /\ at[l] \in 1 .. Len(bins)
    BY <1>1 DEF Once
  <2>2. s[k] = bins[at[k]] /\ s[l] = bins[at[l]]
    OBVIOUS
  <2>3. i \in 1 .. Len(bins[at[k]]) /\ j \in 1 .. Len(bins[at[l]])
    BY <2>2, Zenon
  <2>4. bins[at[k]][i] # bins[at[l]][j]
    BY <1>1, <2>1, <2>3, ZenonT(30) DEF Apart
  <2> QED
    BY <2>2, <2>4, Zenon
<1> QED
  BY <1>2, <1>3, <1>4 DEF Packs

\* The bins from a to b.
LEMMA PackPart ==
  ASSUME NEW G, NEW bins, NEW I, Packs(bins, G, I),
         NEW a \in Nat, NEW b \in Nat, 1 <= a, b <= Len(bins)
  PROVE  Packs(SubSeq(bins, a, b), G,
               {x \in I : \E c \in a .. b : MemberOf(bins[c], x)})
<1> DEFINE N == Len(bins)
           s == SubSeq(bins, a, b)
           at == [k \in 1 .. Len(s) |-> a + k - 1]
           m == Len(s)
<1>1. bins \in Seq(G) /\ N \in Nat /\ \A c \in 1 .. N : bins[c] \in G
  BY ElementOfSeq, LenProperties DEF Packs
<1>2. /\ s \in Seq(G) /\ m = (IF a <= b THEN b - a + 1 ELSE 0)
      /\ \A k \in 1 .. b - a + 1 : s[k] = bins[a + k - 1]
  <2>1. a \in Int /\ b \in Int /\ \A c \in a .. b : bins[c] \in G
    <3>1. \A c \in a .. b : c \in 1 .. N
      BY <1>1
    <3> QED
      BY <1>1, <3>1
  <2> QED
    BY <2>1, SubSeqProperties
<1> HIDE DEF s
<1>3. m \in Nat /\ \A k \in 1 .. m : k \in 1 .. b - a + 1 /\ a + k - 1 \in a .. b
      /\ a + k - 1 \in 1 .. N
  BY <1>1, <1>2
<1>4. at \in Seq(1 .. N) /\ Len(at) = m /\ \A k \in 1 .. m : at[k] = a + k - 1
  BY <1>3
<1> HIDE DEF at, m, N
<1>5. Once(at)
  BY <1>3, <1>4 DEF Once
<1>6. \A k \in 1 .. m : s[k] = bins[at[k]]
  BY <1>2, <1>3, <1>4
<1>7. Packs(s, G, {x \in I : \E k \in 1 .. m : MemberOf(bins[at[k]], x)})
  BY <1>2, <1>4, <1>5, <1>6, PackSome DEF N, m
<1>8. ASSUME NEW x
      PROVE  (\E k \in 1 .. m : MemberOf(bins[at[k]], x))
                 <=> \E c \in a .. b : MemberOf(bins[c], x)
  <2>1. ASSUME NEW c \in a .. b, MemberOf(bins[c], x)
        PROVE  \E k \in 1 .. m : MemberOf(bins[at[k]], x)
    <3> DEFINE k == c - a + 1
    <3>1. k \in 1 .. m /\ a + k - 1 = c
      BY <1>2
    <3> HIDE DEF k
    <3>2. at[k] = c
      BY <1>4, <3>1
    <3> QED
      BY <2>1, <3>1, <3>2
  <2> QED
    BY <1>3, <1>4, <2>1
<1>9. {x \in I : \E k \in 1 .. m : MemberOf(bins[at[k]], x)}
          = {x \in I : \E c \in a .. b : MemberOf(bins[c], x)}
  BY <1>8
<1>10. Packs(s, G, {x \in I : \E c \in a .. b : MemberOf(bins[c], x)})
  BY <1>7, <1>9, Zenon
<1> QED
  BY <1>10 DEF s

\* The bins without the empty ones.
LEMMA PackKept ==
  ASSUME NEW G, NEW bins, NEW I, Packs(bins, G, I)
  PROVE  Packs(Kept(bins, {b \in DOMAIN bins : bins[b] # <<>>}), G \ {<<>>}, I)
<1> DEFINE places == {b \in DOMAIN bins : bins[b] # <<>>}
           s == Kept(bins, places)
           N == Len(bins)
<1>1. bins \in Seq(G) /\ DOMAIN bins = 1 .. N /\ \A b \in 1 .. N : bins[b] \in G
  BY ElementOfSeq, LenProperties DEF Packs
<1>2. PICK at : Keeps(s, at, bins, places, N, G)
  BY <1>1, KeptIs
<1> HIDE DEF s
<1>3. /\ s \in Seq(G) /\ Len(s) \in Nat /\ Len(s) = Len(at) /\ at \in Seq(1 .. N) /\ Once(at)
      /\ \A k \in 1 .. Len(at) : s[k] = bins[at[k]]
      /\ \A p : MemberOf(at, p) <=> p \in 1 .. N /\ p \in places
  BY <1>2, LenProperties DEF Keeps, Contents
<1>4. \A k \in 1 .. Len(s) : s[k] \in G \ {<<>>}
  <2> SUFFICES ASSUME NEW k \in 1 .. Len(s) PROVE s[k] \in G \ {<<>>}
    OBVIOUS
  <2>1. MemberOf(at, at[k])
    BY <1>3 DEF MemberOf
  <2>2. at[k] \in 1 .. N /\ at[k] \in places
    BY <1>3, <2>1
  <2> QED
    BY <1>1, <1>3, <2>2
<1>5. s \in Seq(G \ {<<>>})
  <2>1. s = [k \in 1 .. Len(s) |-> s[k]]
    BY <1>3
  <2> QED
    BY <1>3, <1>4, <2>1, IsASeq
<1>6. Packs(s, G \ {<<>>}, {x \in I : \E k \in 1 .. Len(s) : MemberOf(bins[at[k]], x)})
  BY <1>3, <1>5, PackSome DEF N
<1>7. \A x \in I : \E k \in 1 .. Len(s) : MemberOf(bins[at[k]], x)
  <2> SUFFICES ASSUME NEW x \in I
               PROVE  \E k \in 1 .. Len(s) : MemberOf(bins[at[k]], x)
    OBVIOUS
  <2>1. PICK b \in 1 .. N : MemberOf(bins[b], x)
    BY DEF Packs, Held, N
  <2>2. bins[b] # <<>>
    BY <2>1, EmptySeq DEF MemberOf
  <2>3. MemberOf(at, b)
    BY <1>1, <1>3, <2>2
  <2> QED
    BY <1>3, <2>1, <2>3 DEF MemberOf
<1>8. {x \in I : \E k \in 1 .. Len(s) : MemberOf(bins[at[k]], x)} = I
  BY <1>7
<1>9. Packs(s, G \ {<<>>}, I)
  BY <1>6, <1>8, Zenon
<1> QED
  BY <1>9 DEF s

-----------------------------------------------------------------------------
(* Modified first-fit decreasing: bins that hold some of M and L, and a    *)
(* rest of M that is in no bin.                                            *)

InRest(p, G, M, L, I) ==
    /\ p \in [bins : Seq(G), rest : Seq(M)]
    /\ Once(p.rest)
    /\ Packs(p.bins, G, I) /\ I \subseteq M \cup L
    /\ \A x \in I : ~MemberOf(p.rest, x)

Packing(p, G, M, L) == \E I : InRest(p, G, M, L, I)

MediumJoin(packing, bin, lens, capacity) ==
    LET rest == packing.rest
        fitting == {k \in DOMAIN rest : Fits(bin, rest[k], lens, capacity)}
        k == Min(fitting)
    IN  IF fitting = {}
        THEN [packing EXCEPT !.bins = Append(@, bin)]
        ELSE [bins |-> Append(packing.bins, Append(bin, rest[k])),
              rest |-> RemoveAt(rest, k)]

LEMMA MediumTurn ==
  ASSUME NEW lens, NEW capacity, Lengths(lens, capacity),
         NEW M \in SUBSET DOMAIN lens, NEW L, NEW p,
         Packing(p, UsedBins(lens, capacity), M, L),
         NEW bin \in UsedBins(lens, capacity), NEW C, Contents(bin, C),
         C \cap (M \cup L) = {}
  PROVE  Packing(MediumJoin(p, bin, lens, capacity), UsedBins(lens, capacity), M, L \cup C)
<1> DEFINE G == UsedBins(lens, capacity)
           rest == p.rest
           fitting == {k \in DOMAIN rest : Fits(bin, rest[k], lens, capacity)}
           k == Min(fitting)
           q == MediumJoin(p, bin, lens, capacity)
<1>1. PICK I : InRest(p, G, M, L, I)
  BY DEF Packing
<1>2. /\ p.bins \in Seq(G) /\ rest \in Seq(M) /\ Once(rest) /\ Packs(p.bins, G, I)
      /\ I \subseteq M \cup L /\ \A x \in I : ~MemberOf(rest, x)
      /\ p = [bins |-> p.bins, rest |-> rest]
  BY <1>1 DEF InRest
<1>3. DOMAIN rest = 1 .. Len(rest) /\ \A n \in 1 .. Len(rest) : rest[n] \in M
  BY <1>2, ElementOfSeq, LenProperties
<1>4. I \cap C = {} /\ bin \in G
  BY <1>2
<1>5. CASE fitting = {}
  <2> DEFINE r == Append(p.bins, bin)
  <2>1. q = [bins |-> r, rest |-> rest]
    BY <1>2, <1>5 DEF MediumJoin
  <2>2. Packs(r, G, I \cup C)
    <3> HIDE DEF G
    <3> QED
      BY <1>2, <1>4, PackMore
  <2>3. r \in Seq(G)
    BY <2>2 DEF Packs
  <2> HIDE DEF r, G, q
  <2>4. \A x \in C : ~MemberOf(rest, x)
    BY <1>3 DEF MemberOf
  <2>5. InRest(q, G, M, L \cup C, I \cup C)
    <3>1. q.bins = r /\ q.rest = rest /\ q \in [bins : Seq(G), rest : Seq(M)]
      BY <1>2, <2>1, <2>3
    <3>2. \A x \in I \cup C : ~MemberOf(rest, x)
      BY <1>2, <2>4
    <3> QED
      BY <1>2, <2>2, <3>1, <3>2 DEF InRest
  <2> QED
    BY <2>5 DEF Packing, q, G
<1>6. CASE fitting # {}
  <2> DEFINE a == rest[k]
             r == Append(p.bins, Append(bin, a))
             s == RemoveAt(rest, k)
  <2>1. k \in fitting
    <3>1. fitting \in SUBSET Nat
      BY <1>3
    <3> HIDE DEF fitting
    <3> QED
      BY <1>6, <3>1, MinIs
  <2>2. k \in 1 .. Len(rest) /\ Fits(bin, a, lens, capacity)
    BY <1>3, <2>1
  <2>3. q = [bins |-> r, rest |-> s]
    BY <1>6 DEF MediumJoin
  <2> HIDE DEF k, q
  <2>4. a \in M /\ a \in DOMAIN lens /\ MemberOf(rest, a)
    BY <1>3, <2>2 DEF MemberOf
  <2>5. s \in Seq(M) /\ Once(s) /\ \A x : MemberOf(s, x) <=> MemberOf(rest, x) /\ x # a
    BY <1>2, <2>2, RemoveMembers
  <2>6. ~MemberOf(bin, a) /\ bin \in Bins(lens, capacity)
    BY <2>4 DEF Contents, UsedBins
  <2>7. /\ Append(bin, a) \in G
        /\ \A x : MemberOf(Append(bin, a), x) <=> MemberOf(bin, x) \/ x \in {a}
    BY <2>2, <2>4, <2>6, BinGrows
  <2> HIDE DEF a, s, G
  <2>8. Contents(Append(bin, a), C \cup {a})
    BY <2>7 DEF Contents
  <2>9. I \cap (C \cup {a}) = {}
    BY <1>2, <1>4, <2>4
  <2>10. Packs(r, G, I \cup (C \cup {a}))
    BY <1>2, <2>7, <2>8, <2>9, PackMore
  <2>11. r \in Seq(G)
    BY <2>10 DEF Packs
  <2> HIDE DEF r
  <2>12. InRest(q, G, M, L \cup C, I \cup (C \cup {a}))
    <3>1. q.bins = r /\ q.rest = s /\ q \in [bins : Seq(G), rest : Seq(M)]
      BY <2>3, <2>5, <2>11
    <3>2. \A x \in C : ~MemberOf(rest, x)
      BY <1>3 DEF MemberOf
    <3>3. \A x \in I \cup (C \cup {a}) : ~MemberOf(s, x)
      BY <1>2, <2>5, <3>2
    <3>4. I \cup (C \cup {a}) \subseteq M \cup (L \cup C)
      BY <1>2, <2>4
    <3> QED
      BY <2>5, <2>10, <3>1, <3>3, <3>4 DEF InRest
  <2> QED
    BY <2>12 DEF Packing, q, G
<1> QED
  BY <1>5, <1>6

MediumVisited(lens, capacity) ==
    CHOOSE visited : visited =
        [n \in 0 .. Len(Descending(Large(lens, capacity), lens)) |->
            IF n = 0
            THEN [bins |-> <<>>, rest |-> Descending(Medium(lens, capacity), lens)]
            ELSE MediumJoin(visited[n - 1],
                            <<Descending(Large(lens, capacity), lens)[n]>>, lens, capacity)]

LEMMA Classes ==
  ASSUME NEW lens, NEW capacity, Lengths(lens, capacity)
  PROVE  /\ Large(lens, capacity) \in SUBSET DOMAIN lens
         /\ Medium(lens, capacity) \in SUBSET DOMAIN lens
         /\ Small(lens, capacity) \in SUBSET DOMAIN lens
         /\ Large(lens, capacity) \cap Medium(lens, capacity) = {}
         /\ Small(lens, capacity) \cap (Medium(lens, capacity) \cup Large(lens, capacity)) = {}
<1>1. capacity \in Nat /\ \A i \in DOMAIN lens : lens[i] \in Nat
  BY LengthsWeigh DEF Lengths, Weighs
<1> QED
  BY <1>1 DEF Large, Medium, Small

LEMMA AddMediumPacks ==
  ASSUME NEW lens, NEW capacity, Lengths(lens, capacity)
  PROVE  \E I : /\ Packs(AddMedium(lens, capacity), UsedBins(lens, capacity), I)
                /\ I \subseteq Medium(lens, capacity) \cup Large(lens, capacity)
<1> DEFINE G == UsedBins(lens, capacity)
           M == Medium(lens, capacity)
           large == Descending(Large(lens, capacity), lens)
           first == [bins |-> <<>>, rest |-> Descending(M, lens)]
           N == Len(large)
           Join(p, n) == MediumJoin(p, <<large[n]>>, lens, capacity)
           X == [bins : Seq(G), rest : Seq(M)]
           W == [n \in 0 .. N |-> {p \in X : Packing(p, G, M, Placed(large, n))}]
           turn == [p \in (1 .. N) \X X |-> Join(p[2], p[1])]
<1>1. /\ Large(lens, capacity) \in SUBSET DOMAIN lens /\ M \in SUBSET DOMAIN lens
      /\ Large(lens, capacity) \cap M = {}
  BY Classes
<1>2. /\ large \in Seq(Large(lens, capacity)) /\ Once(large)
      /\ Descending(M, lens) \in Seq(M) /\ Once(Descending(M, lens))
  <2>1. /\ Large(lens, capacity) \in SUBSET Nat /\ IsFiniteSet(Large(lens, capacity))
        /\ Weighs(lens, Large(lens, capacity))
        /\ M \in SUBSET Nat /\ IsFiniteSet(M) /\ Weighs(lens, M)
    BY <1>1, LengthsWeigh
  <2>2. InSortedOrder(large, Longer(Large(lens, capacity), lens), Large(lens, capacity))
    BY <2>1, DescendingIs
  <2>3. InSortedOrder(Descending(M, lens), Longer(M, lens), M)
    BY <2>1, DescendingIs
  <2> QED
    BY <2>2, <2>3, SortedOnce
<1>3. N \in Nat /\ \A n \in 1 .. N : large[n] \in Large(lens, capacity)
  BY <1>2, ElementOfSeq, LenProperties
<1> HIDE DEF M, large, N
<1>4. ASSUME NEW n \in 1 .. N, NEW p, Packing(p, G, M, Placed(large, n - 1))
      PROVE  Packing(Join(p, n), G, M, Placed(large, n))
  <2>1. large[n] \in DOMAIN lens /\ large[n] \notin M
    BY <1>1, <1>3
  <2>2. <<large[n]>> \in G /\ Contents(<<large[n]>>, {large[n]})
    BY <2>1, BinStarts
  <2>3. large[n] \notin Placed(large, n - 1)
    <3>1. \A k \in 1 .. n - 1 : k \in 1 .. N /\ k # n
      BY <1>3
    <3> QED
      BY <1>2, <3>1 DEF Once, Placed, N
  <2>4. Placed(large, n) = Placed(large, n - 1) \cup {large[n]}
    <3>1. \A k : k \in 1 .. n <=> k \in 1 .. n - 1 \/ k = n
      BY <1>3
    <3> QED
      BY <3>1 DEF Placed
  <2>5. {large[n]} \cap (M \cup Placed(large, n - 1)) = {}
    BY <2>1, <2>3
  <2>6. Packing(Join(p, n), G, M, Placed(large, n - 1) \cup {large[n]})
    BY <1>1, <1>4, <2>2, <2>5, MediumTurn
  <2> QED
    BY <2>4, <2>6, Zenon
<1>5. Packing(first, G, M, Placed(large, 0))
  <2>1. first.bins = <<>> /\ first.rest = Descending(M, lens) /\ first \in X
    BY <1>2, EmptySeq
  <2>2. Packs(<<>>, G, {})
    BY PackNothing
  <2>3. InRest(first, G, M, Placed(large, 0), {})
    BY <1>2, <2>1, <2>2 DEF InRest
  <2> QED
    BY <2>3 DEF Packing
<1> HIDE DEF G, Join, first, X
<1>a. \A p, n : Packing(p, G, M, Placed(large, n)) => p \in X
  BY DEF Packing, InRest, X
<1>6. ASSUME NEW n \in 1 .. N, NEW v \in W[n - 1]
      PROVE  turn[<<n, v>>] \in W[n] /\ turn[<<n, v>>] = Join(v, n)
  <2>1. n - 1 \in 0 .. N /\ n \in 0 .. N
    BY <1>3
  <2>2. v \in X /\ Packing(v, G, M, Placed(large, n - 1))
    BY <2>1
  <2>3. Packing(Join(v, n), G, M, Placed(large, n))
    BY <1>4, <2>2
  <2>4. turn[<<n, v>>] = Join(v, n)
    BY <2>2
  <2>5. Join(v, n) \in W[n]
    BY <1>a, <2>1, <2>3
  <2> HIDE DEF turn, W
  <2> QED
    BY <2>4, <2>5
<1>7. first \in W[0]
  <2>1. 0 \in 0 .. N
    BY <1>3
  <2> QED
    BY <1>a, <1>5, <2>1
<1> HIDE DEF W, turn
<1>8. PICK g : Runs(N, g, first, turn, W)
  <2>1. \A n \in 1 .. N : \A v \in W[n - 1] : turn[<<n, v>>] \in W[n]
    BY <1>6
  <2> QED
    BY <1>3, <1>7, <2>1, Iterates
<1>9. g = [n \in 0 .. N |-> IF n = 0 THEN first ELSE Join(g[n - 1], n)]
  <2>1. ASSUME NEW n \in 0 .. N, n # 0 PROVE turn[<<n, g[n - 1]>>] = Join(g[n - 1], n)
    <3>1. n \in 1 .. N /\ n - 1 \in 0 .. N
      BY <1>3, <2>1
    <3>2. g[n - 1] \in W[n - 1]
      BY <1>8, <3>1 DEF Runs
    <3> QED
      BY <1>6, <3>1, <3>2
  <2>2. g = [n \in 0 .. N |-> IF n = 0 THEN first ELSE turn[<<n, g[n - 1]>>]]
    BY <1>8 DEF Runs
  <2> QED
    BY <2>1, <2>2
<1> DEFINE f == MediumVisited(lens, capacity)
<1>10. f = [n \in 0 .. N |-> IF n = 0 THEN first ELSE Join(f[n - 1], n)]
  BY <1>9, Zenon DEF MediumVisited, N, large, Join, first, M
<1>11. AddMedium(lens, capacity) = f[N].bins
  BY Zenon DEF AddMedium, MediumVisited, MediumJoin, N, large
<1> HIDE DEF f
<1> DEFINE S == {n \in 0 .. N : Packing(f[n], G, M, Placed(large, n))}
<1>12. 0 \in S
  <2>1. f[0] = first /\ 0 \in 0 .. N
    BY <1>3, <1>10
  <2> QED
    BY <1>5, <2>1
<1>13. ASSUME NEW n \in 1 .. N, n - 1 \in S PROVE n \in S
  <2>1. n \in 0 .. N /\ n # 0
    BY <1>3
  <2>2. f[n] = Join(f[n - 1], n)
    BY <1>10, <2>1
  <2>3. Packing(f[n], G, M, Placed(large, n))
    BY <1>4, <1>13, <2>2
  <2> QED
    BY <2>1, <2>3
<1>14. \A n \in 0 .. N : n \in S
  <2> HIDE DEF S
  <2> QED
    BY <1>3, <1>12, <1>13, UpTo
<1>15. Packing(f[N], G, M, Placed(large, N))
  BY <1>3, <1>14
<1>16. Placed(large, N) \subseteq Large(lens, capacity)
  BY <1>3 DEF Placed
<1>17. PICK I : Packs(f[N].bins, G, I) /\ I \subseteq M \cup Placed(large, N)
  BY <1>15 DEF Packing, InRest
<1>18. Packs(AddMedium(lens, capacity), G, I) /\ I \subseteq M \cup Large(lens, capacity)
  BY <1>11, <1>16, <1>17
<1> QED
  BY <1>18 DEF G, M

LEMMA TailMembers ==
  ASSUME NEW X, NEW s \in Seq(X), s # <<>>, Once(s)
  PROVE  /\ Tail(s) \in Seq(X) /\ Once(Tail(s))
         /\ \A x : MemberOf(Tail(s), x) <=> MemberOf(s, x) /\ x # s[1]
<1>1. Len(s) \in Nat /\ 1 \in 1 .. Len(s)
  BY EmptySeq, LenProperties
<1>2. Tail(s) \in Seq(X) /\ Tail(s) = SubSeq(s, 1 + 1, Len(s))
  BY TailIsSubSeq, HeadTailProperties
<1>3. SubSeq(s, 1, 1 - 1) = <<>>
  BY SubSeqEmpty
<1>4. RemoveAt(s, 1) = <<>> \o Tail(s)
  BY <1>2, <1>3 DEF RemoveAt
<1>5. RemoveAt(s, 1) = Tail(s)
  BY <1>2, <1>4, ConcatEmptySeq
<1>6. /\ RemoveAt(s, 1) \in Seq(X) /\ Once(RemoveAt(s, 1))
      /\ \A x : MemberOf(RemoveAt(s, 1), x) <=> MemberOf(s, x) /\ x # s[1]
  BY <1>1, RemoveMembers
<1> QED
  BY <1>5, <1>6

PairJoin(packing, bin, lens, capacity) ==
    LET rest == packing.rest
        room == capacity - Load(bin, lens)
        seconds == {k \in 2 .. Len(rest) : lens[rest[1]] + lens[rest[k]] <= room}
        k == Max(seconds)
    IN  IF Len(bin) > 1 \/ 2 \notin seconds
        THEN [packing EXCEPT !.bins = <<bin>> \o @]
        ELSE [bins |-> <<bin \o <<rest[1], rest[k]>> >> \o packing.bins,
              rest |-> Tail(RemoveAt(rest, k))]

\* Two items that fit together join a bin.
LEMMA BinGrowsByTwo ==
  ASSUME NEW lens, NEW capacity, Lengths(lens, capacity),
         NEW bin \in UsedBins(lens, capacity), NEW C, Contents(bin, C),
         NEW a \in DOMAIN lens, NEW b \in DOMAIN lens, a # b, a \notin C, b \notin C,
         lens[a] + lens[b] <= capacity - Load(bin, lens)
  PROVE  /\ bin \o <<a, b>> \in UsedBins(lens, capacity)
         /\ Contents(bin \o <<a, b>>, C \cup {a, b})
<1> DEFINE D == DOMAIN lens
           G == UsedBins(lens, capacity)
           s == Append(bin, a)
<1>1. bin \in Seq(D) /\ bin \in Bins(lens, capacity) /\ Weighs(lens, D)
  BY LengthsWeigh DEF UsedBins, Bins
<1>2. Load(bin, lens) \in Nat /\ Load(s, lens) = Load(bin, lens) + lens[a]
  BY <1>1, LoadIs
<1>3. capacity \in Nat /\ lens[a] \in Nat /\ lens[b] \in Nat
  BY <1>1 DEF Lengths, Weighs
<1>4. Fits(bin, a, lens, capacity) /\ Fits(s, b, lens, capacity)
  BY <1>2, <1>3 DEF Fits
<1>5. s \in G /\ \A x : MemberOf(s, x) <=> MemberOf(bin, x) \/ x \in {a}
  BY <1>1, <1>4, BinGrows DEF Contents
<1> HIDE DEF s
<1>6. s \in Bins(lens, capacity) /\ ~MemberOf(s, b)
  BY <1>5 DEF UsedBins, Contents
<1>7. Append(s, b) \in G /\ \A x : MemberOf(Append(s, b), x) <=> MemberOf(s, x) \/ x \in {b}
  BY <1>4, <1>6, BinGrows
<1>8. Append(s, b) = bin \o <<a, b>>
  <2>1. s = bin \o <<a>> /\ s \in Seq(D) /\ <<a>> \in Seq(D) /\ <<b>> \in Seq(D)
    BY <1>1, AppendIsConcat, AppendProperties DEF s
  <2>2. Append(s, b) = (bin \o <<a>>) \o <<b>>
    BY <2>1, AppendIsConcat
  <2>3. (bin \o <<a>>) \o <<b>> = bin \o (<<a>> \o <<b>>)
    BY <1>1, <2>1, ConcatAssociative
  <2>4. <<a>> \o <<b>> = <<a, b>>
    <3>1. <<a>> \in Seq(D) /\ Len(<<a>>) = 1 /\ <<a>>[1] = a
      OBVIOUS
    <3>2. <<b>> \in Seq(D) /\ Len(<<b>>) = 1 /\ <<b>>[1] = b
      OBVIOUS
    <3>3. <<a, b>> \in Seq(D) /\ Len(<<a, b>>) = 2 /\ <<a, b>>[1] = a /\ <<a, b>>[2] = b
      OBVIOUS
    <3> DEFINE u == <<a>> \o <<b>>
               v == <<a, b>>
    <3>4. u \in Seq(D) /\ Len(u) = 2 /\ u[1] = a /\ u[2] = b
      <4>1. u \in Seq(D) /\ Len(u) = 1 + 1
            /\ \A i \in 1 .. 1 + 1 : u[i] = IF i <= 1 THEN <<a>>[i] ELSE <<b>>[i - 1]
        BY <3>1, <3>2, ConcatProperties
      <4> HIDE DEF u
      <4> QED
        BY <3>1, <3>2, <4>1
    <3>5. v \in Seq(D) /\ Len(v) = 2 /\ v[1] = a /\ v[2] = b
      BY <3>3
    <3> HIDE DEF u, v
    <3>6. u = v
      <4>1. \A i \in 1 .. 2 : i = 1 \/ i = 2
        OBVIOUS
      <4>2. \A i \in 1 .. Len(u) : u[i] = v[i]
        BY <3>4, <3>5, <4>1
      <4> QED
        BY <3>4, <3>5, <4>2, SeqEqual
    <3> QED
      BY <3>6 DEF u, v
  <2> QED
    BY <2>2, <2>3, <2>4
<1> QED
  BY <1>5, <1>7, <1>8 DEF Contents

LEMMA PairTurn ==
  ASSUME NEW lens, NEW capacity, Lengths(lens, capacity),
         NEW M \in SUBSET DOMAIN lens, NEW L, NEW p,
         Packing(p, UsedBins(lens, capacity), M, L),
         NEW bin \in UsedBins(lens, capacity), NEW C, Contents(bin, C),
         C \cap (M \cup L) = {}
  PROVE  Packing(PairJoin(p, bin, lens, capacity), UsedBins(lens, capacity), M, L \cup C)
<1> DEFINE G == UsedBins(lens, capacity)
           rest == p.rest
           room == capacity - Load(bin, lens)
           seconds == {k \in 2 .. Len(rest) : lens[rest[1]] + lens[rest[k]] <= room}
           k == Max(seconds)
           q == PairJoin(p, bin, lens, capacity)
<1>1. PICK I : InRest(p, G, M, L, I)
  BY DEF Packing
<1>2. /\ p.bins \in Seq(G) /\ rest \in Seq(M) /\ Once(rest) /\ Packs(p.bins, G, I)
      /\ I \subseteq M \cup L /\ \A x \in I : ~MemberOf(rest, x)
      /\ p = [bins |-> p.bins, rest |-> rest]
  BY <1>1 DEF InRest
<1>3. Len(rest) \in Nat /\ \A n \in 1 .. Len(rest) : rest[n] \in M
  BY <1>2, ElementOfSeq, LenProperties
<1>4. C \cap I = {} /\ bin \in G
  BY <1>2
<1>5. CASE Len(bin) > 1 \/ 2 \notin seconds
  <2> DEFINE r == <<bin>> \o p.bins
  <2>1. q = [bins |-> r, rest |-> rest]
    BY <1>2, <1>5, Zenon DEF PairJoin
  <2>2. Packs(r, G, C \cup I)
    <3> HIDE DEF G
    <3>1. Packs(<<bin>>, G, C)
      BY <1>4, PackOne
    <3> QED
      BY <1>2, <1>4, <3>1, PackJoin
  <2>3. r \in Seq(G)
    BY <2>2 DEF Packs
  <2> HIDE DEF r, G, q
  <2>4. \A x \in C : ~MemberOf(rest, x)
    BY <1>3 DEF MemberOf
  <2>5. InRest(q, G, M, L \cup C, C \cup I)
    <3>1. q.bins = r /\ q.rest = rest /\ q \in [bins : Seq(G), rest : Seq(M)]
      BY <1>2, <2>1, <2>3
    <3>2. \A x \in C \cup I : ~MemberOf(rest, x)
      BY <1>2, <2>4
    <3> QED
      BY <1>2, <2>2, <3>1, <3>2 DEF InRest
  <2> QED
    BY <2>5 DEF Packing, q, G
<1>6. CASE ~(Len(bin) > 1 \/ 2 \notin seconds)
  <2> DEFINE a == rest[1]
             b == rest[k]
             r == <<bin \o <<a, b>> >> \o p.bins
             s == RemoveAt(rest, k)
             t == Tail(s)
  <2>1. k \in seconds
    <3>1. seconds \in SUBSET (0 .. Len(rest)) /\ seconds # {}
      <4>1. \A n \in 2 .. Len(rest) : n \in 0 .. Len(rest)
        BY <1>3
      <4> QED
        BY <1>6, <4>1
    <3> HIDE DEF seconds
    <3> QED
      BY <1>3, <3>1, MaxIs
  <2>2. k \in 2 .. Len(rest) /\ lens[a] + lens[b] <= capacity - Load(bin, lens)
    BY <2>1
  <2>3. q = [bins |-> r, rest |-> t]
    BY <1>6, Zenon DEF PairJoin
  <2> HIDE DEF k, q
  <2>4. k \in 1 .. Len(rest) /\ 1 \in 1 .. Len(rest) /\ k # 1
    BY <1>3, <2>2
  <2>5. /\ a \in M /\ a \in DOMAIN lens /\ MemberOf(rest, a) /\ a # b
        /\ b \in M /\ b \in DOMAIN lens /\ MemberOf(rest, b)
    BY <1>2, <1>3, <2>4 DEF MemberOf, Once
  <2>6. /\ s \in Seq(M) /\ Once(s) /\ Len(s) = Len(rest) - 1 /\ s[1] = a
        /\ \A x : MemberOf(s, x) <=> MemberOf(rest, x) /\ x # b
    <3>1. 1 \in 1 .. Len(rest) - 1 /\ 1 < k
      BY <1>3, <2>2
    <3>2. /\ RemoveAt(rest, k) \in Seq(M) /\ Len(RemoveAt(rest, k)) = Len(rest) - 1
          /\ \A i \in 1 .. Len(rest) - 1 :
                RemoveAt(rest, k)[i] = IF i < k THEN rest[i] ELSE rest[i + 1]
          /\ Once(RemoveAt(rest, k))
          /\ \A x : MemberOf(RemoveAt(rest, k), x) <=> MemberOf(rest, x) /\ x # rest[k]
      BY <1>2, <2>4, RemoveMembers
    <3> QED
      BY <3>1, <3>2
  <2>7. /\ bin \o <<a, b>> \in G
        /\ Contents(bin \o <<a, b>>, C \cup {a, b})
    BY <2>2, <2>5, BinGrowsByTwo
  <2> HIDE DEF a, b, s, G
  <2>8. t \in Seq(M) /\ Once(t) /\ \A x : MemberOf(t, x) <=> MemberOf(s, x) /\ x # a
    <3>1. s # <<>>
      BY <1>3, <2>2, <2>6, EmptySeq
    <3> QED
      BY <2>6, <3>1, TailMembers
  <2>9. (C \cup {a, b}) \cap I = {}
    BY <1>2, <1>4, <2>5
  <2>10. Packs(r, G, (C \cup {a, b}) \cup I)
    <3>1. Packs(<<bin \o <<a, b>> >>, G, C \cup {a, b})
      BY <2>7, PackOne
    <3> QED
      BY <1>2, <2>9, <3>1, PackJoin
  <2>11. r \in Seq(G)
    BY <2>10 DEF Packs
  <2> HIDE DEF r, t
  <2>12. InRest(q, G, M, L \cup C, (C \cup {a, b}) \cup I)
    <3>1. q.bins = r /\ q.rest = t /\ q \in [bins : Seq(G), rest : Seq(M)]
      BY <2>3, <2>8, <2>11
    <3>2. \A x \in C : ~MemberOf(rest, x)
      BY <1>3 DEF MemberOf
    <3>3. \A x \in (C \cup {a, b}) \cup I : ~MemberOf(t, x)
      BY <1>2, <2>6, <2>8, <3>2
    <3>4. (C \cup {a, b}) \cup I \subseteq M \cup (L \cup C)
      BY <1>2, <2>5
    <3> QED
      BY <2>8, <2>10, <3>1, <3>3, <3>4 DEF InRest
  <2> QED
    BY <2>12 DEF Packing, q, G
<1> QED
  BY <1>5, <1>6

PairsVisited(bins, lens, capacity) ==
    CHOOSE visited : visited = [n \in 1 .. (Len(bins) + 1) |->
        IF n > Len(bins)
        THEN [bins |-> <<>>, rest |-> Ascending(Small(lens, capacity), lens)]
        ELSE PairJoin(visited[n + 1], bins[n], lens, capacity)]

LEMMA AddSmallPairsPacks ==
  ASSUME NEW lens, NEW capacity, Lengths(lens, capacity), NEW bins, NEW A,
         Packs(bins, UsedBins(lens, capacity), A),
         A \subseteq Medium(lens, capacity) \cup Large(lens, capacity)
  PROVE  \E I : /\ Packs(AddSmallPairs(bins, lens, capacity), UsedBins(lens, capacity), I)
                /\ I \subseteq DOMAIN lens
<1> DEFINE G == UsedBins(lens, capacity)
           M == Small(lens, capacity)
           first == [bins |-> <<>>, rest |-> Ascending(M, lens)]
           N == Len(bins)
           Of(m) == {x \in A : \E b \in N + 1 - m .. N : MemberOf(bins[b], x)}
           Join(p, n) == PairJoin(p, bins[n], lens, capacity)
           X == [bins : Seq(G), rest : Seq(M)]
           W == [m \in 0 .. N |-> {p \in X : Packing(p, G, M, Of(m))}]
           turn == [p \in (1 .. N) \X X |-> Join(p[2], N + 1 - p[1])]
<1>1. M \in SUBSET DOMAIN lens /\ A \subseteq DOMAIN lens /\ A \cap M = {}
  BY Classes
<1>2. Ascending(M, lens) \in Seq(M) /\ Once(Ascending(M, lens))
  <2>1. M \in SUBSET Nat /\ IsFiniteSet(M) /\ Weighs(lens, M)
    BY <1>1, LengthsWeigh
  <2>2. InSortedOrder(Ascending(M, lens), Shorter(M, lens), M)
    BY <2>1, AscendingIs
  <2> QED
    BY <2>2, SortedOnce
<1>3. /\ N \in Nat /\ Apart(bins) /\ (\A x : Held(bins, x) <=> x \in A)
      /\ \A n \in 1 .. N : bins[n] \in G
  BY ElementOfSeq, LenProperties DEF Packs
<1> HIDE DEF M, N
<1>4. ASSUME NEW m \in 1 .. N, NEW p, Packing(p, G, M, Of(m - 1))
      PROVE  Packing(Join(p, N + 1 - m), G, M, Of(m))
  <2> DEFINE n == N + 1 - m
             C == {x \in A : MemberOf(bins[n], x)}
  <2>1. n \in 1 .. N
    BY <1>3
  <2>2. bins[n] \in G /\ Contents(bins[n], C)
    BY <1>3, <2>1 DEF Contents, Held, N
  <2>3. \A b : b \in N + 1 - (m - 1) .. N => b \in 1 .. N /\ b # n
    BY <1>3
  <2>4. \A b : b \in N + 1 - m .. N <=> b \in N + 1 - (m - 1) .. N \/ b = n
    BY <1>3
  <2> HIDE DEF n
  <2>5. Of(m) = Of(m - 1) \cup C
    BY <2>4
  <2>6. C \cap Of(m - 1) = {}
    <3> SUFFICES ASSUME NEW x, MemberOf(bins[n], x),
                        NEW b \in N + 1 - (m - 1) .. N, MemberOf(bins[b], x)
                 PROVE  FALSE
      OBVIOUS
    <3>1. b \in 1 .. N /\ b # n
      BY <2>3
    <3>2. PICK i \in 1 .. Len(bins[n]) : bins[n][i] = x
      BY DEF MemberOf
    <3>3. PICK j \in 1 .. Len(bins[b]) : bins[b][j] = x
      BY DEF MemberOf
    <3>4. bins[n][i] # bins[b][j]
      BY <1>3, <2>1, <3>1, Zenon DEF Apart, N
    <3> QED
      BY <3>2, <3>3, <3>4
  <2>7. C \cap (M \cup Of(m - 1)) = {}
    BY <1>1, <2>6
  <2> HIDE DEF C, Of, Join
  <2>8. Packing(PairJoin(p, bins[n], lens, capacity), G, M, Of(m - 1) \cup C)
    BY <1>1, <1>4, <2>2, <2>7, PairTurn
  <2>9. Packing(Join(p, n), G, M, Of(m))
    BY <2>5, <2>8, Zenon DEF Join
  <2> QED
    BY <2>9 DEF n
<1>5. Packing(first, G, M, Of(0))
  <2>1. first.bins = <<>> /\ first.rest = Ascending(M, lens) /\ first \in X
    BY <1>2, EmptySeq
  <2>2. Packs(<<>>, G, {})
    BY PackNothing
  <2>3. InRest(first, G, M, Of(0), {})
    BY <1>2, <2>1, <2>2 DEF InRest
  <2> QED
    BY <2>3 DEF Packing
<1>6. \A m : Of(m) \subseteq A
  OBVIOUS
<1> HIDE DEF G, Join, first, X, Of
<1>a. \A p, m : Packing(p, G, M, Of(m)) => p \in X
  BY DEF Packing, InRest, X
<1>7. ASSUME NEW m \in 1 .. N, NEW v \in W[m - 1]
      PROVE  turn[<<m, v>>] \in W[m] /\ turn[<<m, v>>] = Join(v, N + 1 - m)
  <2>1. m - 1 \in 0 .. N /\ m \in 0 .. N
    BY <1>3
  <2>2. v \in X /\ Packing(v, G, M, Of(m - 1))
    BY <2>1
  <2>3. Packing(Join(v, N + 1 - m), G, M, Of(m))
    BY <1>4, <2>2
  <2>4. turn[<<m, v>>] = Join(v, N + 1 - m)
    BY <2>2
  <2>5. Join(v, N + 1 - m) \in W[m]
    BY <1>a, <2>1, <2>3
  <2> HIDE DEF turn, W
  <2> QED
    BY <2>4, <2>5
<1>8. first \in W[0]
  <2>1. 0 \in 0 .. N
    BY <1>3
  <2> QED
    BY <1>a, <1>5, <2>1
<1> HIDE DEF W, turn
<1>9. PICK g : Runs(N, g, first, turn, W)
  <2>1. \A n \in 1 .. N : \A v \in W[n - 1] : turn[<<n, v>>] \in W[n]
    BY <1>7
  <2> QED
    BY <1>3, <1>8, <2>1, Iterates
<1>10. g[0] = first /\ \A m \in 1 .. N : g[m] = Join(g[m - 1], N + 1 - m)
  <2>1. g = [n \in 0 .. N |-> IF n = 0 THEN first ELSE turn[<<n, g[n - 1]>>]]
    BY <1>9 DEF Runs
  <2>2. ASSUME NEW m \in 1 .. N PROVE g[m] = Join(g[m - 1], N + 1 - m)
    <3>1. m \in 0 .. N /\ m # 0 /\ m - 1 \in 0 .. N
      BY <1>3
    <3>2. g[m - 1] \in W[m - 1]
      BY <1>9, <3>1 DEF Runs
    <3>3. turn[<<m, g[m - 1]>>] = Join(g[m - 1], N + 1 - m)
      BY <1>7, <3>2
    <3>4. g[m] = turn[<<m, g[m - 1]>>]
      BY <2>1, <3>1
    <3> QED
      BY <3>3, <3>4
  <2>3. 0 \in 0 .. N
    BY <1>3
  <2> QED
    BY <2>1, <2>2, <2>3
<1> DEFINE h == [n \in 1 .. (N + 1) |-> g[N + 1 - n]]
<1>11. h = [n \in 1 .. (N + 1) |-> IF n > N THEN first ELSE Join(h[n + 1], n)]
  <2>1. ASSUME NEW n \in 1 .. (N + 1)
        PROVE  h[n] = IF n > N THEN first ELSE Join(h[n + 1], n)
    <3>1. CASE n > N
      <4>1. N + 1 - n = 0
        BY <1>3, <3>1
      <4>2. h[n] = g[0]
        BY <4>1
      <4> QED
        BY <1>10, <3>1, <4>2
    <3>2. CASE ~(n > N)
      <4>1. n + 1 \in 1 .. (N + 1) /\ N + 1 - n \in 1 .. N
            /\ N + 1 - (N + 1 - n) = n /\ N + 1 - (n + 1) = (N + 1 - n) - 1
        BY <1>3, <3>2
      <4>2. h[n] = g[N + 1 - n] /\ h[n + 1] = g[N + 1 - (n + 1)]
        BY <4>1
      <4>3. g[N + 1 - n] = Join(g[(N + 1 - n) - 1], N + 1 - (N + 1 - n))
        BY <1>10, <4>1
      <4>4. g[N + 1 - n] = Join(h[n + 1], n)
        BY <4>1, <4>2, <4>3, Zenon
      <4>5. h[n] = Join(h[n + 1], n)
        BY <4>2, <4>4, Zenon
      <4> QED
        BY <3>2, <4>5
    <3> QED
      BY <3>1, <3>2
  <2>2. h = [n \in 1 .. (N + 1) |-> h[n]]
    OBVIOUS
  <2> HIDE DEF h
  <2> QED
    BY <2>1, <2>2
<1> HIDE DEF h
<1> DEFINE f == PairsVisited(bins, lens, capacity)
<1>12. f = [n \in 1 .. (N + 1) |-> IF n > N THEN first ELSE Join(f[n + 1], n)]
  BY <1>11, Zenon DEF PairsVisited, N, Join, first, M
<1>13. AddSmallPairs(bins, lens, capacity) = f[1].bins
  BY Zenon DEF AddSmallPairs, PairsVisited, PairJoin
<1> HIDE DEF f
<1> DEFINE S == {m \in 0 .. N : Packing(f[N + 1 - m], G, M, Of(m))}
<1>14. 0 \in S
  <2>1. N + 1 - 0 \in 1 .. (N + 1) /\ N + 1 - 0 > N /\ 0 \in 0 .. N
    BY <1>3
  <2>2. f[N + 1 - 0] = first
    BY <1>12, <2>1
  <2> QED
    BY <1>5, <2>1, <2>2
<1>15. ASSUME NEW m \in 1 .. N, m - 1 \in S PROVE m \in S
  <2>1. /\ N + 1 - m \in 1 .. (N + 1) /\ ~(N + 1 - m > N) /\ m \in 0 .. N
        /\ (N + 1 - m) + 1 = N + 1 - (m - 1)
    BY <1>3
  <2>2. f[N + 1 - m] = Join(f[(N + 1 - m) + 1], N + 1 - m)
    BY <1>12, <2>1
  <2>3. f[N + 1 - m] = Join(f[N + 1 - (m - 1)], N + 1 - m)
    BY <2>1, <2>2, Zenon
  <2>4. Packing(f[N + 1 - m], G, M, Of(m))
    BY <1>4, <1>15, <2>3
  <2> QED
    BY <2>1, <2>4
<1>16. \A m \in 0 .. N : m \in S
  <2> HIDE DEF S
  <2> QED
    BY <1>3, <1>14, <1>15, UpTo
<1>17. Packing(f[1], G, M, Of(N))
  <2>1. N \in 0 .. N /\ N + 1 - N = 1
    BY <1>3
  <2>2. Packing(f[N + 1 - N], G, M, Of(N))
    BY <1>16, <2>1
  <2> QED
    BY <2>1, <2>2, Zenon
<1>18. PICK I : Packs(f[1].bins, G, I) /\ I \subseteq M \cup Of(N)
  BY <1>17 DEF Packing, InRest
<1>19. Packs(AddSmallPairs(bins, lens, capacity), G, I) /\ I \subseteq DOMAIN lens
  BY <1>1, <1>6, <1>13, <1>18
<1> QED
  BY <1>19 DEF G

TriedItems(bin, items, lens, capacity) ==
    CHOOSE tried : tried = [n \in 0 .. Len(items) |->
        IF n = 0 THEN bin
        ELSE IF Fits(tried[n - 1], items[n], lens, capacity)
             THEN Append(tried[n - 1], items[n])
             ELSE tried[n - 1]]

\* A bin and some of the first n items.
Takes(s, bin, items, n, G) ==
    s \in G /\ \E J \in SUBSET Placed(items, n) :
                  \A x : MemberOf(s, x) <=> MemberOf(bin, x) \/ x \in J

LEMMA FilledTakes ==
  ASSUME NEW lens, NEW capacity, Lengths(lens, capacity),
         NEW bin \in UsedBins(lens, capacity),
         NEW items \in Seq(DOMAIN lens), Once(items),
         \A x : ~(MemberOf(bin, x) /\ MemberOf(items, x))
  PROVE  Takes(Filled(bin, items, lens, capacity), bin, items, Len(items),
               UsedBins(lens, capacity))
<1> DEFINE N == Len(items)
           G == UsedBins(lens, capacity)
           Try(s, n) == IF Fits(s, items[n], lens, capacity) THEN Append(s, items[n]) ELSE s
           W == [n \in 0 .. N |-> {s \in G : Takes(s, bin, items, n, G)}]
           turn == [p \in (1 .. N) \X G |-> Try(p[2], p[1])]
<1>1. N \in Nat /\ \A n \in 1 .. N : items[n] \in DOMAIN lens
  BY ElementOfSeq, LenProperties
<1>2. ASSUME NEW n \in 1 .. N, NEW s, Takes(s, bin, items, n - 1, G)
      PROVE  Takes(Try(s, n), bin, items, n, G)
  <2>1. PICK J \in SUBSET Placed(items, n - 1) :
            \A x : MemberOf(s, x) <=> MemberOf(bin, x) \/ x \in J
    BY <1>2 DEF Takes
  <2>2. Placed(items, n) = Placed(items, n - 1) \cup {items[n]}
    <3>1. \A k : k \in 1 .. n <=> k \in 1 .. n - 1 \/ k = n
      BY <1>1
    <3> QED
      BY <3>1 DEF Placed
  <2>3. CASE Fits(s, items[n], lens, capacity)
    <3>1. items[n] \notin Placed(items, n - 1)
      <4>1. \A k \in 1 .. n - 1 : k \in 1 .. N /\ k # n
        BY <1>1
      <4> QED
        BY <4>1 DEF Once, Placed
    <3>2. ~MemberOf(bin, items[n])
      BY DEF MemberOf
    <3>3. ~MemberOf(s, items[n]) /\ s \in Bins(lens, capacity)
      BY <1>2, <2>1, <3>1, <3>2 DEF Takes, UsedBins
    <3>4. /\ Append(s, items[n]) \in G
          /\ \A x : MemberOf(Append(s, items[n]), x) <=> MemberOf(s, x) \/ x \in {items[n]}
      BY <1>1, <2>3, <3>3, BinGrows
    <3>5. J \cup {items[n]} \in SUBSET Placed(items, n)
      BY <2>2
    <3>6. \A x : MemberOf(Append(s, items[n]), x)
                    <=> MemberOf(bin, x) \/ x \in J \cup {items[n]}
      BY <2>1, <3>4
    <3>7. Takes(Append(s, items[n]), bin, items, n, G)
      BY <3>4, <3>5, <3>6 DEF Takes
    <3> QED
      BY <2>3, <3>7
  <2>4. CASE ~Fits(s, items[n], lens, capacity)
    <3>1. J \in SUBSET Placed(items, n)
      BY <2>2
    <3>2. Takes(s, bin, items, n, G)
      BY <1>2, <2>1, <3>1 DEF Takes
    <3> QED
      BY <2>4, <3>2
  <2> QED
    BY <2>3, <2>4
<1>3. Takes(bin, bin, items, 0, G)
  BY SMTT(30) DEF Takes
<1> HIDE DEF N, G, Try
<1>4. ASSUME NEW n \in 1 .. N, NEW v \in W[n - 1]
      PROVE  turn[<<n, v>>] \in W[n] /\ turn[<<n, v>>] = Try(v, n)
  <2>1. n - 1 \in 0 .. N /\ n \in 0 .. N
    BY <1>1
  <2>2. v \in G /\ Takes(v, bin, items, n - 1, G)
    BY <2>1
  <2>3. Takes(Try(v, n), bin, items, n, G)
    BY <1>2, <2>2
  <2>4. turn[<<n, v>>] = Try(v, n)
    BY <2>2
  <2>5. Try(v, n) \in W[n]
    BY <2>1, <2>3 DEF Takes
  <2> HIDE DEF turn, W
  <2> QED
    BY <2>4, <2>5
<1>5. bin \in W[0]
  <2>1. 0 \in 0 .. N
    BY <1>1
  <2> QED
    BY <1>3, <2>1 DEF Takes
<1> HIDE DEF W, turn
<1>6. PICK g : Runs(N, g, bin, turn, W)
  <2>1. \A n \in 1 .. N : \A v \in W[n - 1] : turn[<<n, v>>] \in W[n]
    BY <1>4
  <2> QED
    BY <1>1, <1>5, <2>1, Iterates
<1>7. g = [n \in 0 .. N |-> IF n = 0 THEN bin ELSE Try(g[n - 1], n)]
  <2>1. ASSUME NEW n \in 0 .. N, n # 0 PROVE turn[<<n, g[n - 1]>>] = Try(g[n - 1], n)
    <3>1. n \in 1 .. N /\ n - 1 \in 0 .. N
      BY <1>1, <2>1
    <3>2. g[n - 1] \in W[n - 1]
      BY <1>6, <3>1 DEF Runs
    <3> QED
      BY <1>4, <3>1, <3>2
  <2>2. g = [n \in 0 .. N |-> IF n = 0 THEN bin ELSE turn[<<n, g[n - 1]>>]]
    BY <1>6 DEF Runs
  <2> QED
    BY <2>1, <2>2
<1> DEFINE f == TriedItems(bin, items, lens, capacity)
<1>8. f = [n \in 0 .. N |-> IF n = 0 THEN bin ELSE Try(f[n - 1], n)]
  BY <1>7 DEF TriedItems, N, Try
<1>9. Filled(bin, items, lens, capacity) = f[N]
  BY Zenon DEF Filled, TriedItems, N
<1> HIDE DEF f
<1> DEFINE S == {n \in 0 .. N : Takes(f[n], bin, items, n, G)}
<1>10. 0 \in S
  <2>1. f[0] = bin /\ 0 \in 0 .. N
    BY <1>1, <1>8
  <2> QED
    BY <1>3, <2>1
<1>11. ASSUME NEW n \in 1 .. N, n - 1 \in S PROVE n \in S
  <2>1. n \in 0 .. N /\ n # 0
    BY <1>1
  <2>2. f[n] = Try(f[n - 1], n)
    BY <1>8, <2>1
  <2>3. Takes(f[n], bin, items, n, G)
    BY <1>2, <1>11, <2>2
  <2> QED
    BY <2>1, <2>3
<1>12. \A n \in 0 .. N : n \in S
  <2> HIDE DEF S
  <2> QED
    BY <1>1, <1>10, <1>11, UpTo
<1>13. Takes(f[N], bin, items, N, G)
  BY <1>1, <1>12
<1> QED
  BY <1>9, <1>13 DEF G, N

\* Bins that hold some of "all", and a rest that is all the others.
Leaves(p, G, D, I, all) ==
    /\ p \in [bins : Seq(G), rest : Seq(D)]
    /\ Once(p.rest)
    /\ Packs(p.bins, G, I) /\ I \subseteq all
    /\ Contents(p.rest, all \ I)

Filling(p, G, D, all) == \E I : Leaves(p, G, D, I, all)

FillOne(packing, bin, lens, capacity) ==
    LET filled == Filled(bin, packing.rest, lens, capacity)
    IN  [bins |-> Append(packing.bins, filled),
         rest |-> Without(packing.rest, filled)]

LEMMA FillTurn ==
  ASSUME NEW lens, NEW capacity, Lengths(lens, capacity), NEW all, NEW p,
         Filling(p, UsedBins(lens, capacity), DOMAIN lens, all),
         NEW bin \in UsedBins(lens, capacity), NEW C, Contents(bin, C), C \cap all = {}
  PROVE  Filling(FillOne(p, bin, lens, capacity), UsedBins(lens, capacity), DOMAIN lens,
                 all \cup C)
<1> DEFINE G == UsedBins(lens, capacity)
           D == DOMAIN lens
           rest == p.rest
           filled == Filled(bin, rest, lens, capacity)
           r == Append(p.bins, filled)
           s == Without(rest, filled)
<1>1. PICK I : Leaves(p, G, D, I, all)
  BY DEF Filling
<1>2. /\ p.bins \in Seq(G) /\ rest \in Seq(D) /\ Once(rest) /\ Packs(p.bins, G, I)
      /\ I \subseteq all /\ \A x : MemberOf(rest, x) <=> x \in all \ I
  BY <1>1 DEF Leaves, Contents
<1>3. \A x : ~(MemberOf(bin, x) /\ MemberOf(rest, x))
  BY <1>2 DEF Contents
<1>4. Takes(filled, bin, rest, Len(rest), G)
  BY <1>2, <1>3, FilledTakes
<1> HIDE DEF filled
<1>5. PICK J \in SUBSET Placed(rest, Len(rest)) :
          \A x : MemberOf(filled, x) <=> MemberOf(bin, x) \/ x \in J
  BY <1>4 DEF Takes
<1>6. \A x \in J : MemberOf(rest, x)
  BY DEF Placed, MemberOf
<1>7. filled \in G /\ Contents(filled, C \cup J) /\ I \cap (C \cup J) = {}
  BY <1>2, <1>4, <1>5, <1>6 DEF Takes, Contents
<1> HIDE DEF G
<1>8. Packs(r, G, I \cup (C \cup J))
  BY <1>2, <1>7, PackMore
<1>9. /\ s \in Seq(D) /\ Once(s)
      /\ \A x : MemberOf(s, x) <=> MemberOf(rest, x) /\ ~MemberOf(filled, x)
  <2> DEFINE places == {n \in DOMAIN rest : rest[n] \notin ToSet(filled)}
  <2>1. s = Kept(rest, places)
    BY DEF Without
  <2>2. /\ Kept(rest, places) \in Seq(D) /\ Once(Kept(rest, places))
        /\ \A x : MemberOf(Kept(rest, places), x)
                     <=> \E n \in 1 .. Len(rest) : n \in places /\ rest[n] = x
    BY <1>2, KeptMembers
  <2>3. DOMAIN rest = 1 .. Len(rest)
    BY <1>2, LenProperties
  <2>4. \A x : x \in ToSet(filled) <=> MemberOf(filled, x)
    <3>1. filled \in Seq(D)
      BY <1>7 DEF G, UsedBins, Bins
    <3>2. DOMAIN filled = 1 .. Len(filled)
      BY <3>1, LenProperties
    <3> QED
      BY <3>2 DEF ToSet, MemberOf
  <2>5. ASSUME NEW x
        PROVE  (\E n \in 1 .. Len(rest) : n \in places /\ rest[n] = x)
                   <=> MemberOf(rest, x) /\ ~MemberOf(filled, x)
    BY <2>3, <2>4 DEF MemberOf
  <2> HIDE DEF places, s
  <2> QED
    BY <2>1, <2>2, <2>5
<1>10. r \in Seq(G)
  BY <1>8 DEF Packs
<1> HIDE DEF r, s
<1> DEFINE q == [bins |-> r, rest |-> s]
<1>11. Leaves(q, G, D, I \cup (C \cup J), all \cup C)
  <2>1. q.bins = r /\ q.rest = s /\ q \in [bins : Seq(G), rest : Seq(D)]
    BY <1>9, <1>10
  <2>2. I \cup (C \cup J) \subseteq all \cup C
    BY <1>2, <1>6
  <2>3. \A x : MemberOf(s, x) <=> x \in (all \cup C) \ (I \cup (C \cup J))
    BY <1>2, <1>7, <1>9 DEF Contents
  <2> QED
    BY <1>8, <1>9, <2>1, <2>2, <2>3 DEF Leaves, Contents
<1>12. FillOne(p, bin, lens, capacity) = q
  BY DEF FillOne, r, s, filled
<1> QED
  BY <1>11, <1>12 DEF Filling, G

GreedyVisited(bins, items, lens, capacity) ==
    CHOOSE visited : visited = [n \in 0 .. Len(bins) |->
        IF n = 0 THEN [bins |-> <<>>, rest |-> Descending(items, lens)]
        ELSE FillOne(visited[n - 1], bins[n], lens, capacity)]

LEMMA FillGreedilyLeaves ==
  ASSUME NEW lens, NEW capacity, Lengths(lens, capacity), NEW bins, NEW A,
         Packs(bins, UsedBins(lens, capacity), A),
         NEW items \in SUBSET DOMAIN lens, items \cap A = {}
  PROVE  Filling(FillGreedily(bins, items, lens, capacity), UsedBins(lens, capacity),
                 DOMAIN lens, items \cup A)
<1> DEFINE G == UsedBins(lens, capacity)
           D == DOMAIN lens
           first == [bins |-> <<>>, rest |-> Descending(items, lens)]
           N == Len(bins)
           Of(n) == {x \in A : \E b \in 1 .. n : MemberOf(bins[b], x)}
           Fill(p, n) == FillOne(p, bins[n], lens, capacity)
           X == [bins : Seq(G), rest : Seq(D)]
           W == [n \in 0 .. N |-> {p \in X : Filling(p, G, D, items \cup Of(n))}]
           turn == [p \in (1 .. N) \X X |-> Fill(p[2], p[1])]
<1>1. /\ N \in Nat /\ Apart(bins) /\ (\A x : Held(bins, x) <=> x \in A)
      /\ \A n \in 1 .. N : bins[n] \in G
  BY ElementOfSeq, LenProperties DEF Packs
<1>2. /\ Descending(items, lens) \in Seq(items) /\ Once(Descending(items, lens))
      /\ Contents(Descending(items, lens), items)
  <2>1. items \in SUBSET Nat /\ IsFiniteSet(items) /\ Weighs(lens, items)
    BY LengthsWeigh
  <2>2. InSortedOrder(Descending(items, lens), Longer(items, lens), items)
    BY <2>1, DescendingIs
  <2> QED
    BY <2>2, SortedOnce
<1> HIDE DEF N
<1>3. ASSUME NEW n \in 1 .. N, NEW p, Filling(p, G, D, items \cup Of(n - 1))
      PROVE  Filling(Fill(p, n), G, D, items \cup Of(n))
  <2> DEFINE C == {x \in A : MemberOf(bins[n], x)}
  <2>1. bins[n] \in G /\ Contents(bins[n], C)
    BY <1>1 DEF Contents, Held, N
  <2>2. \A b : b \in 1 .. n - 1 => b \in 1 .. N /\ b # n
    BY <1>1
  <2>3. \A b : b \in 1 .. n <=> b \in 1 .. n - 1 \/ b = n
    BY <1>1
  <2>4. Of(n) = Of(n - 1) \cup C
    BY <2>3
  <2>5. C \cap Of(n - 1) = {}
    <3> SUFFICES ASSUME NEW x, MemberOf(bins[n], x),
                        NEW b \in 1 .. n - 1, MemberOf(bins[b], x)
                 PROVE  FALSE
      OBVIOUS
    <3>1. b \in 1 .. N /\ b # n
      BY <2>2
    <3>2. PICK i \in 1 .. Len(bins[n]) : bins[n][i] = x
      BY DEF MemberOf
    <3>3. PICK j \in 1 .. Len(bins[b]) : bins[b][j] = x
      BY DEF MemberOf
    <3>4. bins[n][i] # bins[b][j]
      BY <1>1, <3>1, Zenon DEF Apart, N
    <3> QED
      BY <3>2, <3>3, <3>4
  <2>6. C \cap (items \cup Of(n - 1)) = {}
    BY <2>5
  <2> HIDE DEF C, Of, Fill
  <2>7. Filling(FillOne(p, bins[n], lens, capacity), G, D, (items \cup Of(n - 1)) \cup C)
    BY <1>3, <2>1, <2>6, FillTurn
  <2>8. (items \cup Of(n - 1)) \cup C = items \cup Of(n)
    BY <2>4
  <2> QED
    BY <2>7, <2>8, Zenon DEF Fill
<1>4. Filling(first, G, D, items \cup Of(0))
  <2>1. first.bins = <<>> /\ first.rest = Descending(items, lens) /\ first \in X
    <3>1. Descending(items, lens) \in Seq(D)
      BY <1>2, SeqMonotonic
    <3> QED
      BY <3>1, EmptySeq
  <2>2. Packs(<<>>, G, {})
    BY PackNothing
  <2>3. items \cup Of(0) = items
    OBVIOUS
  <2>4. Leaves(first, G, D, {}, items \cup Of(0))
    BY <1>2, <2>1, <2>2, <2>3 DEF Leaves
  <2> QED
    BY <2>4 DEF Filling
<1>5. Of(N) = A
  BY <1>1 DEF Held, N
<1> HIDE DEF G, D, Fill, first, X, Of
<1>a. \A p, n : Filling(p, G, D, items \cup Of(n)) => p \in X
  BY DEF Filling, Leaves, X
<1>6. ASSUME NEW n \in 1 .. N, NEW v \in W[n - 1]
      PROVE  turn[<<n, v>>] \in W[n] /\ turn[<<n, v>>] = Fill(v, n)
  <2>1. n - 1 \in 0 .. N /\ n \in 0 .. N
    BY <1>1
  <2>2. v \in X /\ Filling(v, G, D, items \cup Of(n - 1))
    BY <2>1
  <2>3. Filling(Fill(v, n), G, D, items \cup Of(n))
    BY <1>3, <2>2
  <2>4. turn[<<n, v>>] = Fill(v, n)
    BY <2>2
  <2>5. Fill(v, n) \in W[n]
    BY <1>a, <2>1, <2>3
  <2> HIDE DEF turn, W
  <2> QED
    BY <2>4, <2>5
<1>7. first \in W[0]
  <2>1. 0 \in 0 .. N
    BY <1>1
  <2> QED
    BY <1>a, <1>4, <2>1
<1> HIDE DEF W, turn
<1>8. PICK g : Runs(N, g, first, turn, W)
  <2>1. \A n \in 1 .. N : \A v \in W[n - 1] : turn[<<n, v>>] \in W[n]
    BY <1>6
  <2> QED
    BY <1>1, <1>7, <2>1, Iterates
<1>9. g = [n \in 0 .. N |-> IF n = 0 THEN first ELSE Fill(g[n - 1], n)]
  <2>1. ASSUME NEW n \in 0 .. N, n # 0 PROVE turn[<<n, g[n - 1]>>] = Fill(g[n - 1], n)
    <3>1. n \in 1 .. N /\ n - 1 \in 0 .. N
      BY <1>1, <2>1
    <3>2. g[n - 1] \in W[n - 1]
      BY <1>8, <3>1 DEF Runs
    <3> QED
      BY <1>6, <3>1, <3>2
  <2>2. g = [n \in 0 .. N |-> IF n = 0 THEN first ELSE turn[<<n, g[n - 1]>>]]
    BY <1>8 DEF Runs
  <2> QED
    BY <2>1, <2>2
<1> DEFINE f == GreedyVisited(bins, items, lens, capacity)
<1>10. f = [n \in 0 .. N |-> IF n = 0 THEN first ELSE Fill(f[n - 1], n)]
  BY <1>9, Zenon DEF GreedyVisited, N, Fill, first
<1>11. FillGreedily(bins, items, lens, capacity) = f[N]
  BY Zenon DEF FillGreedily, GreedyVisited, FillOne, N
<1> HIDE DEF f
<1> DEFINE S == {n \in 0 .. N : Filling(f[n], G, D, items \cup Of(n))}
<1>12. 0 \in S
  <2>1. f[0] = first /\ 0 \in 0 .. N
    BY <1>1, <1>10
  <2> QED
    BY <1>4, <2>1
<1>13. ASSUME NEW n \in 1 .. N, n - 1 \in S PROVE n \in S
  <2>1. n \in 0 .. N /\ n # 0
    BY <1>1
  <2>2. f[n] = Fill(f[n - 1], n)
    BY <1>10, <2>1
  <2>3. Filling(f[n], G, D, items \cup Of(n))
    BY <1>3, <1>13, <2>2
  <2> QED
    BY <2>1, <2>3
<1>14. \A n \in 0 .. N : n \in S
  <2> HIDE DEF S
  <2> QED
    BY <1>1, <1>12, <1>13, UpTo
<1>15. Filling(f[N], G, D, items \cup Of(N))
  BY <1>1, <1>14
<1> QED
  BY <1>5, <1>11, <1>15, Zenon DEF G, D

LEMMA PackInsert ==
  ASSUME NEW G, NEW bins, NEW I, Packs(bins, G, I), NEW bin \in G, NEW J,
         Contents(bin, J), I \cap J = {}, NEW k \in 1 .. Len(bins) + 1
  PROVE  Packs(InsertAt(bins, k, bin), G, I \cup J) /\ InsertAt(bins, k, bin) # <<>>
<1> DEFINE N == Len(bins)
           P == {x \in I : \E c \in 1 .. k - 1 : MemberOf(bins[c], x)}
           Q == {x \in I : \E c \in k .. N : MemberOf(bins[c], x)}
           r == SubSeq(bins, 1, k - 1)
           s == SubSeq(bins, k, N)
<1>1. N \in Nat /\ Apart(bins) /\ \A x : Held(bins, x) <=> x \in I
  BY LenProperties DEF Packs
<1>2. Packs(r, G, P)
  <2>1. 1 \in Nat /\ k - 1 \in Nat /\ 1 <= 1 /\ k - 1 <= Len(bins)
    BY <1>1
  <2> QED
    BY <2>1, PackPart
<1>3. Packs(s, G, Q)
  <2>1. k \in Nat /\ N \in Nat /\ 1 <= k /\ N <= Len(bins)
    BY <1>1
  <2> QED
    BY <2>1, PackPart
<1>4. Packs(<<bin>>, G, J)
  BY PackOne
<1> HIDE DEF r, s, N
<1>5. P \cup Q = I
  <2>1. \A c \in 1 .. N : c \in 1 .. k - 1 \/ c \in k .. N
    BY <1>1
  <2> QED
    BY <1>1, <2>1 DEF Held, N
<1>6. P \cap Q = {}
  <2> SUFFICES ASSUME NEW x, NEW c \in 1 .. k - 1, MemberOf(bins[c], x),
                      NEW d \in k .. N, MemberOf(bins[d], x)
               PROVE  FALSE
    OBVIOUS
  <2>1. c \in 1 .. N /\ d \in 1 .. N /\ c # d
    BY <1>1 DEF N
  <2>2. PICK i \in 1 .. Len(bins[c]) : bins[c][i] = x
    BY DEF MemberOf
  <2>3. PICK j \in 1 .. Len(bins[d]) : bins[d][j] = x
    BY DEF MemberOf
  <2>4. bins[c][i] # bins[d][j]
    BY <1>1, <2>1, Zenon DEF Apart, N
  <2> QED
    BY <2>2, <2>3, <2>4
<1> HIDE DEF P, Q
<1>7. P \cap J = {} /\ (P \cup J) \cap Q = {} /\ (P \cup J) \cup Q = I \cup J
  BY <1>5, <1>6
<1>8. Packs(r \o <<bin>>, G, P \cup J)
  BY <1>2, <1>4, <1>7, PackJoin
<1>9. Packs((r \o <<bin>>) \o s, G, (P \cup J) \cup Q)
  BY <1>3, <1>7, <1>8, PackJoin
<1>10. InsertAt(bins, k, bin) = (r \o <<bin>>) \o s
  BY Zenon DEF InsertAt, r, s, N
<1>11. (r \o <<bin>>) \o s # <<>>
  <2>1. r \in Seq(G) /\ <<bin>> \in Seq(G) /\ Len(<<bin>>) = 1 /\ s \in Seq(G)
    BY <1>2, <1>3 DEF Packs
  <2>2. r \o <<bin>> \in Seq(G) /\ Len(r \o <<bin>>) = Len(r) + 1
    BY <2>1, ConcatProperties
  <2>3. Len((r \o <<bin>>) \o s) = Len(r) + 1 + Len(s)
    BY <2>1, <2>2, ConcatProperties
  <2>4. Len(r) \in Nat /\ Len(s) \in Nat
    BY <2>1, LenProperties
  <2>5. Len((r \o <<bin>>) \o s) # 0
    BY <2>3, <2>4
  <2> QED
    BY <2>5, EmptySeq
<1> QED
  BY <1>7, <1>9, <1>10, <1>11, Zenon

InsertByLoad(bins, bin, lens) ==
    LET lighter == {b \in DOMAIN bins : Load(bins[b], lens) <= Load(bin, lens)}
    IN  InsertAt(bins, Cardinality(lighter) + 1, bin)

LeftoverPlace(bins, i, lens, capacity) ==
    IF Fits(bins[1], i, lens, capacity)
    THEN InsertByLoad(Tail(bins), Append(bins[1], i), lens)
    ELSE InsertByLoad(bins, <<i>>, lens)

LEMMA PackByLoad ==
  ASSUME NEW G, NEW bins, NEW I, Packs(bins, G, I), NEW bin \in G, NEW J,
         Contents(bin, J), I \cap J = {}, NEW lens
  PROVE  Packs(InsertByLoad(bins, bin, lens), G, I \cup J)
         /\ InsertByLoad(bins, bin, lens) # <<>>
<1> DEFINE lighter == {b \in DOMAIN bins : Load(bins[b], lens) <= Load(bin, lens)}
           k == Cardinality(lighter) + 1
<1>1. Len(bins) \in Nat /\ DOMAIN bins = 1 .. Len(bins)
  BY LenProperties DEF Packs
<1>2. /\ IsFiniteSet(1 .. Len(bins)) /\ Cardinality(1 .. Len(bins)) = Len(bins)
  <2>1. /\ IsFiniteSet(1 .. Len(bins))
        /\ Cardinality(1 .. Len(bins)) = IF 1 > Len(bins) THEN 0 ELSE Len(bins) - 1 + 1
    BY <1>1, FS_Interval
  <2> QED
    BY <1>1, <2>1
<1>3. lighter \subseteq 1 .. Len(bins)
  BY <1>1
<1>4. k \in 1 .. Len(bins) + 1
  <2> HIDE DEF lighter
  <2>1. IsFiniteSet(lighter) /\ Cardinality(lighter) <= Len(bins)
    BY <1>2, <1>3, FS_Subset
  <2>2. Cardinality(lighter) \in Nat
    BY <2>1, FS_CardinalityType
  <2> QED
    BY <1>1, <2>1, <2>2
<1>5. InsertByLoad(bins, bin, lens) = InsertAt(bins, k, bin)
  BY DEF InsertByLoad
<1> HIDE DEF k
<1>6. Packs(InsertAt(bins, k, bin), G, I \cup J) /\ InsertAt(bins, k, bin) # <<>>
  BY <1>4, PackInsert
<1> QED
  BY <1>5, <1>6, Zenon

LEMMA LeftoverTurn ==
  ASSUME NEW lens, NEW capacity, Lengths(lens, capacity),
         NEW bins, NEW I, Packs(bins, Bins(lens, capacity), I), bins # <<>>,
         NEW i \in DOMAIN lens, i \notin I
  PROVE  /\ Packs(LeftoverPlace(bins, i, lens, capacity), Bins(lens, capacity), I \cup {i})
         /\ LeftoverPlace(bins, i, lens, capacity) # <<>>
<1> DEFINE G == Bins(lens, capacity)
<1>1. CASE ~Fits(bins[1], i, lens, capacity)
  <2>1. <<i>> \in G /\ Contents(<<i>>, {i}) /\ I \cap {i} = {}
    BY BinStarts DEF UsedBins
  <2>2. Packs(InsertByLoad(bins, <<i>>, lens), G, I \cup {i})
        /\ InsertByLoad(bins, <<i>>, lens) # <<>>
    BY <2>1, PackByLoad
  <2> QED
    BY <1>1, <2>2 DEF LeftoverPlace
<1>2. CASE Fits(bins[1], i, lens, capacity)
  <2> DEFINE N == Len(bins)
             C == {x \in I : MemberOf(bins[1], x)}
             Q == {x \in I : \E c \in 2 .. N : MemberOf(bins[c], x)}
             t == Append(bins[1], i)
  <2>1. bins \in Seq(G) /\ N \in Nat /\ N # 0 /\ Apart(bins) /\ \A x : Held(bins, x) <=> x \in I
    BY LenProperties, EmptySeq DEF Packs
  <2>2. 1 \in 1 .. N /\ bins[1] \in G
    BY <2>1, ElementOfSeq
  <2>3. Packs(Tail(bins), G, Q)
    <3>1. Tail(bins) = SubSeq(bins, 2, N)
      BY <2>1, TailIsSubSeq
    <3>2. 2 \in Nat /\ N \in Nat /\ 1 <= 2 /\ N <= Len(bins) /\ Packs(bins, G, I)
      BY <2>1
    <3>3. Packs(SubSeq(bins, 2, N), G, Q)
      <4> HIDE DEF G
      <4> QED
        BY <3>2, PackPart
    <3> QED
      BY <3>1, <3>3, Zenon
  <2>4. Contents(bins[1], C)
    BY <2>1, <2>2 DEF Contents, Held
  <2>5. ~MemberOf(bins[1], i)
    BY <2>4 DEF Contents
  <2>6. t \in G /\ \A x : MemberOf(t, x) <=> MemberOf(bins[1], x) \/ x \in {i}
    BY <1>2, <2>2, <2>5, BinGrows DEF UsedBins
  <2> HIDE DEF t
  <2>7. Contents(t, C \cup {i})
    BY <2>4, <2>6 DEF Contents
  <2>8. C \cap Q = {}
    <3> SUFFICES ASSUME NEW x, MemberOf(bins[1], x), NEW d \in 2 .. N, MemberOf(bins[d], x)
                 PROVE  FALSE
      OBVIOUS
    <3>1. d \in 1 .. N /\ 1 # d
      BY <2>1
    <3>2. PICK k \in 1 .. Len(bins[1]) : bins[1][k] = x
      BY DEF MemberOf
    <3>3. PICK j \in 1 .. Len(bins[d]) : bins[d][j] = x
      BY DEF MemberOf
    <3>4. bins[1][k] # bins[d][j]
      BY <2>1, <2>2, <3>1, Zenon DEF Apart
    <3> QED
      BY <3>2, <3>3, <3>4
  <2>9. C \cup Q = I
    <3>1. \A c \in 1 .. N : c = 1 \/ c \in 2 .. N
      BY <2>1
    <3> QED
      BY <2>1, <3>1 DEF Held
  <2>10. Q \cap (C \cup {i}) = {} /\ Q \cup (C \cup {i}) = I \cup {i}
    BY <2>8, <2>9
  <2> HIDE DEF C, Q, G
  <2>11. Packs(InsertByLoad(Tail(bins), t, lens), G, Q \cup (C \cup {i}))
         /\ InsertByLoad(Tail(bins), t, lens) # <<>>
    BY <2>3, <2>6, <2>7, <2>10, PackByLoad
  <2>12. LeftoverPlace(bins, i, lens, capacity) = InsertByLoad(Tail(bins), t, lens)
    BY <1>2 DEF LeftoverPlace, t
  <2> QED
    BY <2>10, <2>11, <2>12, Zenon DEF G
<1> QED
  BY <1>1, <1>2

LeftoversPacked(items, lens, capacity) ==
    CHOOSE packed : packed = [n \in 0 .. Len(items) |->
        IF n = 0 THEN << <<>> >> ELSE LeftoverPlace(packed[n - 1], items[n], lens, capacity)]

LEMMA PackLeftoversPacks ==
  ASSUME NEW lens, NEW capacity, Lengths(lens, capacity),
         NEW items \in Seq(DOMAIN lens), Once(items)
  PROVE  Packs(PackLeftovers(items, lens, capacity), Bins(lens, capacity),
               Placed(items, Len(items)))
<1> DEFINE N == Len(items)
           G == Bins(lens, capacity)
           Place(bins, i) == LeftoverPlace(bins, i, lens, capacity)
           Good(bins, n) == Packs(bins, G, Placed(items, n)) /\ bins # <<>>
           W == [n \in 0 .. N |-> {bins \in Seq(G) : Good(bins, n)}]
           turn == [p \in (1 .. N) \X Seq(G) |-> Place(p[2], items[p[1]])]
<1>1. N \in Nat /\ \A n \in 1 .. N : items[n] \in DOMAIN lens
  BY ElementOfSeq, LenProperties
<1>2. ASSUME NEW n \in 1 .. N, NEW v, Good(v, n - 1)
      PROVE  Good(Place(v, items[n]), n)
  <2>1. \A k \in 1 .. n - 1 : k \in 1 .. N /\ k # n
    BY <1>1
  <2>2. items[n] \notin Placed(items, n - 1)
    BY <2>1 DEF Once, Placed
  <2>3. Placed(items, n) = Placed(items, n - 1) \cup {items[n]}
    <3>1. \A k : k \in 1 .. n <=> k \in 1 .. n - 1 \/ k = n
      BY <1>1
    <3> QED
      BY <3>1 DEF Placed
  <2>4. /\ Packs(Place(v, items[n]), G, Placed(items, n - 1) \cup {items[n]})
        /\ Place(v, items[n]) # <<>>
    BY <1>1, <1>2, <2>2, LeftoverTurn
  <2> QED
    BY <2>3, <2>4, Zenon
<1>3. Good(<< <<>> >>, 0)
  <2>1. Placed(items, 0) = {}
    BY DEF Placed
  <2>2. <<>> \in G /\ Contents(<<>>, {})
    BY BinStarts
  <2> HIDE DEF G
  <2>3. Packs(<< <<>> >>, G, {})
    BY <2>2, PackOne
  <2>4. << <<>> >> # <<>>
    OBVIOUS
  <2> QED
    BY <2>1, <2>3, <2>4, Zenon
<1>a. \A v, n : Good(v, n) => v \in Seq(G)
  BY DEF Packs
<1> HIDE DEF N, G, Place, Good
<1>4. ASSUME NEW n \in 1 .. N, NEW v \in W[n - 1]
      PROVE  turn[<<n, v>>] \in W[n] /\ turn[<<n, v>>] = Place(v, items[n])
  <2>1. n - 1 \in 0 .. N /\ n \in 0 .. N
    BY <1>1
  <2>2. v \in Seq(G) /\ Good(v, n - 1)
    BY <2>1
  <2>3. Good(Place(v, items[n]), n)
    BY <1>2, <2>2
  <2>4. turn[<<n, v>>] = Place(v, items[n])
    BY <2>2
  <2>5. Place(v, items[n]) \in W[n]
    BY <1>a, <2>1, <2>3
  <2> HIDE DEF turn, W
  <2> QED
    BY <2>4, <2>5
<1>5. << <<>> >> \in W[0]
  <2>1. 0 \in 0 .. N
    BY <1>1
  <2> QED
    BY <1>a, <1>3, <2>1
<1> HIDE DEF W, turn
<1>6. PICK g : Runs(N, g, << <<>> >>, turn, W)
  <2>1. \A n \in 1 .. N : \A v \in W[n - 1] : turn[<<n, v>>] \in W[n]
    BY <1>4
  <2> QED
    BY <1>1, <1>5, <2>1, Iterates
<1>7. g = [n \in 0 .. N |-> IF n = 0 THEN << <<>> >> ELSE Place(g[n - 1], items[n])]
  <2>1. ASSUME NEW n \in 0 .. N, n # 0
        PROVE  turn[<<n, g[n - 1]>>] = Place(g[n - 1], items[n])
    <3>1. n \in 1 .. N /\ n - 1 \in 0 .. N
      BY <1>1, <2>1
    <3>2. g[n - 1] \in W[n - 1]
      BY <1>6, <3>1 DEF Runs
    <3> QED
      BY <1>4, <3>1, <3>2
  <2>2. g = [n \in 0 .. N |-> IF n = 0 THEN << <<>> >> ELSE turn[<<n, g[n - 1]>>]]
    BY <1>6 DEF Runs
  <2> QED
    BY <2>1, <2>2
<1> DEFINE f == LeftoversPacked(items, lens, capacity)
<1>8. f = [n \in 0 .. N |-> IF n = 0 THEN << <<>> >> ELSE Place(f[n - 1], items[n])]
  BY <1>7 DEF LeftoversPacked, N, Place
<1>9. PackLeftovers(items, lens, capacity) = f[N]
  BY Zenon DEF PackLeftovers, LeftoversPacked, LeftoverPlace, InsertByLoad, N
<1> HIDE DEF f
<1> DEFINE S == {n \in 0 .. N : Good(f[n], n)}
<1>10. 0 \in S
  <2>1. f[0] = << <<>> >> /\ 0 \in 0 .. N
    BY <1>1, <1>8
  <2> QED
    BY <1>3, <2>1
<1>11. ASSUME NEW n \in 1 .. N, n - 1 \in S PROVE n \in S
  <2>1. n \in 0 .. N /\ n # 0
    BY <1>1
  <2>2. f[n] = Place(f[n - 1], items[n])
    BY <1>8, <2>1
  <2>3. Good(f[n], n)
    BY <1>2, <1>11, <2>2
  <2> QED
    BY <2>1, <2>3
<1>12. \A n \in 0 .. N : n \in S
  <2> HIDE DEF S
  <2> QED
    BY <1>1, <1>10, <1>11, UpTo
<1>13. Good(f[N], N)
  BY <1>1, <1>12
<1> QED
  BY <1>9, <1>13 DEF Good, G, N

\* What a list of bins holds is what its bins hold, joined.
LEMMA HeldIsJoined ==
  ASSUME NEW X, NEW G, G \subseteq Seq(X), NEW bins, NEW I, Packs(bins, G, I)
  PROVE  ToSet(FlattenSeq(bins)) = I
<1>1. bins \in Seq(Seq(X)) /\ \A x : Held(bins, x) <=> x \in I
  BY SeqMonotonic DEF Packs
<1>2. /\ FlattenSeq(bins) \in Seq(X)
      /\ \A x : MemberOf(FlattenSeq(bins), x)
                   <=> \E k \in 1 .. Len(bins) : MemberOf(bins[k], x)
  BY <1>1, FlattenMembers
<1> DEFINE t == FlattenSeq(bins)
<1> HIDE DEF t
<1>3. DOMAIN t = 1 .. Len(t)
  BY <1>2, LenProperties DEF t
<1>4. \A x : x \in ToSet(t) <=> MemberOf(t, x)
  BY <1>3 DEF ToSet, MemberOf
<1>5. \A x : x \in ToSet(t) <=> x \in I
  BY <1>1, <1>2, <1>4 DEF Held, t
<1> QED
  BY <1>5 DEF t

LEMMA ModifiedPacks ==
  ASSUME NEW lens, NEW capacity, Lengths(lens, capacity)
  PROVE  Packs(ModifiedFirstFitDecreasing(lens, capacity), UsedBins(lens, capacity),
               DOMAIN lens)
<1> DEFINE D == DOMAIN lens
           G == UsedBins(lens, capacity)
           B == Bins(lens, capacity)
           bins == AddSmallPairs(AddMedium(lens, capacity), lens, capacity)
           others == D \ ToSet(FlattenSeq(bins))
           filled == FillGreedily(bins, others, lens, capacity)
           packed == filled.bins \o PackLeftovers(filled.rest, lens, capacity)
<1>1. PICK A : /\ Packs(AddMedium(lens, capacity), G, A)
               /\ A \subseteq Medium(lens, capacity) \cup Large(lens, capacity)
  BY AddMediumPacks
<1>2. PICK H : Packs(bins, G, H) /\ H \subseteq D
  BY <1>1, AddSmallPairsPacks
<1> HIDE DEF bins
<1>3. others = D \ H
  <2>1. G \subseteq Seq(D)
    BY DEF UsedBins, Bins
  <2>2. ToSet(FlattenSeq(bins)) = H
    <3> HIDE DEF G, D
    <3> QED
      BY <1>2, <2>1, HeldIsJoined
  <2> QED
    BY <2>2
<1>4. others \in SUBSET D /\ others \cap H = {} /\ others \cup H = D
  BY <1>2, <1>3
<1> HIDE DEF others
<1>5. Filling(filled, G, D, others \cup H)
  BY <1>2, <1>4, FillGreedilyLeaves
<1> HIDE DEF filled
<1>6. PICK I : /\ filled.rest \in Seq(D) /\ Once(filled.rest)
               /\ Packs(filled.bins, G, I) /\ I \subseteq D
               /\ \A x : MemberOf(filled.rest, x) <=> x \in D \ I
  BY <1>4, <1>5 DEF Filling, Leaves, Contents
<1>7. Packs(PackLeftovers(filled.rest, lens, capacity), B, D \ I)
  <2>1. Packs(PackLeftovers(filled.rest, lens, capacity), B,
              Placed(filled.rest, Len(filled.rest)))
    BY <1>6, PackLeftoversPacks
  <2>2. Placed(filled.rest, Len(filled.rest)) = D \ I
    BY <1>6 DEF Placed, MemberOf
  <2> QED
    BY <2>1, <2>2, Zenon
<1>8. G = B \ {<<>>} /\ G \subseteq B
  BY DEF UsedBins
<1> HIDE DEF G, B, D
<1>9. Packs(filled.bins, B, I)
  BY <1>6, <1>8, PackWider
<1>10. Packs(packed, B, D)
  <2>1. Packs(packed, B, I \cup (D \ I))
    BY <1>7, <1>9, PackJoin
  <2>2. I \cup (D \ I) = D
    BY <1>6
  <2> QED
    BY <2>1, <2>2, Zenon
<1> HIDE DEF packed
<1>11. Packs(Kept(packed, {b \in DOMAIN packed : packed[b] # <<>>}), B \ {<<>>}, D)
  BY <1>10, PackKept
<1>12. ModifiedFirstFitDecreasing(lens, capacity)
           = Kept(packed, {b \in DOMAIN packed : packed[b] # <<>>})
  BY Zenon DEF ModifiedFirstFitDecreasing, packed, filled, others, bins, D
<1> QED
  BY <1>8, <1>11, <1>12, Zenon DEF G, D

-----------------------------------------------------------------------------
(* Division, and the number of bins it asks for.                           *)

LEMMA DivMod ==
  ASSUME NEW n \in Int, NEW m \in Nat \ {0}
  PROVE  /\ n \div m \in Int /\ n % m \in 0 .. m - 1
         /\ n = m * (n \div m) + (n % m)
OBVIOUS

LEMMA DivUnique ==
  ASSUME NEW n \in Int, NEW m \in Nat \ {0}, NEW q \in Int, NEW r \in 0 .. m - 1,
         n = m * q + r
  PROVE  n \div m = q /\ n % m = r
<1> DEFINE d == n \div m
           e == n % m
<1>1. n \div m \in Int /\ n % m \in 0 .. m - 1 /\ n = m * (n \div m) + (n % m)
  BY DivMod
<1> HIDE DEF d, e
<1>2. d \in Int /\ e \in 0 .. m - 1 /\ m * q + r = m * d + e
  BY <1>1 DEF d, e
<1>3. ASSUME d >= q + 1 PROVE FALSE
  <2>1. m * d >= m * (q + 1)
    BY <1>2, <1>3
  <2>2. m * (q + 1) = m * q + m
    OBVIOUS
  <2> QED
    BY <1>2, <2>1, <2>2
<1>4. ASSUME q >= d + 1 PROVE FALSE
  <2>1. m * q >= m * (d + 1)
    BY <1>2, <1>4
  <2>2. m * (d + 1) = m * d + m
    BY <1>2
  <2> QED
    BY <1>2, <2>1, <2>2
<1>5. d = q
  BY <1>2, <1>3, <1>4
<1> QED
  BY <1>2, <1>5 DEF d, e

\* The least multiple of m that is no less than n.
LEMMA LeastMultiple ==
  ASSUME NEW n \in Nat, NEW m \in Nat \ {0}
  PROVE  \E t \in Nat : /\ (n + m - 1) \div m = t
                        /\ n <= m * t /\ m * t < n + m
                        /\ \A q \in Nat : n <= m * q => t <= q /\ m * t <= m * q
<1> DEFINE t == (n + m - 1) \div m
           r == (n + m - 1) % m
<1>1. n + m - 1 \in Int
  OBVIOUS
<1>2. t \in Int /\ r \in 0 .. m - 1 /\ n + m - 1 = m * t + r
  BY <1>1, DivMod
<1> HIDE DEF t, r
<1>3. n <= m * t /\ m * t < n + m
  BY <1>2
<1>4. t \in Nat
  <2> SUFFICES ASSUME t + 1 <= 0 PROVE FALSE
    BY <1>2
  <2>1. m * (t + 1) <= 0
    BY <1>2
  <2>2. m * (t + 1) = m * t + m
    BY <1>2
  <2>3. m * t \in Int
    BY <1>2
  <2> DEFINE p == m * t
             u == m * (t + 1)
  <2>4. p \in Int /\ u <= 0 /\ u = p + m /\ n <= p
    BY <1>3, <2>1, <2>2, <2>3
  <2> HIDE DEF p, u
  <2> QED
    BY <2>4
<1>5. ASSUME NEW q \in Nat, n <= m * q PROVE t <= q /\ m * t <= m * q
  <2>1. ASSUME q + 1 <= t PROVE FALSE
    <3>1. m * (q + 1) <= m * t
      BY <1>4, <2>1
    <3>2. m * (q + 1) = m * q + m
      OBVIOUS
    <3> QED
      BY <1>3, <1>4, <1>5, <3>1, <3>2
  <2>2. t <= q
    BY <1>4, <2>1
  <2>3. m * t <= m * q
    BY <1>4, <2>2
  <2> QED
    BY <2>2, <2>3
<1> QED
  BY <1>3, <1>4, <1>5 DEF t

LEMMA MaxOfTwo ==
  ASSUME NEW a \in Int, NEW b \in Int
  PROVE  Max({a, b}) = IF a >= b THEN a ELSE b
<1>1. \E z \in {a, b} : \A y \in {a, b} : z >= y
  OBVIOUS
<1>2. Max({a, b}) \in {a, b} /\ \A y \in {a, b} : Max({a, b}) >= y
  BY <1>1 DEF Max
<1> QED
  BY <1>2

LEMMA TargetIs ==
  ASSUME NEW bins, Len(bins) \in Nat, NEW multiple \in Nat \ {0}
  PROVE  \E t \in Nat \ {0} :
            /\ TargetCount(bins, multiple) = multiple * t
            /\ multiple * t \in Nat
            /\ Len(bins) <= multiple * t
            /\ \A q \in Nat \ {0} : Len(bins) <= multiple * q => multiple * t <= multiple * q
<1> DEFINE n == Max({Len(bins), multiple})
<1>1. n = IF Len(bins) >= multiple THEN Len(bins) ELSE multiple
  BY MaxOfTwo
<1>2. n \in Nat /\ Len(bins) <= n /\ multiple <= n
  BY <1>1
<1> HIDE DEF n
<1>3. PICK t \in Nat : /\ (n + multiple - 1) \div multiple = t
                       /\ n <= multiple * t
                       /\ \A q \in Nat : n <= multiple * q
                              => t <= q /\ multiple * t <= multiple * q
  BY <1>2, LeastMultiple
<1>4. TargetCount(bins, multiple) = t * multiple
  BY <1>3 DEF TargetCount, n
<1>5. t * multiple = multiple * t /\ multiple * t \in Nat
  OBVIOUS
<1>6. t # 0
  BY <1>2, <1>3
<1>7. ASSUME NEW q \in Nat \ {0}, Len(bins) <= multiple * q
      PROVE  multiple * t <= multiple * q
  <2>1. multiple <= multiple * q
    OBVIOUS
  <2>2. n <= multiple * q
    BY <1>1, <1>7, <2>1
  <2> QED
    BY <1>3, <2>2
<1>8. Len(bins) <= multiple * t
  <2> DEFINE p == multiple * t
  <2>1. p \in Nat /\ n <= p
    BY <1>3, <1>5
  <2> HIDE DEF p
  <2>2. Len(bins) <= p
    BY <1>2, <2>1
  <2> QED
    BY <2>2 DEF p
<1>9. TargetCount(bins, multiple) = multiple * t /\ t \in Nat \ {0}
  BY <1>4, <1>5, <1>6
<1> QED
  BY <1>5, <1>7, <1>8, <1>9

-----------------------------------------------------------------------------
(* Bins are split until there are enough of them.                          *)

\* A bin without its last item.
LEMMA BinShrinks ==
  ASSUME NEW lens, NEW capacity, Lengths(lens, capacity),
         NEW bin \in UsedBins(lens, capacity), Len(bin) > 1
  PROVE  /\ Front(bin) \in UsedBins(lens, capacity)
         /\ Last(bin) \in DOMAIN lens /\ MemberOf(bin, Last(bin))
         /\ \A x : MemberOf(Front(bin), x) <=> MemberOf(bin, x) /\ x # Last(bin)
<1> DEFINE D == DOMAIN lens
           n == Len(bin)
           f == Front(bin)
           l == Last(bin)
<1>1. bin \in Seq(D) /\ Once(bin) /\ Load(bin, lens) <= capacity /\ Weighs(lens, D)
      /\ n \in Nat /\ \A k \in 1 .. n : bin[k] \in D
  BY LengthsWeigh, ElementOfSeq, LenProperties DEF UsedBins, Bins
<1>2. n \in 1 .. n /\ l = bin[n] /\ l \in D /\ MemberOf(bin, l)
  BY <1>1 DEF Last, MemberOf
<1>3. f \in Seq(D) /\ Len(f) = n - 1 /\ \A k \in 1 .. n - 1 : f[k] = bin[k]
  <2>1. /\ 1 \in Int /\ n - 1 \in Int /\ \A k \in 1 .. n - 1 : bin[k] \in D
        /\ 1 <= n - 1 /\ n - 1 - 1 + 1 = n - 1 /\ \A k \in 1 .. n - 1 : 1 + k - 1 = k
    BY <1>1
  <2> HIDE DEF n
  <2>2. /\ SubSeq(bin, 1, n - 1) \in Seq(D)
        /\ Len(SubSeq(bin, 1, n - 1)) = IF 1 <= n - 1 THEN n - 1 - 1 + 1 ELSE 0
        /\ \A k \in 1 .. n - 1 - 1 + 1 : SubSeq(bin, 1, n - 1)[k] = bin[1 + k - 1]
    BY <2>1, SubSeqProperties
  <2>3. f = SubSeq(bin, 1, n - 1)
    BY DEF Front, n
  <2> QED
    BY <2>1, <2>2, <2>3
<1> HIDE DEF f, l, n, D
<1>4. Append(f, l) = bin
  <2>1. Append(f, l) \in Seq(D) /\ Len(Append(f, l)) = n - 1 + 1
        /\ Append(f, l)[n - 1 + 1] = l /\ \A k \in 1 .. n - 1 : Append(f, l)[k] = f[k]
    BY <1>2, <1>3, AppendProperties
  <2>2. n - 1 + 1 = n
    BY <1>1
  <2> DEFINE t == Append(f, l)
  <2> HIDE DEF t
  <2>3. t \in Seq(D) /\ Len(t) = n /\ t[n] = l /\ \A k \in 1 .. n - 1 : t[k] = f[k]
    BY <2>1, <2>2 DEF t
  <2>4. \A k \in 1 .. n : k = n \/ k \in 1 .. n - 1
    BY <1>1
  <2>5. \A k \in 1 .. Len(t) : t[k] = bin[k]
    BY <1>2, <1>3, <2>3, <2>4
  <2>6. t = bin
    BY <1>1, <2>3, <2>5, SeqEqual DEF n
  <2> QED
    BY <2>6 DEF t
<1>5. Load(f, lens) <= capacity
  <2>1. Load(f, lens) \in Nat /\ Load(Append(f, l), lens) = Load(f, lens) + lens[l]
    BY <1>1, <1>2, <1>3, LoadIs
  <2>2. lens[l] \in Nat /\ capacity \in Nat
    BY <1>1, <1>2 DEF Weighs, Lengths
  <2> QED
    BY <1>1, <1>4, <2>1, <2>2
<1>6. Once(f) /\ \A x : MemberOf(f, x) <=> MemberOf(bin, x) /\ x # l
  <2>1. \A k \in 1 .. n - 1 : k \in 1 .. n /\ k # n
    BY <1>1
  <2>2. \A k \in 1 .. n : k = n \/ k \in 1 .. n - 1
    BY <1>1
  <2>3. \A i, j \in 1 .. n : bin[i] = bin[j] => i = j
    BY <1>1 DEF Once, n
  <2>4. Once(f)
    BY <1>3, <2>1, <2>3 DEF Once
  <2>5. ASSUME NEW x PROVE MemberOf(f, x) <=> MemberOf(bin, x) /\ x # l
    <3>1. ASSUME MemberOf(f, x) PROVE MemberOf(bin, x) /\ x # l
      <4>1. PICK k \in 1 .. n - 1 : bin[k] = x
        BY <1>3, <3>1 DEF MemberOf
      <4> QED
        BY <1>2, <2>1, <2>3, <4>1 DEF MemberOf, n
    <3>2. ASSUME MemberOf(bin, x), x # l PROVE MemberOf(f, x)
      BY <1>2, <1>3, <2>2, <3>2 DEF MemberOf, n
    <3> QED
      BY <3>1, <3>2
  <2> QED
    BY <2>4, <2>5
<1>7. f # <<>>
  BY <1>1, <1>3, EmptySeq DEF n
<1>8. f \in UsedBins(lens, capacity)
  BY <1>3, <1>5, <1>6, <1>7 DEF UsedBins, Bins, D
<1> QED
  BY <1>2, <1>6, <1>8 DEF f, l, D

LEMMA PackShrinks ==
  ASSUME NEW G, NEW bins, NEW I, Packs(bins, G, I), NEW b \in 1 .. Len(bins),
         NEW bin \in G, NEW y, MemberOf(bins[b], y),
         \A x : MemberOf(bin, x) <=> MemberOf(bins[b], x) /\ x # y
  PROVE  Packs([bins EXCEPT ![b] = bin], G, I \ {y})
<1> DEFINE t == [bins EXCEPT ![b] = bin]
           n == Len(bins)
<1>1. bins \in Seq(G) /\ n \in Nat /\ Apart(bins) /\ \A x : Held(bins, x) <=> x \in I
  BY LenProperties DEF Packs
<1>2. t \in Seq(G) /\ Len(t) = n /\ \A c \in 1 .. n : t[c] = IF c = b THEN bin ELSE bins[c]
  BY <1>1, ExceptSeq
<1> HIDE DEF t
<1>3. \A c, d \in 1 .. n : \A x : MemberOf(bins[c], x) /\ MemberOf(bins[d], x) => c = d
  <2> SUFFICES ASSUME NEW c \in 1 .. n, NEW d \in 1 .. n, NEW x,
                      MemberOf(bins[c], x), MemberOf(bins[d], x), c # d
               PROVE  FALSE
    OBVIOUS
  <2>1. PICK i \in 1 .. Len(bins[c]) : bins[c][i] = x
    BY DEF MemberOf
  <2>2. PICK j \in 1 .. Len(bins[d]) : bins[d][j] = x
    BY DEF MemberOf
  <2>3. bins[c][i] # bins[d][j]
    BY <1>1, Zenon DEF Apart
  <2> QED
    BY <2>1, <2>2, <2>3
<1>4. \A x : \A c \in 1 .. n : MemberOf(t[c], x) <=> MemberOf(bins[c], x) /\ x # y
  BY <1>2, <1>3
<1>5. \A x : Held(t, x) <=> x \in I \ {y}
  <2> SUFFICES ASSUME NEW x PROVE Held(t, x) <=> Held(bins, x) /\ x # y
    BY <1>1
  <2> QED
    BY <1>2, <1>4 DEF Held
<1>6. Apart(t)
  <2> SUFFICES ASSUME NEW k \in 1 .. n, NEW l \in 1 .. n, k # l,
                      NEW i \in 1 .. Len(t[k]), NEW j \in 1 .. Len(t[l]),
                      t[k][i] = t[l][j]
               PROVE  FALSE
    BY <1>2, Zenon DEF Apart
  <2>1. MemberOf(t[k], t[k][i]) /\ MemberOf(t[l], t[k][i])
    BY DEF MemberOf
  <2> QED
    BY <1>3, <1>4, <2>1
<1>7. Packs(t, G, I \ {y})
  BY <1>2, <1>5, <1>6 DEF Packs
<1> QED
  BY <1>7 DEF t

\* There are no more items than bins of one item each.
LEMMA ManyItems ==
  ASSUME NEW G, NEW bins, NEW I, Packs(bins, G, I), IsFiniteSet(I),
         Len(bins) < Cardinality(I)
  PROVE  \E b \in 1 .. Len(bins) : \E i, j \in 1 .. Len(bins[b]) : i # j
<1> SUFFICES ASSUME \A b \in 1 .. Len(bins) : \A i, j \in 1 .. Len(bins[b]) : i = j
             PROVE  FALSE
  OBVIOUS
<1> DEFINE n == Len(bins)
           f == [x \in I |-> CHOOSE b \in 1 .. n : MemberOf(bins[b], x)]
<1>1. n \in Nat /\ \A x : Held(bins, x) <=> x \in I
  BY LenProperties DEF Packs
<1>2. \A x \in I : f[x] \in 1 .. n /\ MemberOf(bins[f[x]], x)
  BY <1>1 DEF Held
<1>3. f \in [I -> 1 .. n]
  BY <1>2
<1>4. /\ IsFiniteSet(1 .. n) /\ Cardinality(1 .. n) = n
  <2>1. /\ IsFiniteSet(1 .. n)
        /\ Cardinality(1 .. n) = IF 1 > n THEN 0 ELSE n - 1 + 1
    BY <1>1, FS_Interval
  <2> QED
    BY <1>1, <2>1
<1> HIDE DEF f
<1>5. \A x, y \in I : f[x] = f[y] => x = y
  <2> SUFFICES ASSUME NEW x \in I, NEW y \in I, f[x] = f[y] PROVE x = y
    OBVIOUS
  <2>1. PICK i \in 1 .. Len(bins[f[x]]) : bins[f[x]][i] = x
    BY <1>2 DEF MemberOf
  <2>2. PICK j \in 1 .. Len(bins[f[x]]) : bins[f[x]][j] = y
    BY <1>2 DEF MemberOf
  <2>3. i = j
    BY <1>2
  <2> QED
    BY <2>1, <2>2, <2>3
<1>6. f \in Injection(I, 1 .. n)
  BY <1>3, <1>5 DEF Injection, IsInjective
<1>7. Cardinality(I) <= Cardinality(1 .. n)
  BY <1>4, <1>6, FS_Injection
<1>8. Cardinality(I) <= n
  BY <1>4, <1>7
<1>9. Cardinality(I) \in Nat
  BY FS_CardinalityType
<1> QED
  BY <1>1, <1>8, <1>9

Splitted(adjusted, G, I, K, n) ==
    /\ Packs(adjusted, G, I) /\ Len(adjusted) = K + n
    /\ \A b \in K + 1 .. K + n : Len(adjusted[b]) = 1

SplitOne(adjusted, sources) ==
    LET donors == {k \in DOMAIN sources : Len(adjusted[sources[k]]) > 1}
        from == sources[Min(donors)]
    IN  Append([adjusted EXCEPT ![from] = Front(@)], <<Last(adjusted[from])>>)

LEMMA SplitTurn ==
  ASSUME NEW lens, NEW capacity, Lengths(lens, capacity), NEW I, IsFiniteSet(I),
         NEW K \in Nat, NEW n \in Nat, NEW adjusted,
         Splitted(adjusted, UsedBins(lens, capacity), I, K, n), K + n < Cardinality(I),
         NEW sources \in Seq(1 .. K), Contents(sources, 1 .. K)
  PROVE  Splitted(SplitOne(adjusted, sources), UsedBins(lens, capacity), I, K, n + 1)
<1> DEFINE G == UsedBins(lens, capacity)
           donors == {k \in DOMAIN sources : Len(adjusted[sources[k]]) > 1}
           from == sources[Min(donors)]
           bin == adjusted[from]
           y == Last(bin)
           r == [adjusted EXCEPT ![from] = Front(bin)]
           t == Append(r, <<y>>)
<1>1. /\ Packs(adjusted, G, I) /\ Len(adjusted) = K + n /\ adjusted \in Seq(G)
      /\ \A b \in 1 .. K + n : adjusted[b] \in G /\ Len(adjusted[b]) \in Nat
      /\ \A b \in K + 1 .. K + n : Len(adjusted[b]) = 1
  BY ElementOfSeq, LenProperties DEF Splitted, Packs, UsedBins, Bins
<1>2. DOMAIN sources = 1 .. Len(sources) /\ \A k \in 1 .. Len(sources) : sources[k] \in 1 .. K
  BY ElementOfSeq, LenProperties
<1>3. donors # {}
  <2>1. Len(adjusted) < Cardinality(I)
    BY <1>1
  <2>2. PICK b \in 1 .. Len(adjusted) : \E i, j \in 1 .. Len(adjusted[b]) : i # j
    <3> HIDE DEF G
    <3>1. Packs(adjusted, G, I) /\ IsFiniteSet(I) /\ Len(adjusted) < Cardinality(I)
      BY <1>1, <2>1
    <3> QED
      BY <3>1, ManyItems
  <2>3. b \in 1 .. K + n /\ Len(adjusted[b]) \in Nat /\ Len(adjusted[b]) > 1
    BY <1>1, <2>2
  <2>4. b \in 1 .. K
    <3>1. b \notin K + 1 .. K + n
      <4> SUFFICES ASSUME b \in K + 1 .. K + n PROVE FALSE
        OBVIOUS
      <4>1. Len(adjusted[b]) = 1
        BY <1>1, Zenon
      <4> QED
        BY <2>3, <4>1
    <3>2. b \in 1 .. K + n
      BY <2>3
    <3> QED
      BY <3>1, <3>2
  <2>5. PICK k \in 1 .. Len(sources) : sources[k] = b
    BY <2>4 DEF Contents, MemberOf
  <2> QED
    BY <1>2, <2>3, <2>5
<1>4. Min(donors) \in donors
  <2>1. donors \in SUBSET Nat
    BY <1>2
  <2> HIDE DEF donors
  <2> QED
    BY <1>3, <2>1, MinIs
<1>5. from \in 1 .. K /\ Len(bin) > 1
  BY <1>2, <1>4
<1> HIDE DEF from
<1>6. from \in 1 .. K + n /\ from \in 1 .. Len(adjusted) /\ bin \in G
  BY <1>1, <1>5
<1>7. /\ Front(bin) \in G /\ y \in DOMAIN lens /\ MemberOf(bin, y)
      /\ \A x : MemberOf(Front(bin), x) <=> MemberOf(bin, x) /\ x # y
  BY <1>5, <1>6, BinShrinks
<1>8. <<y>> \in G /\ Contents(<<y>>, {y})
  BY <1>7, BinStarts
<1>9. y \in I
  BY <1>1, <1>6, <1>7 DEF Packs, Held
<1> HIDE DEF G, y
<1>10. Packs(r, G, I \ {y})
  BY <1>1, <1>6, <1>7, PackShrinks
<1>11. Packs(t, G, I)
  <2>1. (I \ {y}) \cap {y} = {} /\ (I \ {y}) \cup {y} = I
    BY <1>9
  <2>2. Packs(t, G, (I \ {y}) \cup {y})
    BY <1>8, <1>10, <2>1, PackMore
  <2> QED
    BY <2>1, <2>2, Zenon
<1>12. /\ r \in Seq(G) /\ Len(r) = K + n
       /\ \A b \in 1 .. K + n : r[b] = IF b = from THEN Front(bin) ELSE adjusted[b]
  BY <1>1, <1>6, <1>7, ExceptSeq
<1> HIDE DEF r
<1>13. /\ Len(t) = K + n + 1 /\ t[K + n + 1] = <<y>>
       /\ \A b \in 1 .. K + n : t[b] = r[b]
  BY <1>8, <1>12, AppendProperties
<1> HIDE DEF t
<1>14. \A b \in K + 1 .. K + (n + 1) : Len(t[b]) = 1
  <2> SUFFICES ASSUME NEW b \in K + 1 .. K + (n + 1) PROVE Len(t[b]) = 1
    OBVIOUS
  <2>1. CASE b = K + n + 1
    BY <1>13, <2>1
  <2>2. CASE b # K + n + 1
    <3>1. b \in K + 1 .. K + n /\ b \in 1 .. K + n /\ b # from
      BY <1>5, <2>2
    <3>2. t[b] = adjusted[b]
      BY <1>12, <1>13, <3>1
    <3> QED
      BY <1>1, <3>1, <3>2
  <2> QED
    BY <2>1, <2>2
<1>15. K + n + 1 = K + (n + 1)
  OBVIOUS
<1>16. Splitted(t, G, I, K, n + 1)
  BY <1>11, <1>13, <1>14, <1>15 DEF Splitted
<1>17. SplitOne(adjusted, sources) = t
  BY Zenon DEF SplitOne, t, r, y, from
<1> QED
  BY <1>16, <1>17, Zenon DEF G

LargestFirst(bins) ==
    Sorted(DOMAIN bins, LAMBDA a, b : \/ Len(bins[a]) > Len(bins[b])
                                      \/ Len(bins[a]) = Len(bins[b]) /\ a > b)

LEMMA LargestFirstIs ==
  ASSUME NEW G, NEW X, G \subseteq Seq(X), NEW bins \in Seq(G)
  PROVE  LargestFirst(bins) \in Seq(1 .. Len(bins))
         /\ Contents(LargestFirst(bins), 1 .. Len(bins))
<1> DEFINE I == DOMAIN bins
           size == [b \in I |-> Len(bins[b])]
           s == SortedBy(LongerReversed(I, size), I)
<1>1. I = 1 .. Len(bins) /\ Len(bins) \in Nat
  BY LenProperties
<1>2. I \in SUBSET Nat /\ IsFiniteSet(I)
  BY <1>1, FS_Interval
<1>3. Weighs(size, I)
  <2>1. \A b \in I : bins[b] \in Seq(X)
    BY <1>1, ElementOfSeq
  <2> QED
    BY <2>1, LenProperties DEF Weighs
<1>4. \A b \in I : size[b] = Len(bins[b])
  OBVIOUS
<1> HIDE DEF I, size
<1>5. InSortedOrder(s, LongerReversed(I, size), I)
  BY <1>2, <1>3, LengthOrders, SortedIs
<1>6. s \in Seq(I) /\ Contents(s, I)
  BY <1>5, SortedOnce
<1>7. ASSUME NEW i \in I
      PROVE  Cardinality({j \in I : \/ Len(bins[j]) > Len(bins[i])
                                    \/ Len(bins[j]) = Len(bins[i]) /\ j > i})
                 = Cardinality(Ahead(LongerReversed(I, size), I, i))
  <2>1. {j \in I : Len(bins[j]) > Len(bins[i]) \/ (Len(bins[j]) = Len(bins[i]) /\ j > i)}
            = Ahead(LongerReversed(I, size), I, i)
    BY <1>4 DEF Ahead, LongerReversed
  <2> QED
    BY <2>1, Zenon
<1>8. LargestFirst(bins)
          = [n \in 1 .. Cardinality(I) |-> CHOOSE i \in I :
                Cardinality({j \in I : \/ Len(bins[j]) > Len(bins[i])
                                       \/ Len(bins[j]) = Len(bins[i]) /\ j > i}) = n - 1]
  BY DEF LargestFirst, Sorted, I
<1>9. LargestFirst(bins) = s
  BY <1>7, <1>8, Zenon DEF SortedBy
<1> QED
  BY <1>1, <1>6, <1>9, Zenon

SplitBins(bins, multiple) ==
    CHOOSE split : split = [n \in 0 .. (TargetCount(bins, multiple) - Len(bins)) |->
        IF n = 0 THEN bins ELSE SplitOne(split[n - 1], LargestFirst(bins))]

\* _adjust_bin_count splits bins until there are as many as asked for; the items
\* stay in one bin each, and no bin grows beyond the capacity.
THEOREM AdjustedPacks ==
  ASSUME NEW lens, NEW capacity, Lengths(lens, capacity), NEW I, IsFiniteSet(I),
         NEW bins, Packs(bins, UsedBins(lens, capacity), I),
         NEW multiple \in Nat \ {0}, TargetCount(bins, multiple) <= Cardinality(I)
  PROVE  /\ Packs(AdjustBinCount(bins, multiple), UsedBins(lens, capacity), I)
         /\ Len(AdjustBinCount(bins, multiple)) = TargetCount(bins, multiple)
<1> DEFINE G == UsedBins(lens, capacity)
           K == Len(bins)
           T == TargetCount(bins, multiple)
           N == T - K
           sources == LargestFirst(bins)
           Turn(v) == SplitOne(v, sources)
           W == [n \in 0 .. N |-> {v \in Seq(G) : Splitted(v, G, I, K, n)}]
           turn == [p \in (1 .. N) \X Seq(G) |-> Turn(p[2])]
<1>1. bins \in Seq(G) /\ K \in Nat
  BY LenProperties DEF Packs
<1>2. T \in Nat /\ K <= T
  BY <1>1, TargetIs
<1>3. N \in Nat
  BY <1>1, <1>2
<1>4. sources \in Seq(1 .. K) /\ Contents(sources, 1 .. K)
  <2>1. G \subseteq Seq(DOMAIN lens)
    BY DEF UsedBins, Bins
  <2> HIDE DEF G
  <2> QED
    BY <1>1, <2>1, LargestFirstIs
<1>5. Cardinality(I) \in Nat
  BY FS_CardinalityType
<1> HIDE DEF K, T
<1>6. ASSUME NEW n \in 1 .. N, NEW v, Splitted(v, G, I, K, n - 1)
      PROVE  Splitted(Turn(v), G, I, K, n)
  <2>1. n - 1 \in Nat /\ K + (n - 1) < T /\ n - 1 + 1 = n
    BY <1>1, <1>2
  <2>2. K + (n - 1) < Cardinality(I)
    BY <1>1, <1>2, <1>5, <2>1 DEF T
  <2> HIDE DEF sources
  <2>3. Splitted(SplitOne(v, sources), G, I, K, n - 1 + 1)
    BY <1>1, <1>4, <1>6, <2>1, <2>2, SplitTurn
  <2> QED
    BY <2>1, <2>3, Zenon
<1>7. Splitted(bins, G, I, K, 0)
  BY <1>1 DEF Splitted, K
<1>a. \A v, n : Splitted(v, G, I, K, n) => v \in Seq(G)
  BY DEF Splitted, Packs
<1> HIDE DEF G, N, Turn
<1>8. ASSUME NEW n \in 1 .. N, NEW v \in W[n - 1]
      PROVE  turn[<<n, v>>] \in W[n] /\ turn[<<n, v>>] = Turn(v)
  <2>1. n - 1 \in 0 .. N /\ n \in 0 .. N
    BY <1>3
  <2>2. v \in Seq(G) /\ Splitted(v, G, I, K, n - 1)
    BY <2>1
  <2>3. Splitted(Turn(v), G, I, K, n)
    BY <1>6, <2>2
  <2>4. turn[<<n, v>>] = Turn(v)
    BY <2>2
  <2>5. Turn(v) \in W[n]
    BY <1>a, <2>1, <2>3
  <2> HIDE DEF turn, W
  <2> QED
    BY <2>4, <2>5
<1>9. bins \in W[0]
  <2>1. 0 \in 0 .. N
    BY <1>3
  <2> QED
    BY <1>1, <1>7, <2>1
<1> HIDE DEF W, turn
<1>10. PICK g : Runs(N, g, bins, turn, W)
  <2>1. \A n \in 1 .. N : \A v \in W[n - 1] : turn[<<n, v>>] \in W[n]
    BY <1>8
  <2> QED
    BY <1>3, <1>9, <2>1, Iterates
<1>11. g = [n \in 0 .. N |-> IF n = 0 THEN bins ELSE Turn(g[n - 1])]
  <2>1. ASSUME NEW n \in 0 .. N, n # 0 PROVE turn[<<n, g[n - 1]>>] = Turn(g[n - 1])
    <3>1. n \in 1 .. N /\ n - 1 \in 0 .. N
      BY <1>3, <2>1
    <3>2. g[n - 1] \in W[n - 1]
      BY <1>10, <3>1 DEF Runs
    <3> QED
      BY <1>8, <3>1, <3>2
  <2>2. g = [n \in 0 .. N |-> IF n = 0 THEN bins ELSE turn[<<n, g[n - 1]>>]]
    BY <1>10 DEF Runs
  <2> QED
    BY <2>1, <2>2
<1> DEFINE f == SplitBins(bins, multiple)
<1>12. f = [n \in 0 .. N |-> IF n = 0 THEN bins ELSE Turn(f[n - 1])]
  BY <1>11, Zenon DEF SplitBins, N, T, K, Turn
<1>13. AdjustBinCount(bins, multiple) = f[N]
  BY Zenon DEF AdjustBinCount, SplitBins, SplitOne, LargestFirst, N, T, K
<1> HIDE DEF f
<1> DEFINE S == {n \in 0 .. N : Splitted(f[n], G, I, K, n)}
<1>14. 0 \in S
  <2>1. f[0] = bins /\ 0 \in 0 .. N
    BY <1>3, <1>12
  <2> QED
    BY <1>7, <2>1
<1>15. ASSUME NEW n \in 1 .. N, n - 1 \in S PROVE n \in S
  <2>1. n \in 0 .. N /\ n # 0
    BY <1>3
  <2>2. f[n] = Turn(f[n - 1])
    BY <1>12, <2>1
  <2>3. Splitted(f[n], G, I, K, n)
    BY <1>6, <1>15, <2>2
  <2> QED
    BY <2>1, <2>3
<1>16. \A n \in 0 .. N : n \in S
  <2> HIDE DEF S
  <2> QED
    BY <1>3, <1>14, <1>15, UpTo
<1>17. Splitted(f[N], G, I, K, N)
  BY <1>3, <1>16
<1>18. K + N = T
  BY <1>1, <1>2 DEF N
<1>19. Packs(f[N], G, I) /\ Len(f[N]) = T
  BY <1>17, <1>18 DEF Splitted
<1> QED
  BY <1>13, <1>19, Zenon DEF G, T

-----------------------------------------------------------------------------
(* Numbers in h rows of w.                                                  *)

LEMMA Grid ==
  ASSUME NEW w \in Nat \ {0}, NEW h \in Nat
  PROVE  /\ w * h \in Nat
         /\ \A a \in 1 .. h, b \in 1 .. w : (a - 1) * w + b \in 1 .. w * h
         /\ \A a, c \in 1 .. h, b, d \in 1 .. w :
                (a - 1) * w + b = (c - 1) * w + d => a = c /\ b = d
         /\ \A x \in 1 .. w * h : \E a \in 1 .. h, b \in 1 .. w : x = (a - 1) * w + b
<1>1. w * h \in Nat
  OBVIOUS
<1>2. ASSUME NEW a \in 1 .. h, NEW b \in 1 .. w
      PROVE  (a - 1) * w + b \in 1 .. w * h
  <2>1. (a - 1) * w \in Nat
    <3>1. a - 1 \in Nat
      OBVIOUS
    <3> QED
      BY <3>1
  <2>2. a * w <= h * w
    OBVIOUS
  <2>3. a * w = (a - 1) * w + w /\ h * w = w * h
    OBVIOUS
  <2> DEFINE p == (a - 1) * w
             q == a * w
             r == h * w
  <2>4. p \in Nat /\ q = p + w /\ q <= r /\ r = w * h
    BY <2>1, <2>2, <2>3
  <2> HIDE DEF p, q, r
  <2>5. p + b >= 1 /\ p + b <= r /\ r \in Nat /\ p + b \in Nat
    BY <1>1, <2>4
  <2>6. p + b \in 1 .. w * h
    BY <2>4, <2>5
  <2> QED
    BY <2>6 DEF p
<1>3. ASSUME NEW a \in 1 .. h, NEW c \in 1 .. h, NEW b \in 1 .. w, NEW d \in 1 .. w,
             (a - 1) * w + b = (c - 1) * w + d
      PROVE  a = c /\ b = d
  <2> DEFINE n == (a - 1) * w + (b - 1)
  <2>1. a - 1 \in Int /\ c - 1 \in Int /\ b - 1 \in 0 .. w - 1 /\ d - 1 \in 0 .. w - 1
    OBVIOUS
  <2>2. (a - 1) * w = w * (a - 1) /\ (c - 1) * w = w * (c - 1)
    OBVIOUS
  <2>3. (a - 1) * w \in Int /\ (c - 1) * w \in Int
    BY <2>1
  <2>4. n \in Int /\ n = w * (a - 1) + (b - 1) /\ n = w * (c - 1) + (d - 1)
    BY <1>3, <2>1, <2>2, <2>3
  <2> HIDE DEF n
  <2>5. n \div w = a - 1 /\ n % w = b - 1
    BY <2>1, <2>4, DivUnique
  <2>6. n \div w = c - 1 /\ n % w = d - 1
    BY <2>1, <2>4, DivUnique
  <2> QED
    BY <2>5, <2>6
<1>4. ASSUME NEW x \in 1 .. w * h
      PROVE  \E a \in 1 .. h, b \in 1 .. w : x = (a - 1) * w + b
  <2> DEFINE q == (x - 1) \div w
             r == (x - 1) % w
  <2>1. x - 1 \in Int
    BY <1>1
  <2>2. q \in Int /\ r \in 0 .. w - 1 /\ x - 1 = w * q + r
    BY <2>1, DivMod
  <2> HIDE DEF q, r
  <2>3. q + 1 <= h
    <3> SUFFICES ASSUME q >= h PROVE FALSE
      BY <2>2
    <3>1. w * q >= w * h
      BY <2>2
    <3> DEFINE u == w * q
               v == w * h
    <3>2. u \in Int /\ v \in Nat /\ u >= v /\ x - 1 = u + r /\ x \in 1 .. v
      BY <1>1, <2>2, <3>1
    <3> HIDE DEF u, v
    <3> QED
      BY <2>2, <3>2
  <2>4. q >= 0
    <3> SUFFICES ASSUME q + 1 <= 0 PROVE FALSE
      BY <2>2
    <3>1. w * (q + 1) <= 0
      BY <2>2
    <3>2. w * (q + 1) = w * q + w
      BY <2>2
    <3> DEFINE u == w * q
               v == w * (q + 1)
    <3>3. u \in Int /\ v <= 0 /\ v = u + w /\ x - 1 = u + r /\ x - 1 >= 0
      BY <1>1, <2>2, <3>1, <3>2
    <3> HIDE DEF u, v
    <3> QED
      BY <2>2, <3>3
  <2>5. q + 1 \in 1 .. h /\ r + 1 \in 1 .. w
    BY <2>2, <2>3, <2>4
  <2>6. ((q + 1) - 1) * w = w * q
    BY <2>2
  <2>7. x = ((q + 1) - 1) * w + (r + 1)
    <3> DEFINE u == w * q
    <3>1. u \in Int /\ x - 1 = u + r /\ ((q + 1) - 1) * w = u
      BY <2>2, <2>6
    <3> HIDE DEF u
    <3> QED
      BY <1>1, <2>2, <3>1
  <2> DEFINE a == q + 1
             b == r + 1
  <2>8. a \in 1 .. h /\ b \in 1 .. w /\ x = (a - 1) * w + b
    BY <2>5, <2>7, Zenon
  <2> HIDE DEF a, b
  <2> QED
    BY <2>8, Zenon
<1> QED
  BY <1>1, <1>2, <1>3, <1>4

LEMMA MinOfTwo ==
  ASSUME NEW a \in Int, NEW b \in Int
  PROVE  Min({a, b}) = IF a <= b THEN a ELSE b
<1>1. \E z \in {a, b} : \A y \in {a, b} : z <= y
  OBVIOUS
<1>2. Min({a, b}) \in {a, b} /\ \A y \in {a, b} : Min({a, b}) <= y
  BY <1>1 DEF Min
<1> QED
  BY <1>2

-----------------------------------------------------------------------------
(* A part of a chunk is cut into microbatches.                              *)

Ends(sizes) ==
    CHOOSE end : end = [m \in 0 .. Len(sizes) |-> IF m = 0 THEN 0 ELSE end[m - 1] + sizes[m]]

\* e has the ends of the microbatches.
EndsAre(e, sizes) ==
    /\ e[0] = 0
    /\ \A m \in 0 .. Len(sizes) : e[m] \in Nat
    /\ \A m \in 1 .. Len(sizes) : e[m] = e[m - 1] + sizes[m]

LEMMA EndsExist ==
  ASSUME NEW sizes \in Seq(Nat)
  PROVE  EndsAre(Ends(sizes), sizes)
<1> DEFINE N == Len(sizes)
           W == [n \in 0 .. N |-> Nat]
           turn == [p \in (1 .. N) \X Nat |-> p[2] + sizes[p[1]]]
           e == Ends(sizes)
<1>1. N \in Nat /\ \A n \in 1 .. N : sizes[n] \in Nat
  BY ElementOfSeq, LenProperties
<1>2. \A n \in 0 .. N : W[n] = Nat
  OBVIOUS
<1>3. \A n \in 1 .. N : n - 1 \in 0 .. N /\ n \in 0 .. N
  BY <1>1
<1>4. \A n \in 1 .. N : \A v \in Nat : turn[<<n, v>>] = v + sizes[n]
  OBVIOUS
<1> HIDE DEF W, turn, e, N
<1>5. ASSUME NEW n \in 1 .. N, NEW v \in W[n - 1] PROVE turn[<<n, v>>] \in W[n]
  <2>1. n - 1 \in 0 .. N /\ n \in 0 .. N /\ sizes[n] \in Nat
    BY <1>1, <1>3
  <2>2. v \in Nat /\ W[n] = Nat
    BY <1>2, <2>1
  <2>3. turn[<<n, v>>] = v + sizes[n]
    BY <1>4, <2>2
  <2> QED
    BY <2>1, <2>2, <2>3
<1>6. 0 \in W[0]
  BY <1>1, <1>2
<1>7. PICK g : Runs(N, g, 0, turn, W)
  BY <1>1, <1>5, <1>6, Iterates
<1>8. /\ g = [n \in 0 .. N |-> IF n = 0 THEN 0 ELSE turn[<<n, g[n - 1]>>]]
      /\ \A n \in 0 .. N : g[n] \in W[n]
  BY <1>7 DEF Runs
<1>9. ASSUME NEW n \in 0 .. N, n # 0
      PROVE  turn[<<n, g[n - 1]>>] = g[n - 1] + sizes[n]
  <2>1. n \in 1 .. N /\ n - 1 \in 0 .. N
    BY <1>1, <1>9
  <2>2. g[n - 1] \in Nat
    BY <1>2, <1>8, <2>1
  <2> QED
    BY <1>4, <2>1, <2>2
<1>10. g = [n \in 0 .. N |-> IF n = 0 THEN 0 ELSE g[n - 1] + sizes[n]]
  BY <1>8, <1>9
<1>11. e = [n \in 0 .. N |-> IF n = 0 THEN 0 ELSE e[n - 1] + sizes[n]]
  BY <1>10, Zenon DEF e, Ends, N
<1>12. e[0] = 0 /\ \A n \in 1 .. N : e[n] = e[n - 1] + sizes[n]
  <2>1. 0 \in 0 .. N /\ \A n \in 1 .. N : n # 0
    BY <1>1
  <2> QED
    BY <1>3, <1>11, <2>1
<1> DEFINE S == {n \in 0 .. N : e[n] \in Nat}
<1>13. 0 \in S
  BY <1>1, <1>12
<1>14. ASSUME NEW n \in 1 .. N, n - 1 \in S PROVE n \in S
  BY <1>1, <1>3, <1>12, <1>14
<1>15. \A n \in 0 .. N : n \in S
  <2> HIDE DEF S
  <2> QED
    BY <1>1, <1>13, <1>14, UpTo
<1> QED
  BY <1>12, <1>15 DEF EndsAre, e, N

LEMMA EndsGrow ==
  ASSUME NEW sizes \in Seq(Nat), NEW e, EndsAre(e, sizes)
  PROVE  \A n \in 0 .. Len(sizes) : \A m \in 0 .. n : e[m] <= e[n]
<1> DEFINE N == Len(sizes)
           S == {n \in 0 .. N : \A m \in 0 .. n : e[m] <= e[n]}
<1>1. N \in Nat /\ \A n \in 1 .. N : sizes[n] \in Nat
  BY ElementOfSeq, LenProperties
<1>2. /\ \A m \in 0 .. N : e[m] \in Nat
      /\ \A m \in 1 .. N : e[m] = e[m - 1] + sizes[m]
  BY DEF EndsAre
<1> HIDE DEF N
<1>3. 0 \in S
  <2>1. 0 \in 0 .. N /\ \A m \in 0 .. 0 : m = 0
    BY <1>1
  <2> QED
    BY <1>2, <2>1
<1>4. ASSUME NEW n \in 1 .. N, n - 1 \in S PROVE n \in S
  <2>1. n \in 0 .. N /\ n - 1 \in 0 .. N
    BY <1>1
  <2>2. e[n] >= e[n - 1] /\ e[n] \in Nat /\ e[n - 1] \in Nat
    BY <1>1, <1>2, <2>1
  <2> SUFFICES ASSUME NEW m \in 0 .. n PROVE e[m] <= e[n]
    BY <2>1
  <2>3. CASE m = n
    BY <2>2, <2>3
  <2>4. CASE m # n
    <3>1. m \in 0 .. n - 1 /\ m \in 0 .. N
      BY <1>1, <2>4
    <3>2. e[m] <= e[n - 1] /\ e[m] \in Nat
      BY <1>2, <1>4, <3>1
    <3> QED
      BY <2>2, <3>2
  <2> QED
    BY <2>3, <2>4
<1>5. \A n \in 0 .. N : n \in S
  <2> HIDE DEF S
  <2> QED
    BY <1>1, <1>3, <1>4, UpTo
<1> QED
  BY <1>5 DEF N

LEMMA CutPacks ==
  ASSUME NEW X, NEW piece \in Seq(X), Once(piece),
         NEW sizes \in Seq(Nat), Ends(sizes)[Len(sizes)] = Len(piece), NEW G,
         \A m \in 1 .. Len(sizes) :
             SubSeq(piece, Ends(sizes)[m - 1] + 1, Ends(sizes)[m]) \in G,
         NEW I, Contents(piece, I)
  PROVE  /\ Packs(Cut(piece, sizes), G, I)
         /\ Len(Cut(piece, sizes)) = Len(sizes)
         /\ FlattenSeq(Cut(piece, sizes)) = piece
<1> DEFINE N == Len(sizes)
           L == Len(piece)
           e == Ends(sizes)
           c == [m \in 1 .. N |-> SubSeq(piece, e[m - 1] + 1, e[m])]
<1>1. /\ N \in Nat /\ L \in Nat /\ DOMAIN sizes = 1 .. N
      /\ \A n \in 1 .. N : sizes[n] \in Nat
      /\ \A p \in 1 .. L : piece[p] \in X
  BY ElementOfSeq, LenProperties
<1>2. EndsAre(e, sizes)
  BY EndsExist
<1>3. \A n \in 0 .. N : \A m \in 0 .. n : e[m] <= e[n]
  <2> HIDE DEF e
  <2> QED
    BY <1>2, EndsGrow
<1>4. e[N] = L /\ \A m \in 1 .. N : SubSeq(piece, e[m - 1] + 1, e[m]) \in G
  OBVIOUS
<1>5. Cut(piece, sizes) = [m \in DOMAIN sizes |-> Slice(piece, e[m - 1], e[m])]
  BY Zenon DEF Cut, Ends
<1> HIDE DEF e, N, L
<1>6. /\ e[0] = 0
      /\ \A m \in 0 .. N : e[m] \in 0 .. L
      /\ \A m \in 1 .. N : e[m] = e[m - 1] + sizes[m] /\ e[m - 1] <= e[m]
  <2>1. /\ e[0] = 0 /\ \A m \in 0 .. N : e[m] \in Nat
        /\ \A m \in 1 .. N : e[m] = e[m - 1] + sizes[m]
    BY <1>2 DEF EndsAre, N
  <2>2. \A m \in 0 .. N : e[m] <= L
    <3>1. N \in 0 .. N
      BY <1>1
    <3> QED
      BY <1>3, <1>4, <3>1
  <2>3. ASSUME NEW m \in 1 .. N PROVE e[m - 1] <= e[m]
    <3>1. m - 1 \in 0 .. N /\ m \in 0 .. N /\ sizes[m] \in Nat
      BY <1>1
    <3> QED
      BY <2>1, <3>1
  <2> QED
    BY <1>1, <2>1, <2>2, <2>3
<1>7. Cut(piece, sizes) = c
  <2>1. ASSUME NEW m \in 1 .. N
        PROVE  Slice(piece, e[m - 1], e[m]) = SubSeq(piece, e[m - 1] + 1, e[m])
    <3>1. m \in 0 .. N /\ e[m] \in 0 .. L
      BY <1>1, <1>6
    <3>2. Min({e[m], L}) = e[m]
      BY <1>1, <3>1, MinOfTwo, SMTT(30)
    <3> QED
      BY <3>2 DEF Slice, L
  <2> QED
    BY <1>1, <1>5, <2>1
<1>8. ASSUME NEW m \in 1 .. N
      PROVE  /\ c[m] \in Seq(X) /\ c[m] \in G /\ Len(c[m]) = e[m] - e[m - 1]
             /\ \A i \in 1 .. Len(c[m]) : /\ e[m - 1] + i \in 1 .. L
                                          /\ e[m - 1] < e[m - 1] + i
                                          /\ e[m - 1] + i <= e[m]
                                          /\ c[m][i] = piece[e[m - 1] + i]
  <2> DEFINE a == e[m - 1]
             b == e[m]
             s == SubSeq(piece, a + 1, b)
  <2>1. m - 1 \in 0 .. N /\ m \in 0 .. N
    BY <1>1
  <2>2. a \in 0 .. L /\ b \in 0 .. L /\ a <= b
    BY <1>6, <2>1
  <2>3. c[m] = s /\ s \in G
    BY <1>4
  <2> HIDE DEF a, b, c
  <2>4. a + 1 \in Int /\ b \in Int /\ \A k \in (a + 1) .. b : piece[k] \in X
    BY <1>1, <2>2
  <2>5. /\ s \in Seq(X)
        /\ Len(s) = IF a + 1 <= b THEN b - (a + 1) + 1 ELSE 0
        /\ \A k \in 1 .. (b - (a + 1) + 1) : s[k] = piece[(a + 1) + k - 1]
    BY <2>4, SubSeqProperties
  <2> HIDE DEF s
  <2>6. b - (a + 1) + 1 = b - a /\ Len(s) = b - a
    BY <1>1, <2>2, <2>5
  <2>7. ASSUME NEW i \in 1 .. Len(s)
        PROVE  a + i \in 1 .. L /\ a < a + i /\ a + i <= b /\ s[i] = piece[a + i]
    <3>1. i \in 1 .. (b - (a + 1) + 1) /\ (a + 1) + i - 1 = a + i
      BY <2>2, <2>6
    <3>2. s[i] = piece[a + i]
      BY <2>5, <3>1
    <3>3. a + i \in 1 .. L /\ a < a + i /\ a + i <= b
      BY <1>1, <2>2, <2>6
    <3> QED
      BY <3>2, <3>3
  <2> QED
    BY <2>3, <2>5, <2>6, <2>7 DEF a, b
<1>9. c \in Seq(Seq(X)) /\ c \in Seq(G) /\ Len(c) = N
  <2>1. \A m \in 1 .. N : c[m] \in Seq(X) /\ c[m] \in G
    BY <1>8
  <2> QED
    BY <1>1, <2>1
<1> HIDE DEF c
<1>10. FlattenSeq(c) = piece
  <2>1. /\ \A i \in 0 .. Len(c) : e[i] \in 0 .. Len(piece)
        /\ \A i \in 1 .. Len(c) :
               e[i - 1] <= e[i] /\ c[i] = SubSeq(piece, e[i - 1] + 1, e[i])
    BY <1>6, <1>9 DEF c, L
  <2>2. FlattenSeq(c) = SubSeq(piece, 1, e[Len(c)])
    BY <1>6, <1>9, <2>1, FlattenPieces
  <2>3. SubSeq(piece, 1, L) = piece
    BY SubSeqFull DEF L
  <2> QED
    BY <1>4, <1>9, <2>2, <2>3
<1>11. \A x : Held(c, x) <=> x \in I
  <2>1. \A x : MemberOf(FlattenSeq(c), x) <=> \E k \in 1 .. Len(c) : MemberOf(c[k], x)
    BY <1>9, FlattenMembers
  <2> QED
    BY <1>10, <2>1 DEF Held, Contents
<1>12. Apart(c)
  <2> SUFFICES ASSUME NEW k \in 1 .. N, NEW l \in 1 .. N, k # l,
                      NEW i \in 1 .. Len(c[k]), NEW j \in 1 .. Len(c[l])
               PROVE  c[k][i] # c[l][j]
    BY <1>9 DEF Apart
  <2>1. /\ e[k - 1] + i \in 1 .. L /\ e[k - 1] < e[k - 1] + i /\ e[k - 1] + i <= e[k]
        /\ c[k][i] = piece[e[k - 1] + i]
    BY <1>8
  <2>2. /\ e[l - 1] + j \in 1 .. L /\ e[l - 1] < e[l - 1] + j /\ e[l - 1] + j <= e[l]
        /\ c[l][j] = piece[e[l - 1] + j]
    BY <1>8
  <2>3. e[k - 1] + i # e[l - 1] + j
    <3>1. CASE k < l
      <4>1. l - 1 \in 0 .. N /\ k \in 0 .. l - 1 /\ k \in 0 .. N
        BY <1>1, <3>1
      <4>2. e[k] <= e[l - 1] /\ e[k] \in 0 .. L /\ e[l - 1] \in 0 .. L
        BY <1>3, <1>6, <4>1
      <4> QED
        BY <1>1, <2>1, <2>2, <4>2, SMTT(30)
    <3>2. CASE l < k
      <4>1. k - 1 \in 0 .. N /\ l \in 0 .. k - 1 /\ l \in 0 .. N
        BY <1>1, <3>2
      <4>2. e[l] <= e[k - 1] /\ e[l] \in 0 .. L /\ e[k - 1] \in 0 .. L
        BY <1>3, <1>6, <4>1
      <4> QED
        BY <1>1, <2>1, <2>2, <4>2, SMTT(30)
    <3> QED
      BY <1>1, <3>1, <3>2
  <2> QED
    BY <2>1, <2>2, <2>3 DEF Once, L
<1> QED
  BY <1>7, <1>9, <1>10, <1>11, <1>12 DEF Packs, N

LEMMA EndsUnique ==
  ASSUME NEW sizes \in Seq(Nat), NEW e, EndsAre(e, sizes), NEW f, EndsAre(f, sizes)
  PROVE  \A m \in 0 .. Len(sizes) : e[m] = f[m]
<1> DEFINE N == Len(sizes)
           S == {m \in 0 .. N : e[m] = f[m]}
<1>1. N \in Nat
  BY LenProperties
<1>2. 0 \in S
  BY <1>1 DEF EndsAre
<1>3. ASSUME NEW m \in 1 .. N, m - 1 \in S PROVE m \in S
  <2>1. m \in 0 .. N
    BY <1>1
  <2> QED
    BY <1>3, <2>1 DEF EndsAre
<1>4. \A m \in 0 .. N : m \in S
  <2> HIDE DEF S
  <2> QED
    BY <1>1, <1>2, <1>3, UpTo
<1> QED
  BY <1>4

-----------------------------------------------------------------------------
(* The sizes of microbatches that keep to the limit.                        *)

\* The first n rows, whose padded lengths are l, are in microbatches.
CutSoFar(cut, e, n, l, limit) ==
    LET k == Len(cut.sizes)
    IN  /\ cut \in [sizes : Seq(Nat), widest : Nat]
        /\ k # 0 /\ EndsAre(e, cut.sizes) /\ e[k] = n
        /\ IF n = 0 THEN cut.sizes = <<0>> /\ cut.widest = 0
                    ELSE \A m \in 1 .. k : cut.sizes[m] # 0
        /\ cut.sizes[k] * cut.widest <= limit
        /\ \A j \in e[k - 1] + 1 .. n : l[j] <= cut.widest
        /\ \A m \in 1 .. k - 1 : \A j \in e[m - 1] + 1 .. e[m] : cut.sizes[m] * l[j] <= limit

LEMMA Times ==
  ASSUME NEW c \in Nat, NEW a \in Nat, NEW b \in Nat, a <= b
  PROVE  c * a \in Nat /\ c * b \in Nat /\ c * a <= c * b
OBVIOUS

TakeRow(cut, length, limit) ==
    LET widest == Max({cut.widest, length})
    IN  IF (Last(cut.sizes) + 1) * widest <= limit
        THEN [sizes |-> [cut.sizes EXCEPT ![Len(cut.sizes)] = @ + 1], widest |-> widest]
        ELSE [sizes |-> Append(cut.sizes, 1), widest |-> length]

LEMMA TakeTurn ==
  ASSUME NEW N \in Nat, NEW limit \in Nat, NEW l,
         \A j \in 1 .. N : l[j] \in Nat /\ l[j] <= limit,
         NEW n \in 1 .. N, NEW cut, NEW e, CutSoFar(cut, e, n - 1, l, limit)
  PROVE  \E f : CutSoFar(TakeRow(cut, l[n], limit), f, n, l, limit)
<1> DEFINE k == Len(cut.sizes)
           s == cut.sizes
           w == cut.widest
           widest == Max({w, l[n]})
           t == TakeRow(cut, l[n], limit)
<1>1. /\ s \in Seq(Nat) /\ w \in Nat /\ k \in Nat /\ k # 0
      /\ \A m \in 1 .. k : s[m] \in Nat
      /\ e[0] = 0 /\ \A m \in 0 .. k : e[m] \in Nat
      /\ \A m \in 1 .. k : e[m] = e[m - 1] + s[m]
      /\ e[k] = n - 1 /\ s[k] * w <= limit
      /\ \A j \in e[k - 1] + 1 .. n - 1 : l[j] <= w
      /\ \A m \in 1 .. k - 1 : \A j \in e[m - 1] + 1 .. e[m] : s[m] * l[j] <= limit
  BY ElementOfSeq, LenProperties DEF CutSoFar, EndsAre
<1>2. n - 1 \in Nat /\ n - 1 # n /\ n # 0 /\ l[n] \in Nat /\ l[n] <= limit /\ n \in Nat
  OBVIOUS
<1>3. widest \in Nat /\ widest >= w /\ widest >= l[n]
  <2>1. w \in Int /\ l[n] \in Int
    BY <1>1, <1>2
  <2> HIDE DEF w
  <2>2. Max({w, l[n]}) = IF w >= l[n] THEN w ELSE l[n]
    BY <2>1, MaxOfTwo
  <2> QED
    BY <1>1, <1>2, <2>2
<1>4. Last(s) = s[k] /\ s[k] \in Nat /\ k \in 1 .. k /\ k - 1 \in 0 .. k /\ k \in 0 .. k
  BY <1>1 DEF Last
<1>5. IF n - 1 = 0 THEN s = <<0>> /\ w = 0 ELSE \A m \in 1 .. k : s[m] # 0
  BY DEF CutSoFar
<1>6. t = IF (s[k] + 1) * widest <= limit
          THEN [sizes |-> [s EXCEPT ![k] = s[k] + 1], widest |-> widest]
          ELSE [sizes |-> Append(s, 1), widest |-> l[n]]
  BY <1>4 DEF TakeRow
<1> HIDE DEF k, s, w, widest, t
<1>7. CASE (s[k] + 1) * widest <= limit
  <2> DEFINE r == [s EXCEPT ![k] = s[k] + 1]
             f == [m \in 0 .. k |-> IF m = k THEN n ELSE e[m]]
  <2>1. t = [sizes |-> r, widest |-> widest]
    BY <1>6, <1>7
  <2>2. s[k] + 1 \in Nat /\ s[k] + 1 # 0
    BY <1>4
  <2>3. /\ r \in Seq(Nat) /\ Len(r) = k
        /\ \A m \in 1 .. k : r[m] = IF m = k THEN s[k] + 1 ELSE s[m]
    BY <1>1, <1>4, <2>2, ExceptSeq DEF k, s
  <2> HIDE DEF r
  <2>4. /\ \A m \in 0 .. k : f[m] = IF m = k THEN n ELSE e[m]
        /\ \A m \in 1 .. k : m \in 0 .. k /\ m - 1 \in 0 .. k /\ m - 1 # k
    BY <1>1
  <2> HIDE DEF f
  <2>5. EndsAre(f, r)
    <3>1. f[0] = 0
      <4>1. 0 \in 0 .. k /\ 0 # k
        BY <1>1
      <4> QED
        BY <1>1, <2>4, <4>1
    <3>2. \A m \in 0 .. k : f[m] \in Nat
      BY <1>1, <1>2, <2>4
    <3>3. ASSUME NEW m \in 1 .. k PROVE f[m] = f[m - 1] + r[m]
      <4>1. f[m - 1] = e[m - 1] /\ e[m - 1] \in Nat /\ s[m] \in Nat
            /\ e[m] = e[m - 1] + s[m]
        BY <1>1, <2>4
      <4>2. CASE m = k
        <5>1. f[k] = n /\ r[k] = s[k] + 1
          BY <1>4, <2>3, <2>4
        <5>2. n = e[k - 1] + (s[k] + 1)
          <6>1. n - 1 = e[k - 1] + s[k] /\ e[k - 1] \in Nat /\ s[k] \in Nat
            BY <1>1, <1>4, <4>1, <4>2
          <6> QED
            BY <1>2, <6>1
        <5> QED
          BY <4>1, <4>2, <5>1, <5>2
      <4>3. CASE m # k
        BY <2>3, <2>4, <4>1, <4>3
      <4> QED
        BY <4>2, <4>3
    <3> QED
      BY <2>3, <3>1, <3>2, <3>3 DEF EndsAre
  <2>6. f[k] = n
    BY <1>4, <2>4
  <2>7. \A m \in 1 .. k : r[m] # 0
    <3> SUFFICES ASSUME NEW m \in 1 .. k, m # k PROVE r[m] # 0
      BY <2>2, <2>3
    <3>1. n - 1 # 0
      <4> SUFFICES ASSUME n - 1 = 0 PROVE FALSE
        OBVIOUS
      <4>1. s = <<0>>
        BY <1>5
      <4>2. k = 1
        BY <4>1 DEF k, s
      <4> QED
        BY <4>2
    <3> QED
      BY <1>5, <2>3, <3>1
  <2>8. r[k] * widest <= limit
    BY <1>4, <1>7, <2>3
  <2>9. ASSUME NEW j \in f[k - 1] + 1 .. n PROVE l[j] <= widest
    <3>1. f[k - 1] = e[k - 1] /\ e[k - 1] \in Nat
      BY <1>1, <1>4, <2>4
    <3>2. CASE j = n
      BY <1>3, <3>2
    <3>3. CASE j # n
      <4>1. j \in e[k - 1] + 1 .. n - 1 /\ j \in 1 .. N
        BY <3>1, <3>3
      <4>2. l[j] <= w /\ l[j] \in Nat
        BY <1>1, <4>1
      <4> QED
        BY <1>1, <1>3, <4>2
    <3> QED
      BY <3>2, <3>3
  <2>10. ASSUME NEW m \in 1 .. k - 1, NEW j \in f[m - 1] + 1 .. f[m]
         PROVE  r[m] * l[j] <= limit
    <3>1. m \in 1 .. k /\ m # k
      BY <1>1
    <3>2. r[m] = s[m] /\ f[m] = e[m] /\ f[m - 1] = e[m - 1]
      BY <2>3, <2>4, <3>1
    <3>3. j \in e[m - 1] + 1 .. e[m]
      BY <3>2
    <3>4. s[m] * l[j] <= limit
      BY <1>1, <3>3
    <3> QED
      BY <3>2, <3>4
  <2>11. CutSoFar(t, f, n, l, limit)
    <3>1. t.sizes = r /\ t.widest = widest /\ t \in [sizes : Seq(Nat), widest : Nat]
      BY <1>3, <2>1, <2>3
    <3> QED
      BY <1>1, <1>2, <2>3, <2>5, <2>6, <2>7, <2>8, <2>9, <2>10, <3>1 DEF CutSoFar
  <2> QED
    BY <2>11 DEF t
<1>8. CASE ~((s[k] + 1) * widest <= limit)
  <2> DEFINE r == Append(s, 1)
             f == [m \in 0 .. (k + 1) |-> IF m = k + 1 THEN n ELSE e[m]]
  <2>1. t = [sizes |-> r, widest |-> l[n]]
    BY <1>6, <1>8
  <2>2. n - 1 # 0
    <3> SUFFICES ASSUME n - 1 = 0 PROVE FALSE
      OBVIOUS
    <3>1. s = <<0>> /\ w = 0
      BY <1>5
    <3>2. k = 1 /\ s[1] = 0
      BY <3>1 DEF k, s
    <3>3. widest = l[n]
      BY <1>2, <3>1, MaxOfTwo DEF widest
    <3>4. (s[k] + 1) * widest = l[n]
      BY <1>2, <3>2, <3>3
    <3> QED
      BY <1>2, <1>8, <3>4
  <2>3. /\ r \in Seq(Nat) /\ Len(r) = k + 1 /\ r[k + 1] = 1
        /\ \A m \in 1 .. k : r[m] = s[m]
    BY <1>1, AppendProperties DEF k, s
  <2> HIDE DEF r
  <2>4. /\ \A m \in 0 .. (k + 1) : f[m] = IF m = k + 1 THEN n ELSE e[m]
        /\ \A m \in 0 .. k : m \in 0 .. (k + 1) /\ m # k + 1
        /\ \A m \in 1 .. k : m \in 0 .. k /\ m - 1 \in 0 .. k
        /\ k + 1 \in 0 .. (k + 1) /\ k + 1 - 1 = k
        /\ \A m \in 1 .. (k + 1) : m # k + 1 => m \in 1 .. k
    BY <1>1
  <2> HIDE DEF f
  <2>5. f[k + 1] = n /\ f[(k + 1) - 1] = n - 1 /\ \A m \in 0 .. k : f[m] = e[m]
    <3>1. (k + 1) - 1 = k
      BY <1>1
    <3> QED
      BY <1>1, <1>4, <2>4, <3>1
  <2>6. EndsAre(f, r)
    <3>1. f[0] = 0
      BY <1>1, <1>4, <2>5
    <3>2. ASSUME NEW m \in 0 .. (k + 1) PROVE f[m] \in Nat
      <4>1. m = k + 1 \/ m \in 0 .. k
        BY <1>1
      <4> QED
        BY <1>1, <1>2, <2>5, <4>1
    <3>3. ASSUME NEW m \in 1 .. (k + 1) PROVE f[m] = f[m - 1] + r[m]
      <4>1. CASE m = k + 1
        BY <1>2, <2>3, <2>5, <4>1
      <4>2. CASE m # k + 1
        <5>1. m \in 1 .. k /\ m \in 0 .. k /\ m - 1 \in 0 .. k
          BY <2>4, <4>2
        <5> QED
          BY <1>1, <2>3, <2>5, <5>1
      <4> QED
        BY <4>1, <4>2
    <3> QED
      BY <2>3, <3>1, <3>2, <3>3 DEF EndsAre
  <2>7. \A m \in 1 .. (k + 1) : r[m] # 0
    <3>1. \A m \in 1 .. k : s[m] # 0
      BY <1>5, <2>2
    <3> QED
      BY <2>3, <2>4, <3>1
  <2>8. r[k + 1] * l[n] <= limit
    BY <1>2, <2>3
  <2>9. \A j \in f[(k + 1) - 1] + 1 .. n : l[j] <= l[n]
    <3>1. \A j \in (n - 1) + 1 .. n : j = n
      OBVIOUS
    <3> QED
      BY <1>2, <2>5, <3>1
  <2>10. ASSUME NEW m \in 1 .. (k + 1) - 1, NEW j \in f[m - 1] + 1 .. f[m]
         PROVE  r[m] * l[j] <= limit
    <3>1. m \in 1 .. k /\ m \in 0 .. k /\ m - 1 \in 0 .. k
      BY <1>1, <2>4
    <3>2. r[m] = s[m] /\ j \in e[m - 1] + 1 .. e[m]
      BY <2>3, <2>5, <3>1
    <3>3. CASE m # k
      <4>1. m \in 1 .. k - 1
        BY <1>1, <3>1, <3>3
      <4> QED
        BY <1>1, <3>2, <4>1
    <3>4. CASE m = k
      <4>1. j \in e[k - 1] + 1 .. n - 1 /\ e[k - 1] \in Nat
        BY <1>1, <1>4, <3>2, <3>4
      <4>2. l[j] <= w
        BY <1>1, <4>1
      <4>3. j \in 1 .. N
        BY <4>1
      <4>4. l[j] \in Nat
        BY <4>3
      <4>5. s[k] * l[j] \in Nat /\ s[k] * w \in Nat /\ s[k] * l[j] <= s[k] * w
        BY <1>1, <1>4, <4>2, <4>4, Times
      <4> DEFINE a == s[k] * l[j]
                 b == s[k] * w
      <4>6. a \in Nat /\ b \in Nat /\ a <= b /\ b <= limit
        BY <1>1, <4>5
      <4> HIDE DEF a, b
      <4>7. a <= limit
        BY <4>6
      <4> QED
        BY <3>2, <3>4, <4>7 DEF a
    <3> QED
      BY <3>3, <3>4
  <2>11. CutSoFar(t, f, n, l, limit)
    <3>1. t.sizes = r /\ t.widest = l[n] /\ t \in [sizes : Seq(Nat), widest : Nat]
      BY <1>2, <2>1, <2>3
    <3>2. Len(r) # 0
      BY <1>1, <2>3
    <3> QED
      BY <1>2, <2>3, <2>5, <2>6, <2>7, <2>8, <2>9, <2>10, <3>1, <3>2 DEF CutSoFar
  <2> QED
    BY <2>11 DEF t
<1> QED
  BY <1>7, <1>8

LEMMA RoundUpIs ==
  ASSUME NEW n \in Nat, NEW m \in Nat \ {0}
  PROVE  RoundUp(n, m) \in Nat /\ n <= RoundUp(n, m)
<1>1. PICK t \in Nat : (n + m - 1) \div m = t /\ n <= m * t
  BY LeastMultiple
<1>2. RoundUp(n, m) = t * m
  BY <1>1 DEF RoundUp
<1>3. t * m = m * t /\ t * m \in Nat
  OBVIOUS
<1> DEFINE p == t * m
<1>4. p \in Nat /\ n <= p
  BY <1>1, <1>3
<1> HIDE DEF p
<1> QED
  BY <1>2, <1>4 DEF p

\* The lengths of a batch that can be sharded.
Rounded(lens, round, limit) ==
    /\ lens \in Seq(Nat) /\ limit \in Nat /\ round \in Nat \ {0}
    /\ \A i \in DOMAIN lens : RoundUp(lens[i], round) <= limit

LEMMA RoundedIs ==
  ASSUME NEW lens, NEW round, NEW limit, Rounded(lens, round, limit)
  PROVE  /\ DOMAIN lens = 1 .. Len(lens) /\ Len(lens) \in Nat
         /\ \A i \in DOMAIN lens : lens[i] \in 0 .. limit /\ lens[i] \in Nat
<1>1. DOMAIN lens = 1 .. Len(lens) /\ Len(lens) \in Nat
      /\ \A i \in DOMAIN lens : lens[i] \in Nat
  BY ElementOfSeq, LenProperties DEF Rounded
<1>2. ASSUME NEW i \in DOMAIN lens PROVE lens[i] \in 0 .. limit
  <2>1. lens[i] \in Nat /\ round \in Nat \ {0} /\ limit \in Nat
        /\ RoundUp(lens[i], round) <= limit
    BY <1>1 DEF Rounded
  <2>2. RoundUp(lens[i], round) \in Nat /\ lens[i] <= RoundUp(lens[i], round)
    BY <2>1, RoundUpIs
  <2> QED
    BY <2>1, <2>2
<1> QED
  BY <1>1, <1>2

LEMMA PaddedLengthIs ==
  ASSUME NEW lens, NEW round, NEW limit, Rounded(lens, round, limit),
         NEW pieces, NEW n, DOMAIN pieces # {},
         \A k \in DOMAIN pieces : pieces[k][n] \in DOMAIN lens
  PROVE  /\ PaddedLength(pieces, n, lens, round) \in Nat
         /\ PaddedLength(pieces, n, lens, round) <= limit
         /\ \A k \in DOMAIN pieces :
                lens[pieces[k][n]] <= PaddedLength(pieces, n, lens, round)
<1> DEFINE S == {lens[pieces[k][n]] : k \in DOMAIN pieces}
           T == {lens[i] : i \in DOMAIN lens}
           a == Max(S)
           b == Max(T)
<1>1. \A i \in DOMAIN lens : lens[i] \in 0 .. limit /\ lens[i] \in Nat
  BY RoundedIs
<1>2. limit \in Nat /\ round \in Nat \ {0}
  BY DEF Rounded
<1>3. S \in SUBSET T /\ T \in SUBSET (0 .. limit) /\ S \in SUBSET (0 .. limit) /\ S # {} /\ T # {}
  BY <1>1
<1>4. /\ a \in S /\ \A y \in S : y <= a
      /\ b \in T /\ \A y \in T : y <= b
  <2> HIDE DEF S, T
  <2> QED
    BY <1>2, <1>3, MaxIs
<1>5. PICK i \in DOMAIN lens : a = lens[i]
  BY <1>3, <1>4
<1>6. RoundUp(a, round) <= limit /\ a \in Nat /\ b \in Nat
  BY <1>1, <1>3, <1>4, <1>5 DEF Rounded
<1>7. \A k \in DOMAIN pieces : lens[pieces[k][n]] \in S
  OBVIOUS
<1>8. PaddedLength(pieces, n, lens, round) = Min({RoundUp(a, round), b})
  BY Zenon DEF PaddedLength, a, b, S, T
<1> HIDE DEF a, b, S, T
<1>9. RoundUp(a, round) \in Nat /\ a <= RoundUp(a, round)
  BY <1>2, <1>6, RoundUpIs
<1> DEFINE r == RoundUp(a, round)
<1>10. r \in Nat /\ a <= r /\ r <= limit
  BY <1>6, <1>9
<1> HIDE DEF r
<1>11. Min({r, b}) = IF r <= b THEN r ELSE b
  BY <1>6, <1>10, MinOfTwo
<1> DEFINE p == Min({r, b})
<1>12. p \in Nat /\ p <= limit /\ (p = r \/ p = b)
  BY <1>2, <1>6, <1>10, <1>11
<1> HIDE DEF p
<1>13. ASSUME NEW k \in DOMAIN pieces PROVE lens[pieces[k][n]] <= p
  <2>1. lens[pieces[k][n]] \in Nat /\ lens[pieces[k][n]] \in S /\ lens[pieces[k][n]] \in T
    BY <1>1, <1>3, <1>7
  <2>2. lens[pieces[k][n]] <= a /\ lens[pieces[k][n]] <= b
    BY <1>4, <2>1
  <2> QED
    BY <1>6, <1>10, <1>12, <2>1, <2>2
<1> QED
  BY <1>8, <1>12, <1>13 DEF p, r

RowsTaken(pieces, lens, round, maxTokens) ==
    CHOOSE taken : taken = [n \in 0 .. Len(pieces[1]) |->
        IF n = 0 THEN [sizes |-> <<0>>, widest |-> 0]
        ELSE TakeRow(taken[n - 1], PaddedLength(pieces, n, lens, round), maxTokens)]

LEMMA SizesKeepLimit ==
  ASSUME NEW pieces, Len(pieces[1]) \in Nat \ {0}, NEW lens, NEW round,
         NEW limit \in Nat,
         \A j \in 1 .. Len(pieces[1]) :
             /\ PaddedLength(pieces, j, lens, round) \in Nat
             /\ PaddedLength(pieces, j, lens, round) <= limit,
         NEW sizes, sizes = MicroBatchSizes(pieces, lens, round, limit)
  PROVE  /\ sizes \in Seq(Nat) /\ Ends(sizes)[Len(sizes)] = Len(pieces[1])
         /\ \A m \in 1 .. Len(sizes) : sizes[m] # 0
         /\ \A m \in 1 .. Len(sizes) : \A j \in Ends(sizes)[m - 1] + 1 .. Ends(sizes)[m] :
                sizes[m] * PaddedLength(pieces, j, lens, round) <= limit
<1> DEFINE N == Len(pieces[1])
           l == [j \in 1 .. N |-> PaddedLength(pieces, j, lens, round)]
           first == [sizes |-> <<0>>, widest |-> 0]
           Good(cut, n) == \E e : CutSoFar(cut, e, n, l, limit)
           Turn(cut, n) == TakeRow(cut, l[n], limit)
           Cuts == [sizes : Seq(Nat), widest : Nat]
           W == [n \in 0 .. N |-> {v \in Cuts : Good(v, n)}]
           turn == [p \in (1 .. N) \X Cuts |-> Turn(p[2], p[1])]
<1>1. N \in Nat /\ N # 0
  OBVIOUS
<1>2. \A j \in 1 .. N : /\ l[j] = PaddedLength(pieces, j, lens, round)
                        /\ l[j] \in Nat /\ l[j] <= limit
  OBVIOUS
<1> HIDE DEF N, l
<1>3. ASSUME NEW n \in 1 .. N, NEW v, Good(v, n - 1) PROVE Good(Turn(v, n), n)
  <2>1. PICK e : CutSoFar(v, e, n - 1, l, limit)
    BY <1>3
  <2> QED
    BY <1>1, <1>2, <2>1, TakeTurn
<1>4. Good(first, 0)
  <2> DEFINE e == [m \in 0 .. 1 |-> 0]
             s == <<0>>
  <2>1. first.sizes = s /\ first.widest = 0 /\ s \in Seq(Nat) /\ Len(s) = 1 /\ s[1] = 0
    OBVIOUS
  <2>2. e[0] = 0 /\ e[1] = 0 /\ \A m \in 0 .. 1 : e[m] \in Nat
    OBVIOUS
  <2>3. s = <<0>> /\ first \in Cuts
    BY <2>1
  <2> HIDE DEF e, s, first
  <2>4. EndsAre(e, s)
    <3>1. \A m \in 1 .. 1 : m = 1 /\ m - 1 = 0
      OBVIOUS
    <3> QED
      BY <2>1, <2>2, <3>1 DEF EndsAre
  <2>5. CutSoFar(first, e, 0, l, limit)
    <3>1. 0 * 0 <= limit /\ 1 - 1 = 0
      OBVIOUS
    <3>2. \A j \in 0 + 1 .. 0 : FALSE
      OBVIOUS
    <3>3. \A m \in 1 .. 0 : FALSE
      OBVIOUS
    <3> QED
      BY <2>1, <2>2, <2>3, <2>4, <3>1, <3>2, <3>3 DEF CutSoFar
  <2> QED
    BY <2>5
<1>a. \A v, n : Good(v, n) => v \in Cuts
  BY DEF CutSoFar
<1>b. first = [sizes |-> <<0>>, widest |-> 0]
  OBVIOUS
<1>c. \A v, n, e : CutSoFar(v, e, n, l, limit) => Good(v, n)
  OBVIOUS
<1>d. \A v, n : Good(v, n) => \E e : CutSoFar(v, e, n, l, limit)
  OBVIOUS
<1> HIDE DEF Good, Turn, first, Cuts
<1>5. ASSUME NEW n \in 1 .. N, NEW v \in W[n - 1]
      PROVE  turn[<<n, v>>] \in W[n] /\ turn[<<n, v>>] = Turn(v, n)
  <2>1. n - 1 \in 0 .. N /\ n \in 0 .. N
    BY <1>1
  <2>2. v \in Cuts /\ Good(v, n - 1)
    BY <2>1
  <2>3. Good(Turn(v, n), n)
    BY <1>3, <2>2
  <2>4. turn[<<n, v>>] = Turn(v, n)
    BY <2>2
  <2>5. Turn(v, n) \in W[n]
    BY <1>a, <2>1, <2>3
  <2> HIDE DEF turn, W
  <2> QED
    BY <2>4, <2>5
<1>6. first \in W[0]
  <2>1. 0 \in 0 .. N
    BY <1>1
  <2> QED
    BY <1>a, <1>4, <2>1
<1> HIDE DEF W, turn
<1>7. PICK g : Runs(N, g, first, turn, W)
  <2>1. \A n \in 1 .. N : \A v \in W[n - 1] : turn[<<n, v>>] \in W[n]
    BY <1>5
  <2> QED
    BY <1>1, <1>6, <2>1, Iterates
<1>8. g = [n \in 0 .. N |-> IF n = 0 THEN first ELSE Turn(g[n - 1], n)]
  <2>1. ASSUME NEW n \in 0 .. N, n # 0 PROVE turn[<<n, g[n - 1]>>] = Turn(g[n - 1], n)
    <3>1. n \in 1 .. N /\ n - 1 \in 0 .. N
      BY <1>1, <2>1
    <3>2. g[n - 1] \in W[n - 1]
      BY <1>7, <3>1 DEF Runs
    <3> QED
      BY <1>5, <3>1, <3>2
  <2>2. g = [n \in 0 .. N |-> IF n = 0 THEN first ELSE turn[<<n, g[n - 1]>>]]
    BY <1>7 DEF Runs
  <2> QED
    BY <2>1, <2>2
<1> DEFINE f == RowsTaken(pieces, lens, round, limit)
<1>e. g = [n \in 0 .. N |->
            IF n = 0 THEN first
            ELSE TakeRow(g[n - 1], PaddedLength(pieces, n, lens, round), limit)]
  <2>1. ASSUME NEW n \in 0 .. N, n # 0
        PROVE  Turn(g[n - 1], n)
                   = TakeRow(g[n - 1], PaddedLength(pieces, n, lens, round), limit)
    <3>1. n \in 1 .. N
      BY <1>1, <2>1
    <3>2. l[n] = PaddedLength(pieces, n, lens, round)
      BY <1>2, <3>1
    <3> QED
      BY <3>2, Zenon DEF Turn
  <2> QED
    BY <1>8, <2>1
<1>f. f = [n \in 0 .. N |->
            IF n = 0 THEN first
            ELSE TakeRow(f[n - 1], PaddedLength(pieces, n, lens, round), limit)]
  BY <1>e, Zenon DEF RowsTaken, N, first
<1>9. \A n \in 1 .. N : f[n] = Turn(f[n - 1], n)
  <2> HIDE DEF f
  <2> SUFFICES ASSUME NEW n \in 1 .. N PROVE f[n] = Turn(f[n - 1], n)
    OBVIOUS
  <2>1. n \in 0 .. N /\ n # 0
    BY <1>1
  <2>2. f[n] = TakeRow(f[n - 1], PaddedLength(pieces, n, lens, round), limit)
    BY <1>f, <2>1
  <2>3. l[n] = PaddedLength(pieces, n, lens, round)
    BY <1>2
  <2> QED
    BY <2>2, <2>3, Zenon DEF Turn
<1>10. sizes = f[N].sizes
  BY Zenon DEF MicroBatchSizes, RowsTaken, TakeRow, N
<1> HIDE DEF f
<1> DEFINE S == {n \in 0 .. N : Good(f[n], n)}
<1>11. 0 \in S
  <2>1. f[0] = first /\ 0 \in 0 .. N
    BY <1>1, <1>f
  <2> QED
    BY <1>4, <2>1
<1>12. ASSUME NEW n \in 1 .. N, n - 1 \in S PROVE n \in S
  <2>1. n \in 0 .. N
    BY <1>1
  <2>2. Good(f[n], n)
    BY <1>3, <1>9, <1>12
  <2> QED
    BY <2>1, <2>2
<1>13. \A n \in 0 .. N : n \in S
  <2> HIDE DEF S
  <2> QED
    BY <1>1, <1>11, <1>12, UpTo
<1>14. PICK e : CutSoFar(f[N], e, N, l, limit)
  BY <1>1, <1>13, <1>d
<1> DEFINE k == Len(sizes)
<1>15. /\ sizes \in Seq(Nat) /\ k # 0 /\ EndsAre(e, sizes) /\ e[k] = N
       /\ \A m \in 1 .. k : sizes[m] # 0
       /\ sizes[k] * f[N].widest <= limit /\ f[N].widest \in Nat
       /\ \A j \in e[k - 1] + 1 .. N : l[j] <= f[N].widest
       /\ \A m \in 1 .. k - 1 : \A j \in e[m - 1] + 1 .. e[m] : sizes[m] * l[j] <= limit
  BY <1>1, <1>10, <1>14 DEF CutSoFar
<1>16. /\ k \in Nat /\ \A m \in 1 .. k : sizes[m] \in Nat
       /\ EndsAre(Ends(sizes), sizes)
  BY <1>15, ElementOfSeq, LenProperties, EndsExist
<1>17. \A m \in 0 .. k : Ends(sizes)[m] = e[m]
  BY <1>15, <1>16, EndsUnique
<1>18. /\ \A m \in 0 .. k : e[m] \in Nat /\ e[m] <= N
  <2>1. \A m \in 0 .. k : e[m] <= e[k] /\ e[m] \in Nat
    <3>1. k \in 0 .. k
      BY <1>16
    <3> QED
      BY <1>15, <3>1, EndsGrow DEF EndsAre
  <2> QED
    BY <1>15, <2>1
<1>19. ASSUME NEW m \in 1 .. k, NEW j \in e[m - 1] + 1 .. e[m]
       PROVE  sizes[m] * l[j] <= limit
  <2>1. m - 1 \in 0 .. k /\ m \in 0 .. k
    BY <1>16
  <2>2. CASE m # k
    <3>1. m \in 1 .. k - 1
      BY <1>16, <2>2
    <3> QED
      BY <1>15, <3>1
  <2>3. CASE m = k
    <3>a. e[m - 1] \in Nat /\ e[m] = N
      BY <1>15, <1>18, <2>1, <2>3
    <3>b. j \in e[m - 1] + 1 .. N
      BY <3>a
    <3>1. j \in e[k - 1] + 1 .. N /\ j \in 1 .. N
      BY <1>1, <2>3, <3>a, <3>b
    <3>2. l[j] <= f[N].widest /\ l[j] \in Nat
      BY <1>2, <1>15, <3>1
    <3> DEFINE a == sizes[m] * l[j]
               b == sizes[m] * f[N].widest
    <3>3. a \in Nat /\ b \in Nat /\ a <= b
      BY <1>15, <1>16, <3>2, Times
    <3>4. b <= limit
      BY <1>15, <2>3
    <3> HIDE DEF a, b
    <3>5. a <= limit
      BY <3>3, <3>4
    <3> QED
      BY <3>5 DEF a
  <2> QED
    BY <2>2, <2>3
<1>20. ASSUME NEW m \in 1 .. k, NEW j \in Ends(sizes)[m - 1] + 1 .. Ends(sizes)[m]
       PROVE  sizes[m] * PaddedLength(pieces, j, lens, round) <= limit
  <2>1. m - 1 \in 0 .. k /\ m \in 0 .. k
    BY <1>16
  <2>2. j \in e[m - 1] + 1 .. e[m] /\ j \in 1 .. N
    <3>1. e[m - 1] \in Nat /\ e[m] \in Nat /\ e[m] <= N
      BY <1>18, <2>1
    <3>2. j \in e[m - 1] + 1 .. e[m]
      BY <1>17, <2>1
    <3> QED
      BY <1>1, <3>1, <3>2
  <2>3. l[j] = PaddedLength(pieces, j, lens, round)
    BY <1>2, <2>2
  <2> QED
    BY <1>19, <2>2, <2>3
<1>21. Ends(sizes)[k] = N
  BY <1>15, <1>16, <1>17
<1> QED
  BY <1>15, <1>20, <1>21 DEF N

-----------------------------------------------------------------------------
(* What a chunk is dealt into.                                              *)

\* Products, named so that a proof multiplies only where it means to.
Area(w, h) == w * h

Cell(a, w, b) == (a - 1) * w + b

LEMMA Cells ==
  ASSUME NEW w \in Nat \ {0}, NEW h \in Nat
  PROVE  /\ Area(w, h) \in Nat
         /\ \A a \in 1 .. h : \A b \in 1 .. w : Cell(a, w, b) \in 1 .. Area(w, h)
         /\ \A a, c \in 1 .. h : \A b, d \in 1 .. w :
                Cell(a, w, b) = Cell(c, w, d) => a = c /\ b = d
         /\ \A x \in 1 .. Area(w, h) : \E a \in 1 .. h : \E b \in 1 .. w : x = Cell(a, w, b)
<1>1. /\ w * h \in Nat
      /\ \A a \in 1 .. h, b \in 1 .. w : (a - 1) * w + b \in 1 .. w * h
      /\ \A a, c \in 1 .. h, b, d \in 1 .. w :
             (a - 1) * w + b = (c - 1) * w + d => a = c /\ b = d
      /\ \A x \in 1 .. w * h : \E a \in 1 .. h, b \in 1 .. w : x = (a - 1) * w + b
  BY Grid
<1> QED
  BY <1>1, Zenon DEF Cell, Area

LEMMA CellsApart ==
  ASSUME NEW w \in Nat \ {0}, NEW h \in Nat, NEW a \in 1 .. h, NEW c \in 1 .. h,
         NEW b \in 1 .. w, NEW d \in 1 .. w, Cell(a, w, b) = Cell(c, w, d)
  PROVE  a = c /\ b = d
<1>1. /\ Area(w, h) \in Nat
      /\ \A i, j \in 1 .. h : \A k, l \in 1 .. w :
             Cell(i, w, k) = Cell(j, w, l) => i = j /\ k = l
  BY Cells
<1> QED
  BY <1>1

\* The rows of a chunk, as many to each shard.
Hands(hands, shards, size, J) ==
    /\ \A k \in 1 .. shards : hands[k] \in Seq(J) /\ Len(hands[k]) = size /\ Once(hands[k])
    /\ \A k, l \in 1 .. shards : k # l =>
           \A x : ~(MemberOf(hands[k], x) /\ MemberOf(hands[l], x))
    /\ \A x \in J : \E k \in 1 .. shards : MemberOf(hands[k], x)

\* The microbatches of a chunk, as many to each shard.
Deals(parts, shards, G, J) ==
    /\ \A k \in 1 .. shards :
           parts[k] \in Seq(G) /\ Apart(parts[k]) /\ Len(parts[k]) = Len(parts[1])
    /\ \A k \in 1 .. shards : \A x : Held(parts[k], x) => x \in J
    /\ \A k, l \in 1 .. shards : k # l => \A x : ~(Held(parts[k], x) /\ Held(parts[l], x))
    /\ \A x \in J : \E k \in 1 .. shards : Held(parts[k], x)

LEMMA CutHands ==
  ASSUME NEW shards \in Nat \ {0}, NEW size, NEW J, NEW hands,
         Hands(hands, shards, size, J),
         NEW sizes \in Seq(Nat), Ends(sizes)[Len(sizes)] = size, NEW G,
         \A k \in 1 .. shards : \A m \in 1 .. Len(sizes) :
             SubSeq(hands[k], Ends(sizes)[m - 1] + 1, Ends(sizes)[m]) \in G,
         NEW parts, \A k \in 1 .. shards : parts[k] = Cut(hands[k], sizes)
  PROVE  Deals(parts, shards, G, J)
<1> DEFINE I(k) == {x \in J : MemberOf(hands[k], x)}
<1>1. ASSUME NEW k \in 1 .. shards
      PROVE  Packs(parts[k], G, I(k)) /\ Len(parts[k]) = Len(sizes)
  <2> DEFINE piece == hands[k]
  <2>1. piece \in Seq(J) /\ Len(piece) = size /\ Once(piece)
    BY DEF Hands
  <2>2. Contents(piece, I(k))
    <3>1. \A i \in 1 .. Len(piece) : piece[i] \in J
      BY <2>1, ElementOfSeq
    <3> QED
      BY <3>1 DEF Contents, MemberOf
  <2>3. \A m \in 1 .. Len(sizes) :
            SubSeq(piece, Ends(sizes)[m - 1] + 1, Ends(sizes)[m]) \in G
    OBVIOUS
  <2>4. parts[k] = Cut(piece, sizes)
    OBVIOUS
  <2> HIDE DEF piece, I
  <2>5. Packs(Cut(piece, sizes), G, I(k)) /\ Len(Cut(piece, sizes)) = Len(sizes)
    BY <2>1, <2>2, <2>3, CutPacks
  <2> QED
    BY <2>4, <2>5, Zenon
<1>2. \A k \in 1 .. shards : \A x : Held(parts[k], x) <=> x \in J /\ MemberOf(hands[k], x)
  BY <1>1 DEF Packs
<1>3. 1 \in 1 .. shards
  OBVIOUS
<1>4. \A k \in 1 .. shards :
          parts[k] \in Seq(G) /\ Apart(parts[k]) /\ Len(parts[k]) = Len(parts[1])
  BY <1>1, <1>3 DEF Packs
<1>5. \A k, l \in 1 .. shards : k # l => \A x : ~(Held(parts[k], x) /\ Held(parts[l], x))
  BY <1>2 DEF Hands
<1>6. \A x \in J : \E k \in 1 .. shards : Held(parts[k], x)
  BY <1>2 DEF Hands
<1> QED
  BY <1>2, <1>4, <1>5, <1>6 DEF Deals

\* at has the places of the shards' rows in s.
Places(at, shards, size, s, hands, J) ==
    /\ \A k \in 1 .. shards : \A n \in 1 .. size : at[k][n] \in 1 .. Len(s)
    /\ \A k, l \in 1 .. shards : \A n, p \in 1 .. size :
           at[k][n] = at[l][p] => k = l /\ n = p
    /\ \A i \in 1 .. Len(s) : \E k \in 1 .. shards : \E n \in 1 .. size : i = at[k][n]
    /\ \A k \in 1 .. shards : hands[k] \in Seq(J) /\ Len(hands[k]) = size
    /\ \A k \in 1 .. shards : \A n \in 1 .. size : hands[k][n] = s[at[k][n]]

LEMMA HandsAt ==
  ASSUME NEW J, NEW s \in Seq(J), Once(s), Contents(s, J),
         NEW shards, NEW size, NEW at, NEW hands,
         Places(at, shards, size, s, hands, J)
  PROVE  Hands(hands, shards, size, J)
<1>a. /\ \A k \in 1 .. shards : \A n \in 1 .. size : at[k][n] \in 1 .. Len(s)
      /\ \A k, l \in 1 .. shards : \A n, p \in 1 .. size :
             at[k][n] = at[l][p] => k = l /\ n = p
      /\ \A i \in 1 .. Len(s) : \E k \in 1 .. shards : \E n \in 1 .. size : i = at[k][n]
      /\ \A k \in 1 .. shards : hands[k] \in Seq(J) /\ Len(hands[k]) = size
      /\ \A k \in 1 .. shards : \A n \in 1 .. size : hands[k][n] = s[at[k][n]]
  BY DEF Places
<1>1. ASSUME NEW k \in 1 .. shards PROVE Once(hands[k])
  <2> SUFFICES ASSUME NEW i \in 1 .. size, NEW j \in 1 .. size, hands[k][i] = hands[k][j]
               PROVE  i = j
    BY <1>a DEF Once
  <2>1. s[at[k][i]] = s[at[k][j]]
    BY <1>a
  <2>2. at[k][i] = at[k][j]
    BY <1>a, <2>1, SMTT(30) DEF Once
  <2> QED
    BY <1>a, <2>2
<1>2. ASSUME NEW k \in 1 .. shards, NEW l \in 1 .. shards, k # l, NEW x,
             MemberOf(hands[k], x), MemberOf(hands[l], x)
      PROVE  FALSE
  <2>1. PICK i \in 1 .. size : hands[k][i] = x
    BY <1>2, <1>a DEF MemberOf
  <2>2. PICK j \in 1 .. size : hands[l][j] = x
    BY <1>2, <1>a DEF MemberOf
  <2>3. s[at[k][i]] = s[at[l][j]]
    BY <1>a, <2>1, <2>2
  <2>4. at[k][i] = at[l][j]
    BY <1>a, <2>3, SMTT(30) DEF Once
  <2> QED
    BY <1>2, <1>a, <2>4
<1>3. ASSUME NEW x \in J PROVE \E k \in 1 .. shards : MemberOf(hands[k], x)
  <2>1. PICK i \in 1 .. Len(s) : s[i] = x
    BY DEF Contents, MemberOf
  <2>2. PICK k \in 1 .. shards : \E n \in 1 .. size : i = at[k][n]
    BY <1>a
  <2>3. PICK n \in 1 .. size : i = at[k][n]
    BY <2>2
  <2>4. hands[k][n] = x /\ n \in 1 .. Len(hands[k])
    BY <1>a, <2>1, <2>3
  <2> QED
    BY <2>4 DEF MemberOf
<1> QED
  BY <1>1, <1>2, <1>3, <1>a DEF Hands

\* Dealt in turn.
LEMMA DealtHands ==
  ASSUME NEW J, NEW s \in Seq(J), Once(s), Contents(s, J),
         NEW shards \in Nat \ {0}, NEW size \in Nat, Len(s) = Area(shards, size),
         NEW hands,
         \A k \in 1 .. shards : hands[k] = [n \in 1 .. size |-> s[Cell(n, shards, k)]]
  PROVE  Hands(hands, shards, size, J)
<1>g. /\ \A a \in 1 .. size : \A b \in 1 .. shards : Cell(a, shards, b) \in 1 .. Len(s)
      /\ \A a, c \in 1 .. size : \A b, d \in 1 .. shards :
             Cell(a, shards, b) = Cell(c, shards, d) => a = c /\ b = d
      /\ \A x \in 1 .. Len(s) : \E a \in 1 .. size : \E b \in 1 .. shards : x = Cell(a, shards, b)
  <2>1. /\ \A a \in 1 .. size : \A b \in 1 .. shards : Cell(a, shards, b) \in 1 .. Area(shards, size)
        /\ \A a, c \in 1 .. size : \A b, d \in 1 .. shards :
               Cell(a, shards, b) = Cell(c, shards, d) => a = c /\ b = d
        /\ \A x \in 1 .. Area(shards, size) : \E a \in 1 .. size : \E b \in 1 .. shards : x = Cell(a, shards, b)
    BY Cells
  <2>2. Len(s) = Area(shards, size)
    OBVIOUS
  <2> QED
    BY <2>1, <2>2, Zenon
<1> DEFINE at == [k \in 1 .. shards |-> [n \in 1 .. size |-> Cell(n, shards, k)]]
<1>1. \A k \in 1 .. shards : \A n \in 1 .. size : at[k][n] = Cell(n, shards, k)
  OBVIOUS
<1> HIDE DEF at
<1>2. \A k \in 1 .. shards : \A n \in 1 .. size : at[k][n] \in 1 .. Len(s)
  <2> SUFFICES ASSUME NEW k \in 1 .. shards, NEW n \in 1 .. size
               PROVE  at[k][n] \in 1 .. Len(s)
    OBVIOUS
  <2>1. at[k][n] = Cell(n, shards, k)
    BY <1>1, Zenon
  <2>2. Cell(n, shards, k) \in 1 .. Len(s)
    BY <1>g, Zenon
  <2> QED
    BY <2>1, <2>2, Zenon
<1>3. ASSUME NEW k \in 1 .. shards, NEW l \in 1 .. shards,
             NEW n \in 1 .. size, NEW p \in 1 .. size, at[k][n] = at[l][p]
      PROVE  k = l /\ n = p
  <2>1. Cell(n, shards, k) = Cell(p, shards, l)
    BY <1>1, <1>3, Zenon
  <2> QED
    BY <2>1, CellsApart
<1>4. ASSUME NEW i \in 1 .. Len(s)
      PROVE  \E k \in 1 .. shards : \E n \in 1 .. size : i = at[k][n]
  <2>2. PICK n \in 1 .. size : \E k \in 1 .. shards : i = Cell(n, shards, k)
    BY <1>g
  <2>3. PICK k \in 1 .. shards : i = Cell(n, shards, k)
    BY <2>2
  <2> QED
    BY <1>1, <2>3, Zenon
<1>5. ASSUME NEW k \in 1 .. shards
      PROVE  /\ hands[k] \in Seq(J) /\ Len(hands[k]) = size
             /\ \A n \in 1 .. size : hands[k][n] = s[at[k][n]]
  <2>1. hands[k] = [n \in 1 .. size |-> s[at[k][n]]]
    BY <1>1
  <2>2. \A n \in 1 .. size : s[at[k][n]] \in J
    BY <1>2, ElementOfSeq
  <2> QED
    BY <2>1, <2>2
<1>6. \A k, l \in 1 .. shards : \A n, p \in 1 .. size :
          at[k][n] = at[l][p] => k = l /\ n = p
  BY <1>3
<1>7. \A i \in 1 .. Len(s) : \E k \in 1 .. shards : \E n \in 1 .. size : i = at[k][n]
  BY <1>4
<1>9. /\ \A k \in 1 .. shards : hands[k] \in Seq(J) /\ Len(hands[k]) = size
      /\ \A k \in 1 .. shards : \A n \in 1 .. size : hands[k][n] = s[at[k][n]]
  BY <1>5, Zenon
<1>8. Places(at, shards, size, s, hands, J)
  BY <1>2, <1>6, <1>7, <1>9 DEF Places
<1> QED
  BY <1>8, HandsAt

\* A slice each.
LEMMA SlicedHands ==
  ASSUME NEW J, NEW s \in Seq(J), Once(s), Contents(s, J),
         NEW shards \in Nat, NEW size \in Nat \ {0}, Len(s) = Area(size, shards),
         NEW hands,
         \A k \in 1 .. shards : hands[k] \in Seq(J) /\ Len(hands[k]) = size,
         \A k \in 1 .. shards : \A n \in 1 .. size : hands[k][n] = s[Cell(k, size, n)]
  PROVE  Hands(hands, shards, size, J)
<1>g. /\ \A a \in 1 .. shards : \A b \in 1 .. size : Cell(a, size, b) \in 1 .. Len(s)
      /\ \A a, c \in 1 .. shards : \A b, d \in 1 .. size :
             Cell(a, size, b) = Cell(c, size, d) => a = c /\ b = d
      /\ \A x \in 1 .. Len(s) : \E a \in 1 .. shards : \E b \in 1 .. size : x = Cell(a, size, b)
  <2>1. /\ \A a \in 1 .. shards : \A b \in 1 .. size : Cell(a, size, b) \in 1 .. Area(size, shards)
        /\ \A a, c \in 1 .. shards : \A b, d \in 1 .. size :
               Cell(a, size, b) = Cell(c, size, d) => a = c /\ b = d
        /\ \A x \in 1 .. Area(size, shards) : \E a \in 1 .. shards : \E b \in 1 .. size : x = Cell(a, size, b)
    BY Cells
  <2>2. Len(s) = Area(size, shards)
    OBVIOUS
  <2> QED
    BY <2>1, <2>2, Zenon
<1> DEFINE at == [k \in 1 .. shards |-> [n \in 1 .. size |-> Cell(k, size, n)]]
<1>1. \A k \in 1 .. shards : \A n \in 1 .. size : at[k][n] = Cell(k, size, n)
  OBVIOUS
<1> HIDE DEF at
<1>2. \A k \in 1 .. shards : \A n \in 1 .. size : at[k][n] \in 1 .. Len(s)
  <2> SUFFICES ASSUME NEW k \in 1 .. shards, NEW n \in 1 .. size
               PROVE  at[k][n] \in 1 .. Len(s)
    OBVIOUS
  <2>1. at[k][n] = Cell(k, size, n)
    BY <1>1, Zenon
  <2>2. Cell(k, size, n) \in 1 .. Len(s)
    BY <1>g, Zenon
  <2> QED
    BY <2>1, <2>2, Zenon
<1>3. ASSUME NEW k \in 1 .. shards, NEW l \in 1 .. shards,
             NEW n \in 1 .. size, NEW p \in 1 .. size, at[k][n] = at[l][p]
      PROVE  k = l /\ n = p
  <2>1. Cell(k, size, n) = Cell(l, size, p)
    BY <1>1, <1>3, ZenonT(30)
  <2> QED
    BY <1>g, <2>1
<1>4. ASSUME NEW i \in 1 .. Len(s)
      PROVE  \E k \in 1 .. shards : \E n \in 1 .. size : i = at[k][n]
  <2>2. PICK k \in 1 .. shards : \E n \in 1 .. size : i = Cell(k, size, n)
    BY <1>g
  <2>3. PICK n \in 1 .. size : i = Cell(k, size, n)
    BY <2>2
  <2> QED
    BY <1>1, <2>3, Zenon
<1>5. \A k \in 1 .. shards : \A n \in 1 .. size : hands[k][n] = s[at[k][n]]
  BY <1>1, ZenonT(40)
<1>6. \A k, l \in 1 .. shards : \A n, p \in 1 .. size :
          at[k][n] = at[l][p] => k = l /\ n = p
  BY <1>3
<1>7. \A i \in 1 .. Len(s) : \E k \in 1 .. shards : \E n \in 1 .. size : i = at[k][n]
  BY <1>4
<1>9. /\ \A k \in 1 .. shards : hands[k] \in Seq(J) /\ Len(hands[k]) = size
      /\ \A k \in 1 .. shards : \A n \in 1 .. size : hands[k][n] = s[at[k][n]]
  BY <1>5, Zenon
<1>8. Places(at, shards, size, s, hands, J)
  BY <1>2, <1>6, <1>7, <1>9 DEF Places
<1> QED
  BY <1>8, HandsAt

LEMMA DealtBins ==
  ASSUME NEW G, NEW bins, NEW J, Packs(bins, G, J),
         NEW shards \in Nat \ {0}, NEW t \in Nat, Len(bins) = Area(shards, t), NEW parts,
         \A k \in 1 .. shards : parts[k] = [m \in 1 .. t |-> bins[Cell(m, shards, k)]]
  PROVE  Deals(parts, shards, G, J)
<1>1. bins \in Seq(G) /\ Apart(bins) /\ \A x : Held(bins, x) <=> x \in J
  BY DEF Packs
<1>2. /\ \A m \in 1 .. t : \A k \in 1 .. shards : Cell(m, shards, k) \in 1 .. Len(bins)
      /\ \A m, n \in 1 .. t : \A k, l \in 1 .. shards :
             Cell(m, shards, k) = Cell(n, shards, l) => m = n /\ k = l
      /\ \A b \in 1 .. Len(bins) : \E m \in 1 .. t : \E k \in 1 .. shards : b = Cell(m, shards, k)
  <2>1. /\ \A m \in 1 .. t : \A k \in 1 .. shards : Cell(m, shards, k) \in 1 .. Area(shards, t)
        /\ \A m, n \in 1 .. t : \A k, l \in 1 .. shards :
               Cell(m, shards, k) = Cell(n, shards, l) => m = n /\ k = l
        /\ \A b \in 1 .. Area(shards, t) :
               \E m \in 1 .. t : \E k \in 1 .. shards : b = Cell(m, shards, k)
    BY Cells
  <2>2. Len(bins) = Area(shards, t)
    OBVIOUS
  <2> QED
    BY <2>1, <2>2, Zenon
<1>3. ASSUME NEW k \in 1 .. shards
      PROVE  /\ parts[k] \in Seq(G) /\ Len(parts[k]) = t
             /\ \A m \in 1 .. t : parts[k][m] = bins[Cell(m, shards, k)]
  <2>1. \A m \in 1 .. t : bins[Cell(m, shards, k)] \in G
    BY <1>1, <1>2, ElementOfSeq
  <2> DEFINE f == [m \in 1 .. t |-> bins[Cell(m, shards, k)]]
  <2>2. f \in Seq(G) /\ Len(f) = t /\ \A m \in 1 .. t : f[m] = bins[Cell(m, shards, k)]
    BY <2>1
  <2>3. parts[k] = f
    OBVIOUS
  <2> HIDE DEF f
  <2> QED
    BY <2>2, <2>3, Zenon
<1>4. \A b, d \in 1 .. Len(bins) : b # d =>
          \A x : ~(MemberOf(bins[b], x) /\ MemberOf(bins[d], x))
  BY <1>1 DEF Apart, MemberOf
<1>5. ASSUME NEW k \in 1 .. shards, NEW x
      PROVE  Held(parts[k], x) <=> \E m \in 1 .. t : MemberOf(bins[Cell(m, shards, k)], x)
  BY <1>3 DEF Held
<1>6. ASSUME NEW k \in 1 .. shards, NEW m \in 1 .. t, NEW l \in 1 .. shards, NEW n \in 1 .. t,
             k # l \/ m # n, NEW x,
             MemberOf(bins[Cell(m, shards, k)], x), MemberOf(bins[Cell(n, shards, l)], x)
      PROVE  FALSE
  <2>1. Cell(m, shards, k) # Cell(n, shards, l)
    BY <1>2, <1>6
  <2>2. Cell(m, shards, k) \in 1 .. Len(bins) /\ Cell(n, shards, l) \in 1 .. Len(bins)
    BY <1>2
  <2> QED
    BY <1>4, <1>6, <2>1, <2>2, Zenon
<1>7. ASSUME NEW k \in 1 .. shards PROVE Apart(parts[k])
  <2> SUFFICES ASSUME NEW m \in 1 .. t, NEW n \in 1 .. t, m # n,
                      NEW i \in 1 .. Len(parts[k][m]), NEW j \in 1 .. Len(parts[k][n]),
                      parts[k][m][i] = parts[k][n][j]
               PROVE  FALSE
    BY <1>3 DEF Apart
  <2>1. /\ MemberOf(parts[k][m], parts[k][m][i])
        /\ MemberOf(parts[k][n], parts[k][m][i])
    BY DEF MemberOf
  <2>2. /\ parts[k][m] = bins[Cell(m, shards, k)]
        /\ parts[k][n] = bins[Cell(n, shards, k)]
    BY <1>3
  <2> DEFINE x == parts[k][m][i]
  <2>3. MemberOf(bins[Cell(m, shards, k)], x) /\ MemberOf(bins[Cell(n, shards, k)], x)
    BY <2>1, <2>2, Zenon
  <2> HIDE DEF x
  <2> QED
    BY <1>6, <2>3, Zenon
<1>8. \A k \in 1 .. shards : \A x : Held(parts[k], x) => x \in J
  BY <1>1, <1>2, <1>5 DEF Held
<1>9. \A k, l \in 1 .. shards : k # l => \A x : ~(Held(parts[k], x) /\ Held(parts[l], x))
  BY <1>5, <1>6
<1>10. ASSUME NEW x \in J PROVE \E k \in 1 .. shards : Held(parts[k], x)
  <2>1. PICK b \in 1 .. Len(bins) : MemberOf(bins[b], x)
    BY <1>1 DEF Held
  <2>2. PICK m \in 1 .. t : \E k \in 1 .. shards : b = Cell(m, shards, k)
    BY <1>2
  <2>3. PICK k \in 1 .. shards : b = Cell(m, shards, k)
    BY <2>2
  <2> QED
    BY <1>5, <2>1, <2>3
<1>11. 1 \in 1 .. shards
  OBVIOUS
<1>12. \A k \in 1 .. shards :
           parts[k] \in Seq(G) /\ Apart(parts[k]) /\ Len(parts[k]) = Len(parts[1])
  BY <1>3, <1>7, <1>11
<1> QED
  BY <1>8, <1>9, <1>10, <1>12 DEF Deals

LEMMA DealtCount ==
  ASSUME NEW shards \in Nat \ {0}, NEW t \in Nat, NEW k \in 1 .. shards
  PROVE  (Area(shards, t) + shards - k) \div shards = t
<1> DEFINE n == Area(shards, t) + (shards - k)
<1>1. shards * t \in Nat /\ shards - k \in 0 .. shards - 1
  OBVIOUS
<1>2. n \in Int /\ n = shards * t + (shards - k)
  BY <1>1 DEF Area
<1> HIDE DEF n
<1>3. n \div shards = t
  BY <1>1, <1>2, DivUnique
<1> QED
  BY <1>3 DEF n

-----------------------------------------------------------------------------
(* Chunks and shards are slices of their rows.                              *)

LEMMA NextRow ==
  ASSUME NEW w \in Nat, NEW n \in Nat \ {0}
  PROVE  /\ Area(w, n - 1) \in Nat /\ Area(w, n) = Area(w, n - 1) + w /\ Area(w, 0) = 0
         /\ \A i \in Int : Cell(n, w, i) = Area(w, n - 1) + i
<1>1. n - 1 \in Nat
  OBVIOUS
<1>2. w * (n - 1) \in Nat /\ (n - 1) * w = w * (n - 1) /\ w * n = w * (n - 1) + w /\ w * 0 = 0
  BY <1>1
<1> QED
  BY <1>2, Zenon DEF Area, Cell

LEMMA ChunkIs ==
  ASSUME NEW X, NEW s \in Seq(X), NEW w \in Nat \ {0}, NEW h \in Nat,
         Len(s) = Area(w, h), NEW c \in 1 .. h
  PROVE  /\ Chunk(s, c, w) = SubSeq(s, Area(w, c - 1) + 1, Area(w, c))
         /\ Chunk(s, c, w) \in Seq(X) /\ Len(Chunk(s, c, w)) = w
         /\ \A i \in 1 .. w : Chunk(s, c, w)[i] = s[Cell(c, w, i)]
<1> DEFINE a == Area(w, c - 1)
           b == Area(w, c)
           t == SubSeq(s, a + 1, b)
<1>1. c \in Nat /\ c \in Nat \ {0} /\ c <= h /\ w \in Nat
  OBVIOUS
<1>2. a \in Nat /\ b = a + w /\ \A i \in Int : Cell(c, w, i) = a + i
  BY <1>1, NextRow
<1>3. b <= Len(s)
  <2>1. w * c <= w * h
    BY <1>1, Times
  <2> QED
    BY <2>1 DEF Area
<1>4. (c - 1) * w = a /\ c * w = b
  <2>1. (c - 1) * w = w * (c - 1) /\ c * w = w * c
    OBVIOUS
  <2> QED
    BY <2>1 DEF Area
<1> HIDE DEF a, b
<1>5. Len(s) \in Nat /\ \A k \in 1 .. Len(s) : s[k] \in X
  BY ElementOfSeq, LenProperties
<1>a. a \in Nat /\ b \in Nat /\ b = a + w /\ w \in Nat
  BY <1>1, <1>2
<1>6. Chunk(s, c, w) = t
  <2>a. b \in Int /\ Len(s) \in Int
    BY <1>5, <1>a
  <2>1. Min({b, Len(s)}) = b
    <3> DEFINE l == Len(s)
    <3>1. b \in Int /\ l \in Int /\ b <= l
      BY <1>3, <2>a
    <3> HIDE DEF l
    <3>2. Min({b, l}) = b
      BY <3>1, MinOfTwo
    <3> QED
      BY <3>2 DEF l
  <2>2. Chunk(s, c, w) = SubSeq(s, a + 1, Min({b, Len(s)}))
    BY <1>4, Zenon DEF Chunk, Slice
  <2> QED
    BY <2>1, <2>2, Zenon
<1>7. a + 1 \in Int /\ b \in Int /\ \A k \in (a + 1) .. b : s[k] \in X
  <2>1. a + 1 \in Int /\ b \in Int
    BY <1>a
  <2>2. ASSUME NEW k \in (a + 1) .. b PROVE s[k] \in X
    <3>1. k \in 1 .. Len(s)
      BY <1>3, <1>5, <1>a
    <3> QED
      BY <1>5, <3>1
  <2> QED
    BY <2>1, <2>2
<1>8. /\ t \in Seq(X)
      /\ Len(t) = IF a + 1 <= b THEN b - (a + 1) + 1 ELSE 0
      /\ \A k \in 1 .. (b - (a + 1) + 1) : t[k] = s[(a + 1) + k - 1]
  BY <1>7, SubSeqProperties, SMTT(30)
<1> HIDE DEF t
<1>9. Len(t) = w
  BY <1>1, <1>2, <1>8
<1>10. ASSUME NEW i \in 1 .. w PROVE t[i] = s[Cell(c, w, i)]
  <2>1. i \in 1 .. (b - (a + 1) + 1) /\ (a + 1) + i - 1 = a + i /\ i \in Int
    BY <1>a
  <2>2. t[i] = s[a + i]
    BY <1>8, <2>1
  <2>3. Cell(c, w, i) = a + i
    BY <1>2, <2>1, Zenon
  <2> QED
    BY <2>2, <2>3, Zenon
<1> QED
  BY <1>6, <1>8, <1>9, <1>10 DEF t, a, b

LEMMA FlattenEqual ==
  ASSUME NEW X, NEW ss \in Seq(Seq(X)), NEW w \in Nat \ {0},
         \A k \in 1 .. Len(ss) : Len(ss[k]) = w
  PROVE  /\ FlattenSeq(ss) \in Seq(X) /\ Len(FlattenSeq(ss)) = Area(w, Len(ss))
         /\ \A k \in 1 .. Len(ss) : \A i \in 1 .. w : FlattenSeq(ss)[Cell(k, w, i)] = ss[k][i]
<1> DEFINE N == Len(ss)
<1>1. N \in Nat /\ \A n \in 1 .. N : ss[n] \in Seq(X) /\ Len(ss[n]) = w
  BY ElementOfSeq, LenProperties
<1>2. PICK g : Joins(g, ss, X)
  BY FlattenJoins
<1>3. /\ g[0] = <<>> /\ FlattenSeq(ss) = g[N]
      /\ \A i \in 0 .. N : g[i] \in Seq(X)
      /\ \A i \in 1 .. N : g[i] = g[i - 1] \o ss[i]
  BY <1>2 DEF Joins
<1> HIDE DEF N
<1> DEFINE S == {n \in 0 .. N : /\ Len(g[n]) = Area(w, n)
                                /\ \A k \in 1 .. n : \A i \in 1 .. w :
                                       g[n][Cell(k, w, i)] = ss[k][i]}
<1>4. 0 \in S
  <2>1. Area(w, 0) = 0 /\ Len(g[0]) = 0 /\ 0 \in 0 .. N
    BY <1>1, <1>3, NextRow
  <2> QED
    BY <2>1
<1>5. ASSUME NEW n \in 1 .. N, n - 1 \in S PROVE n \in S
  <2> DEFINE a == Area(w, n - 1)
             r == g[n - 1]
             t == ss[n]
             u == g[n]
  <2>1. n \in 0 .. N /\ n - 1 \in 0 .. N /\ n \in Nat \ {0} /\ n - 1 \in Nat
    BY <1>1
  <2>2. /\ r \in Seq(X) /\ t \in Seq(X) /\ u = r \o t /\ Len(t) = w /\ Len(r) = a
        /\ \A k \in 1 .. n - 1 : \A i \in 1 .. w : r[Cell(k, w, i)] = ss[k][i]
    BY <1>1, <1>3, <1>5, <2>1
  <2>3. a \in Nat /\ Area(w, n) = a + w /\ \A i \in Int : Cell(n, w, i) = a + i
    BY <2>1, NextRow
  <2>4. \A k \in 1 .. n - 1 : \A i \in 1 .. w : Cell(k, w, i) \in 1 .. a
    BY <2>1, Cells
  <2> HIDE DEF a, r, t, u
  <2>5. /\ Len(u) = a + w
        /\ \A i \in 1 .. a + w : u[i] = IF i <= a THEN r[i] ELSE t[i - a]
    BY <2>2, ConcatProperties, ZenonT(40)
  <2>6. ASSUME NEW k \in 1 .. n, NEW i \in 1 .. w PROVE u[Cell(k, w, i)] = ss[k][i]
    <3>1. CASE k = n
      <4>1. Cell(n, w, i) = a + i /\ a + i \in 1 .. a + w /\ ~(a + i <= a) /\ (a + i) - a = i
        BY <2>3
      <4>2. u[a + i] = t[i]
        BY <2>5, <4>1
      <4> QED
        BY <3>1, <4>1, <4>2 DEF t
    <3>2. CASE k # n
      <4>1. k \in 1 .. n - 1
        BY <3>2
      <4>2. Cell(k, w, i) \in 1 .. a
        BY <2>4, <4>1
      <4>3. Cell(k, w, i) \in 1 .. a + w /\ Cell(k, w, i) <= a
        BY <2>3, <4>2
      <4> QED
        BY <2>2, <2>5, <4>1, <4>3
    <3> QED
      BY <3>1, <3>2
  <2> QED
    BY <2>1, <2>3, <2>5, <2>6 DEF u
<1>6. \A n \in 0 .. N : n \in S
  <2> HIDE DEF S
  <2> QED
    BY <1>1, <1>4, <1>5, UpTo
<1>7. N \in 0 .. N
  BY <1>1
<1> QED
  BY <1>3, <1>6, <1>7 DEF N

LEMMA DivArea ==
  ASSUME NEW w \in Nat \ {0}, NEW h \in Nat
  PROVE  /\ Area(w, h) \in Nat /\ Area(w, h) = Area(h, w)
         /\ Area(w, h) \div w = h /\ Area(w, h) % w = 0
<1> DEFINE n == Area(w, h)
<1>1. w * h \in Nat /\ w * h = h * w
  OBVIOUS
<1>2. n \in Nat /\ n = w * h + 0 /\ Area(w, h) = Area(h, w)
  BY <1>1 DEF Area
<1> HIDE DEF n
<1>3. 0 \in 0 .. w - 1 /\ h \in Int /\ n \in Int
  BY <1>2
<1>4. n \div w = h /\ n % w = 0
  BY <1>2, <1>3, DivUnique
<1> QED
  BY <1>2, <1>4 DEF n

LEMMA SliceIs ==
  ASSUME NEW X, NEW s \in Seq(X), NEW a \in Nat, NEW b \in Nat, a <= b, b <= Len(s)
  PROVE  /\ SubSeq(s, a + 1, b) \in Seq(X) /\ Len(SubSeq(s, a + 1, b)) = b - a
         /\ \A i \in 1 .. b - a : a + i \in a + 1 .. b /\ SubSeq(s, a + 1, b)[i] = s[a + i]
<1> DEFINE t == SubSeq(s, a + 1, b)
<1>1. Len(s) \in Nat /\ \A k \in 1 .. Len(s) : s[k] \in X
  BY ElementOfSeq, LenProperties
<1>2. a + 1 \in Int /\ b \in Int /\ \A k \in (a + 1) .. b : s[k] \in X
  BY <1>1
<1>3. /\ t \in Seq(X)
      /\ Len(t) = IF a + 1 <= b THEN b - (a + 1) + 1 ELSE 0
      /\ \A k \in 1 .. (b - (a + 1) + 1) : t[k] = s[(a + 1) + k - 1]
  BY <1>2, SubSeqProperties
<1> HIDE DEF t
<1>4. Len(t) = b - a
  BY <1>3
<1>5. ASSUME NEW i \in 1 .. b - a PROVE a + i \in a + 1 .. b /\ t[i] = s[a + i]
  <2>1. i \in 1 .. (b - (a + 1) + 1) /\ (a + 1) + i - 1 = a + i /\ a + i \in a + 1 .. b
    OBVIOUS
  <2> QED
    BY <1>3, <2>1
<1> QED
  BY <1>3, <1>4, <1>5 DEF t

\* The rows of a chunk.
RowsOf(c, w) == Area(w, c - 1) + 1 .. Area(w, c)

Spans(J, c, w) ==
    /\ \A i \in 1 .. w : Cell(c, w, i) \in J
    /\ \A x \in J : \E i \in 1 .. w : x = Cell(c, w, i)

LEMMA RowsOfIs ==
  ASSUME NEW w \in Nat \ {0}, NEW h \in Nat, NEW c \in 1 .. h
  PROVE  /\ RowsOf(c, w) \in SUBSET (1 .. Area(w, h)) /\ RowsOf(c, w) \in SUBSET Nat
         /\ IsFiniteSet(RowsOf(c, w)) /\ Cardinality(RowsOf(c, w)) = w
         /\ Spans(RowsOf(c, w), c, w)
<1> DEFINE a == Area(w, c - 1)
           b == Area(w, c)
           n == Area(w, h)
<1>1. c \in Nat \ {0} /\ c \in Nat /\ c <= h /\ w \in Nat
  OBVIOUS
<1>2. a \in Nat /\ b = a + w /\ \A i \in Int : Cell(c, w, i) = a + i
  BY <1>1, NextRow
<1>3. b <= n /\ n \in Nat
  BY <1>1, Times DEF Area
<1>4. RowsOf(c, w) = a + 1 .. b
  BY DEF RowsOf
<1> HIDE DEF a, b, n
<1>5. a + 1 .. b \in SUBSET (1 .. n) /\ a + 1 .. b \in SUBSET Nat
  BY <1>1, <1>2, <1>3
<1>6. IsFiniteSet(a + 1 .. b) /\ Cardinality(a + 1 .. b) = w
  <2>1. a + 1 \in Int /\ b \in Int /\ ~(a + 1 > b) /\ b - (a + 1) + 1 = w
    BY <1>1, <1>2
  <2>2. /\ IsFiniteSet(a + 1 .. b)
        /\ Cardinality(a + 1 .. b) = IF a + 1 > b THEN 0 ELSE b - (a + 1) + 1
    BY <2>1, FS_Interval
  <2> QED
    BY <2>1, <2>2
<1>7. ASSUME NEW i \in 1 .. w PROVE Cell(c, w, i) \in a + 1 .. b
  <2>1. i \in Int /\ a + i \in a + 1 .. b
    BY <1>1, <1>2
  <2>2. Cell(c, w, i) = a + i
    BY <1>2, <2>1, Zenon
  <2> QED
    BY <2>1, <2>2, Zenon
<1>8. ASSUME NEW x \in a + 1 .. b PROVE \E i \in 1 .. w : x = Cell(c, w, i)
  <2> DEFINE i == x - a
  <2>1. i \in 1 .. w /\ i \in Int /\ x = a + i
    BY <1>1, <1>2
  <2>2. Cell(c, w, i) = a + i
    BY <1>2, <2>1, Zenon
  <2> QED
    BY <2>1, <2>2, Zenon
<1>9. Spans(a + 1 .. b, c, w)
  BY <1>7, <1>8, Zenon DEF Spans
<1> QED
  BY <1>4, <1>5, <1>6, <1>9, Zenon DEF n

LEMMA ChunkRows ==
  ASSUME NEW lens, Len(lens) \in Nat, DOMAIN lens = 1 .. Len(lens),
         NEW w \in Nat \ {0}, NEW h \in Nat, Len(lens) = Area(w, h), NEW c \in 1 .. h
  PROVE  /\ Chunk(Rows(lens), c, w) \in Seq(RowsOf(c, w))
         /\ Len(Chunk(Rows(lens), c, w)) = w
         /\ Once(Chunk(Rows(lens), c, w))
         /\ Contents(Chunk(Rows(lens), c, w), RowsOf(c, w))
<1> DEFINE rows == Rows(lens)
           chunk == Chunk(rows, c, w)
           n == Len(lens)
           J == RowsOf(c, w)
<1>1. rows \in Seq(Nat) /\ Len(rows) = n /\ \A i \in 1 .. n : rows[i] = i
  BY DEF Rows
<1>2. n = Area(w, h)
  OBVIOUS
<1> HIDE DEF rows, n
<1>3. Len(chunk) = w /\ chunk \in Seq(Nat) /\ \A i \in 1 .. w : chunk[i] = rows[Cell(c, w, i)]
  BY <1>1, <1>2, ChunkIs
<1> HIDE DEF chunk
<1>4. \A i \in 1 .. w : Cell(c, w, i) \in 1 .. n
  BY <1>2, Cells
<1>5. \A i \in 1 .. w : chunk[i] = Cell(c, w, i)
  BY <1>1, <1>3, <1>4
<1>6. /\ \A i \in 1 .. w : Cell(c, w, i) \in J
      /\ \A x \in J : \E i \in 1 .. w : x = Cell(c, w, i)
  <2>1. Spans(J, c, w) /\ J \in SUBSET (1 .. Area(w, h))
    BY RowsOfIs
  <2> HIDE DEF J
  <2> QED
    BY <2>1 DEF Spans
<1> HIDE DEF J
<1>7. chunk \in Seq(J)
  <2>1. chunk = [i \in 1 .. w |-> chunk[i]]
    BY <1>3, LenProperties
  <2>2. \A i \in 1 .. w : chunk[i] \in J
    BY <1>5, <1>6
  <2> QED
    BY <2>1, <2>2
<1>8. Once(chunk)
  <2> SUFFICES ASSUME NEW i \in 1 .. w, NEW j \in 1 .. w, chunk[i] = chunk[j] PROVE i = j
    BY <1>3 DEF Once
  <2>1. Cell(c, w, i) = Cell(c, w, j)
    BY <1>5
  <2> QED
    BY <2>1, CellsApart
<1>9. Contents(chunk, J)
  BY <1>3, <1>5, <1>6 DEF Contents, MemberOf
<1> QED
  BY <1>3, <1>7, <1>8, <1>9 DEF chunk, rows, J

\* Equal parts, joined, are the chunks.
LEMMA FlattenChunk ==
  ASSUME NEW X, NEW ss \in Seq(Seq(X)), NEW w \in Nat \ {0},
         \A k \in 1 .. Len(ss) : Len(ss[k]) = w, NEW c \in 1 .. Len(ss)
  PROVE  Chunk(FlattenSeq(ss), c, w) = ss[c]
<1> DEFINE t == FlattenSeq(ss)
           h == Len(ss)
<1>1. /\ t \in Seq(X) /\ Len(t) = Area(w, h)
      /\ \A i \in 1 .. w : t[Cell(c, w, i)] = ss[c][i]
  BY FlattenEqual
<1>2. h \in Nat /\ c \in 1 .. h /\ ss[c] \in Seq(X) /\ Len(ss[c]) = w
  BY ElementOfSeq, LenProperties
<1> HIDE DEF t, h
<1>3. /\ Chunk(t, c, w) \in Seq(X) /\ Len(Chunk(t, c, w)) = w
      /\ \A i \in 1 .. w : Chunk(t, c, w)[i] = t[Cell(c, w, i)]
  BY <1>1, <1>2, ChunkIs, SMTT(30)
<1> DEFINE u == Chunk(t, c, w)
<1> HIDE DEF u
<1>4. u \in Seq(X) /\ Len(u) = w /\ \A i \in 1 .. w : u[i] = ss[c][i]
  BY <1>1, <1>3 DEF u
<1>5. u = ss[c]
  BY <1>2, <1>4, SeqEqual
<1> QED
  BY <1>5 DEF u, t

\* The ends of microbatches of one size.
LEMMA EqualEnds ==
  ASSUME NEW w \in Nat, NEW h \in Nat
  PROVE  /\ [j \in 1 .. h |-> w] \in Seq(Nat) /\ Len([j \in 1 .. h |-> w]) = h
         /\ \A m \in 0 .. h : Ends([j \in 1 .. h |-> w])[m] = Area(w, m)
<1> DEFINE s == [j \in 1 .. h |-> w]
           f == [m \in 0 .. h |-> Area(w, m)]
<1>1. s \in Seq(Nat) /\ Len(s) = h /\ \A m \in 1 .. h : s[m] = w
  OBVIOUS
<1>2. \A m \in 0 .. h : f[m] = Area(w, m)
  OBVIOUS
<1> HIDE DEF s, f
<1>3. EndsAre(f, s)
  <2>1. f[0] = 0
    <3>1. 0 \in 0 .. h /\ Area(w, 0) = 0
      BY NextRow
    <3> QED
      BY <1>2, <3>1
  <2>2. ASSUME NEW m \in 0 .. h PROVE f[m] \in Nat
    <3>1. w * m \in Nat
      OBVIOUS
    <3> QED
      BY <1>2, <3>1 DEF Area
  <2>3. ASSUME NEW m \in 1 .. h PROVE f[m] = f[m - 1] + s[m]
    <3>1. m \in 0 .. h /\ m - 1 \in 0 .. h /\ m \in Nat \ {0}
      OBVIOUS
    <3>2. Area(w, m) = Area(w, m - 1) + w
      BY <3>1, NextRow
    <3> QED
      BY <1>1, <1>2, <3>1, <3>2
  <2> QED
    BY <1>1, <2>1, <2>2, <2>3 DEF EndsAre
<1>4. \A m \in 0 .. h : Ends(s)[m] = f[m]
  BY <1>1, <1>3, EndsExist, EndsUnique
<1> QED
  BY <1>1, <1>2, <1>4 DEF s

\* n rows are C chunks of B, of which each shard has "size".
Dims(shards, size, C, B, n) ==
    /\ shards \in Nat \ {0} /\ size \in Nat \ {0} /\ C \in Nat
    /\ B = Area(size, shards) /\ n = Area(B, C)

LEMMA DimsAre ==
  ASSUME NEW shards, NEW size, NEW C, NEW B, NEW n, Dims(shards, size, C, B, n)
  PROVE  /\ shards \in Nat \ {0} /\ size \in Nat \ {0} /\ C \in Nat
         /\ B \in Nat \ {0} /\ n \in Nat
         /\ B = Area(size, shards) /\ B = Area(shards, size) /\ n = Area(B, C)
         /\ B \div shards = size /\ n \div B = C
<1>1. /\ shards \in Nat \ {0} /\ size \in Nat \ {0} /\ C \in Nat
      /\ B = Area(size, shards) /\ n = Area(B, C)
  BY DEF Dims
<1>2. size * shards \in Nat \ {0}
  <2>1. size * shards \in Nat
    BY <1>1
  <2>2. size * 1 <= size * shards /\ size * 1 = size
    BY <1>1, Times
  <2> DEFINE p == size * shards
  <2>3. p \in Nat /\ size <= p
    BY <2>1, <2>2
  <2> HIDE DEF p
  <2>4. p \in Nat \ {0}
    BY <1>1, <2>3
  <2> QED
    BY <2>4 DEF p
<1>3. B \in Nat \ {0}
  BY <1>1, <1>2 DEF Area
<1>4. n \in Nat /\ n \div B = C
  BY <1>1, <1>3, DivArea
<1>5. B = Area(shards, size) /\ B \div shards = size
  <2>1. shards \in Nat \ {0} /\ size \in Nat
    BY <1>1
  <2>2. Area(shards, size) = Area(size, shards) /\ Area(shards, size) \div shards = size
    BY <2>1, DivArea
  <2> QED
    BY <1>1, <2>2, Zenon
<1> QED
  BY <1>1, <1>3, <1>4, <1>5

LEMMA EvenPieces ==
  ASSUME NEW shards, NEW size, NEW C, NEW B, NEW n, Dims(shards, size, C, B, n),
         NEW rows, Len(rows) = n
  PROVE  EvenShards(rows, shards, B)
             = [k \in 1 .. shards |-> [c \in 1 .. C |-> Chunk(Chunk(rows, c, B), k, size)]]
<1>1. B \div shards = size /\ n \div B = C
  BY DimsAre
<1>2. NumChunks(rows, B) = C
  BY <1>1, Zenon DEF NumChunks
<1> QED
  BY <1>1, <1>2, Zenon DEF EvenShards

\* A shard's microbatches, by chunk: G is what a microbatch is.
Sharding(shard, shards, C, B, G) ==
    /\ shard = [k \in 1 .. shards |-> shard[k]]
    /\ \A k \in 1 .. shards : shard[k] \in Seq(Seq(G)) /\ Len(shard[k]) = C
    /\ \A c \in 1 .. C : Deals([k \in 1 .. shards |-> shard[k][c]], shards, G, RowsOf(c, B))

LEMMA ShardingIs ==
  ASSUME NEW shards \in Nat \ {0}, NEW C \in Nat, NEW B, NEW G, NEW parts, NEW shard,
         shard = [k \in 1 .. shards |-> [c \in 1 .. C |-> parts[c][k]]],
         \A c \in 1 .. C : Deals(parts[c], shards, G, RowsOf(c, B))
  PROVE  Sharding(shard, shards, C, B, G)
<1>1. \A k \in 1 .. shards : shard[k] = [c \in 1 .. C |-> parts[c][k]]
  OBVIOUS
<1>2. shard = [k \in 1 .. shards |-> shard[k]]
  OBVIOUS
<1>3. \A c \in 1 .. C : \A k \in 1 .. shards : parts[c][k] \in Seq(G)
  BY DEF Deals
<1>4. ASSUME NEW k \in 1 .. shards PROVE shard[k] \in Seq(Seq(G)) /\ Len(shard[k]) = C
  <2> DEFINE f == [c \in 1 .. C |-> parts[c][k]]
  <2>1. f \in Seq(Seq(G)) /\ Len(f) = C
    BY <1>3
  <2> QED
    BY <1>1, <2>1
<1>5. ASSUME NEW c \in 1 .. C
      PROVE  Deals([k \in 1 .. shards |-> shard[k][c]], shards, G, RowsOf(c, B))
  <2> DEFINE p == parts[c]
             q == [k \in 1 .. shards |-> shard[k][c]]
             J == RowsOf(c, B)
  <2>1. Deals(p, shards, G, J)
    OBVIOUS
  <2>2. \A k \in 1 .. shards : q[k] = p[k]
    BY <1>1
  <2> HIDE DEF p, q, J
  <2>3. 1 \in 1 .. shards
    OBVIOUS
  <2>4. Deals(q, shards, G, J)
    BY <2>1, <2>2, <2>3 DEF Deals
  <2> QED
    BY <2>4 DEF q, J
<1> QED
  BY <1>2, <1>4, <1>5 DEF Sharding

LEMMA EvenHands ==
  ASSUME NEW shards, NEW size, NEW C, NEW B, NEW n, Dims(shards, size, C, B, n),
         NEW lens, Len(lens) = n, DOMAIN lens = 1 .. n, NEW c \in 1 .. C, NEW hands,
         \A k \in 1 .. shards : hands[k] = Chunk(Chunk(Rows(lens), c, B), k, size)
  PROVE  Hands(hands, shards, size, RowsOf(c, B))
<1> DEFINE J == RowsOf(c, B)
           s == Chunk(Rows(lens), c, B)
<1>1. /\ shards \in Nat \ {0} /\ shards \in Nat /\ size \in Nat \ {0} /\ C \in Nat
      /\ B \in Nat \ {0} /\ n \in Nat /\ B = Area(size, shards) /\ n = Area(B, C)
  BY DimsAre
<1>2. s \in Seq(J) /\ Len(s) = B /\ Once(s) /\ Contents(s, J)
  BY <1>1, ChunkRows
<1>3. \A k \in 1 .. shards : hands[k] = Chunk(s, k, size)
  OBVIOUS
<1> HIDE DEF J, s
<1>4. Len(s) = Area(size, shards)
  BY <1>1, <1>2
<1>5. ASSUME NEW k \in 1 .. shards
      PROVE  /\ hands[k] \in Seq(J) /\ Len(hands[k]) = size
             /\ \A i \in 1 .. size : hands[k][i] = s[Cell(k, size, i)]
  <2>1. /\ Chunk(s, k, size) \in Seq(J) /\ Len(Chunk(s, k, size)) = size
        /\ \A i \in 1 .. size : Chunk(s, k, size)[i] = s[Cell(k, size, i)]
    BY <1>1, <1>2, <1>4, ChunkIs
  <2> QED
    BY <1>3, <2>1
<1>6. /\ \A k \in 1 .. shards : hands[k] \in Seq(J) /\ Len(hands[k]) = size
      /\ \A k \in 1 .. shards : \A i \in 1 .. size : hands[k][i] = s[Cell(k, size, i)]
  BY <1>5
<1>7. Hands(hands, shards, size, J)
  BY <1>1, <1>2, <1>4, <1>6, SlicedHands
<1> QED
  BY <1>7 DEF J

\* A microbatch: some of n rows, none twice.
UsedRows(n) == {rows \in Seq(1 .. n) : rows # <<>> /\ Once(rows)}

LEMMA SliceOnce ==
  ASSUME NEW X, NEW s \in Seq(X), Once(s), NEW a \in Nat, NEW b \in Nat, a <= b, b <= Len(s)
  PROVE  Once(SubSeq(s, a + 1, b))
<1> DEFINE t == SubSeq(s, a + 1, b)
<1>1. /\ Len(t) = b - a
      /\ \A i \in 1 .. b - a : a + i \in a + 1 .. b /\ t[i] = s[a + i]
  BY SliceIs
<1> HIDE DEF t
<1>2. Len(s) \in Nat
  BY LenProperties
<1>3. ASSUME NEW i \in 1 .. Len(t), NEW j \in 1 .. Len(t), t[i] = t[j] PROVE i = j
  <2>1. s[a + i] = s[a + j] /\ a + i \in 1 .. Len(s) /\ a + j \in 1 .. Len(s)
    BY <1>1, <1>2, <1>3
  <2>2. a + i = a + j
    BY <2>1 DEF Once
  <2> QED
    BY <1>1, <2>2
<1> QED
  BY <1>3 DEF Once, t

\* shard_by_batch_size without dynamic batching or packing deals every row of a
\* chunk to one shard, and cuts what a shard has into microbatches.
THEOREM PlainSharding ==
  ASSUME NEW shards, NEW size, NEW C, NEW B, NEW n, Dims(shards, size, C, B, n),
         NEW lens, Len(lens) = n, DOMAIN lens = 1 .. n,
         NEW w \in Nat \ {0}, NEW u \in Nat, size = Area(w, u)
  PROVE  Sharding(PlainShards(lens, shards, B, w), shards, C, B, UsedRows(n))
<1> DEFINE G == UsedRows(n)
           rows == Rows(lens)
           hand(k, c) == Chunk(Chunk(rows, c, B), k, size)
           sizes == [j \in 1 .. u |-> w]
           parts == [c \in 1 .. C |-> [k \in 1 .. shards |-> Cut(hand(k, c), sizes)]]
           shard == PlainShards(lens, shards, B, w)
<1>1. /\ shards \in Nat \ {0} /\ size \in Nat \ {0} /\ C \in Nat
      /\ B \in Nat \ {0} /\ n \in Nat /\ n = Area(B, C)
  BY DimsAre
<1>2. /\ sizes \in Seq(Nat) /\ Len(sizes) = u
      /\ \A m \in 0 .. u : Ends(sizes)[m] = Area(w, m)
  BY EqualEnds
<1>3. size \div w = u
  BY DivArea
<1>4. Len(rows) = n
  BY <1>1 DEF Rows
<1>5. \A c \in 1 .. C :
          Hands([k \in 1 .. shards |-> hand(k, c)], shards, size, RowsOf(c, B))
  <2> TAKE c \in 1 .. C
  <2> DEFINE hands == [k \in 1 .. shards |-> hand(k, c)]
  <2>1. \A k \in 1 .. shards : hands[k] = Chunk(Chunk(Rows(lens), c, B), k, size)
    OBVIOUS
  <2> HIDE DEF hands
  <2>2. Hands(hands, shards, size, RowsOf(c, B))
    BY <2>1, EvenHands
  <2> QED
    BY <2>2 DEF hands
<1>6. shard = [k \in 1 .. shards |-> [c \in 1 .. C |-> Cut(hand(k, c), sizes)]]
  <2> DEFINE pieces == EvenShards(rows, shards, B)
  <2>1. pieces = [k \in 1 .. shards |-> [c \in 1 .. C |-> hand(k, c)]]
    BY <1>4, EvenPieces
  <2>2. shard = [k \in 1 .. shards |-> [c \in DOMAIN pieces[k] |->
                    Cut(pieces[k][c], [m \in 1 .. (Len(pieces[k][c]) \div w) |-> w])]]
    BY Zenon DEF PlainShards
  <2> HIDE DEF pieces
  <2>3. \A k \in 1 .. shards : \A c \in 1 .. C : Len(hand(k, c)) = size
    <3> SUFFICES ASSUME NEW k \in 1 .. shards, NEW c \in 1 .. C PROVE Len(hand(k, c)) = size
      OBVIOUS
    <3> DEFINE hands == [j \in 1 .. shards |-> hand(j, c)]
    <3>1. Hands(hands, shards, size, RowsOf(c, B))
      BY <1>5
    <3>2. hands[k] = hand(k, c)
      OBVIOUS
    <3> HIDE DEF hands, hand
    <3>3. Len(hands[k]) = size
      BY <3>1 DEF Hands
    <3> QED
      BY <3>2, <3>3
  <2> HIDE DEF hand, shard
  <2>4. ASSUME NEW k \in 1 .. shards
        PROVE  [c \in DOMAIN pieces[k] |->
                    Cut(pieces[k][c], [m \in 1 .. (Len(pieces[k][c]) \div w) |-> w])]
                   = [c \in 1 .. C |-> Cut(hand(k, c), sizes)]
    <3>1. pieces[k] = [c \in 1 .. C |-> hand(k, c)]
      BY <2>1
    <3>2. DOMAIN pieces[k] = 1 .. C /\ \A c \in 1 .. C : pieces[k][c] = hand(k, c)
      BY <3>1
    <3>3. \A c \in 1 .. C :
              [m \in 1 .. (Len(pieces[k][c]) \div w) |-> w] = sizes
      BY <1>3, <2>3, <3>2
    <3> HIDE DEF sizes
    <3> QED
      BY <3>2, <3>3, Zenon
  <2> QED
    BY <2>2, <2>4, Zenon
<1>7. \A m \in 1 .. u : /\ Ends(sizes)[m - 1] \in Nat /\ Ends(sizes)[m] \in Nat
                        /\ Ends(sizes)[m] = Ends(sizes)[m - 1] + w
                        /\ Ends(sizes)[m] <= size
  <2> SUFFICES ASSUME NEW m \in 1 .. u
               PROVE  /\ Ends(sizes)[m - 1] \in Nat /\ Ends(sizes)[m] \in Nat
                      /\ Ends(sizes)[m] = Ends(sizes)[m - 1] + w
                      /\ Ends(sizes)[m] <= size
    OBVIOUS
  <2>1. m - 1 \in 0 .. u /\ m \in 0 .. u /\ m \in Nat \ {0} /\ m <= u
    OBVIOUS
  <2>2. Area(w, m - 1) \in Nat /\ Area(w, m) = Area(w, m - 1) + w
    BY <2>1, NextRow
  <2>3. Area(w, m) <= Area(w, u)
    BY <2>1, Times DEF Area
  <2>4. Ends(sizes)[m - 1] = Area(w, m - 1) /\ Ends(sizes)[m] = Area(w, m)
    BY <1>2, <2>1
  <2> HIDE DEF sizes
  <2> QED
    BY <2>2, <2>3, <2>4
<1>8. Ends(sizes)[Len(sizes)] = size
  BY <1>2
<1> HIDE DEF sizes, shard
<1>9. ASSUME NEW c \in 1 .. C PROVE Deals(parts[c], shards, G, RowsOf(c, B))
  <2> DEFINE hands == [k \in 1 .. shards |-> hand(k, c)]
             J == RowsOf(c, B)
  <2>1. Hands(hands, shards, size, J)
    BY <1>5
  <2>2. \A k \in 1 .. shards : parts[c][k] = Cut(hands[k], sizes)
    OBVIOUS
  <2>3. J \in SUBSET (1 .. n)
    BY <1>1, RowsOfIs
  <2> HIDE DEF hands, J, parts
  <2>4. ASSUME NEW k \in 1 .. shards, NEW m \in 1 .. Len(sizes)
        PROVE  SubSeq(hands[k], Ends(sizes)[m - 1] + 1, Ends(sizes)[m]) \in G
    <3> DEFINE a == Ends(sizes)[m - 1]
               b == Ends(sizes)[m]
               h == hands[k]
               t == SubSeq(h, a + 1, b)
    <3>1. h \in Seq(J) /\ Len(h) = size /\ Once(h)
      BY <2>1 DEF Hands
    <3>2. a \in Nat /\ b \in Nat /\ b = a + w /\ b <= size
      BY <1>2, <1>7
    <3> HIDE DEF a, b, h
    <3>a. a <= b /\ b <= Len(h)
      BY <3>1, <3>2
    <3>b. Once(SubSeq(h, a + 1, b))
      BY <3>1, <3>2, <3>a, SliceOnce, SMTT(30)
    <3>c. SubSeq(h, a + 1, b) \in Seq(J) /\ Len(SubSeq(h, a + 1, b)) = b - a
      BY <3>1, <3>2, <3>a, SliceIs, SMTT(30)
    <3>3. t \in Seq(J) /\ Len(t) = b - a /\ Once(t)
      BY <3>b, <3>c
    <3> HIDE DEF t
    <3>4. t \in Seq(1 .. n) /\ Len(t) # 0 /\ Once(t)
      <4>1. t \in Seq(1 .. n)
        BY <2>3, <3>3, SeqMonotonic
      <4>2. b - a = w
        BY <3>2
      <4> QED
        BY <3>3, <4>1, <4>2
    <3>5. t \in G
      BY <3>4 DEF UsedRows
    <3> QED
      BY <3>5 DEF t, a, b, h
  <2> HIDE DEF G
  <2>5. Deals(parts[c], shards, G, J)
    <3> DEFINE p == parts[c]
    <3>1. shards \in Nat \ {0} /\ sizes \in Seq(Nat) /\ Ends(sizes)[Len(sizes)] = size
      BY <1>1, <1>2, <1>8
    <3>2. \A k \in 1 .. shards : p[k] = Cut(hands[k], sizes)
      BY <2>2
    <3> HIDE DEF p
    <3>3. Deals(p, shards, G, J)
      BY <2>1, <2>4, <3>1, <3>2, CutHands, SMTT(30)
    <3> QED
      BY <3>3 DEF p
  <2> QED
    BY <2>5 DEF J
<1>10. shard = [k \in 1 .. shards |-> [c \in 1 .. C |-> parts[c][k]]]
  BY <1>6
<1> HIDE DEF parts, G
<1>11. Sharding(shard, shards, C, B, G)
  BY <1>1, <1>9, <1>10, ShardingIs
<1> QED
  BY <1>11 DEF shard, G

-----------------------------------------------------------------------------
(* Dynamic batching.                                                        *)

SortedChunk(lens, c, B) == Ascending(ToSet(Chunk(Rows(lens), c, B)), lens)

DealtHand(lens, c, B, shards, size, k) ==
    [i \in 1 .. size |-> SortedChunk(lens, c, B)[(i - 1) * shards + k]]

LEMMA SortedChunkIs ==
  ASSUME NEW shards, NEW size, NEW C, NEW B, NEW n, Dims(shards, size, C, B, n),
         NEW lens \in Seq(Nat), Len(lens) = n, NEW c \in 1 .. C, NEW hands,
         \A k \in 1 .. shards : hands[k] = DealtHand(lens, c, B, shards, size, k)
  PROVE  Hands(hands, shards, size, RowsOf(c, B))
<1> DEFINE J == RowsOf(c, B)
           chunk == Chunk(Rows(lens), c, B)
           s == SortedChunk(lens, c, B)
<1>1. /\ shards \in Nat \ {0} /\ size \in Nat \ {0} /\ size \in Nat /\ C \in Nat
      /\ B \in Nat \ {0} /\ n \in Nat /\ B = Area(shards, size) /\ n = Area(B, C)
  BY DimsAre
<1>2. DOMAIN lens = 1 .. n /\ \A i \in 1 .. n : lens[i] \in Nat
  BY ElementOfSeq, LenProperties
<1>3. chunk \in Seq(J) /\ Contents(chunk, J)
  BY <1>1, <1>2, ChunkRows
<1>4. /\ J \in SUBSET (1 .. n) /\ J \in SUBSET Nat /\ IsFiniteSet(J) /\ Cardinality(J) = B
  BY <1>1, RowsOfIs
<1>5. s = Ascending(ToSet(chunk), lens)
  BY Zenon DEF SortedChunk
<1>6. hands = hands /\ \A k \in 1 .. shards : hands[k] = [i \in 1 .. size |-> s[Cell(i, shards, k)]]
  BY Zenon DEF DealtHand, Cell
<1> HIDE DEF J, chunk, s
<1>7. ToSet(chunk) = J
  <2>1. DOMAIN chunk = 1 .. Len(chunk)
    BY <1>3, LenProperties
  <2>2. \A x : x \in ToSet(chunk) <=> MemberOf(chunk, x)
    BY <2>1 DEF ToSet, MemberOf
  <2> QED
    BY <1>3, <2>2 DEF Contents
<1>8. Weighs(lens, J)
  BY <1>2, <1>4 DEF Weighs
<1>9. InSortedOrder(s, Shorter(J, lens), J)
  BY <1>4, <1>5, <1>7, <1>8, AscendingIs
<1>10. s \in Seq(J) /\ Once(s) /\ Contents(s, J) /\ Len(s) = Area(shards, size)
  BY <1>1, <1>4, <1>9, SortedOnce DEF InSortedOrder
<1>11. Hands(hands, shards, size, J)
  BY <1>1, <1>6, <1>10, DealtHands
<1> QED
  BY <1>11 DEF J

LEMMA SeqOfFunction ==
  ASSUME NEW X, NEW n \in Nat, NEW f, f = [k \in 1 .. n |-> f[k]],
         \A k \in 1 .. n : f[k] \in X
  PROVE  f \in Seq(X) /\ Len(f) = n
<1> DEFINE g == [k \in 1 .. n |-> f[k]]
<1>1. g \in Seq(X) /\ Len(g) = n
  OBVIOUS
<1>2. f = g
  OBVIOUS
<1> HIDE DEF g
<1> QED
  BY <1>1, <1>2, Zenon

LEMMA DynamicPieces ==
  ASSUME NEW shards, NEW size, NEW C, NEW B, NEW n, Dims(shards, size, C, B, n),
         NEW lens \in Seq(Nat), Len(lens) = n
  PROVE  EvenShards(DynamicOrder(lens, shards, B), shards, B)
             = [k \in 1 .. shards |-> [c \in 1 .. C |->
                   DealtHand(lens, c, B, shards, size, k)]]
<1> DEFINE hand(k, c) == DealtHand(lens, c, B, shards, size, k)
           hands(c) == [k \in 1 .. shards |-> hand(k, c)]
           dealt == [c \in 1 .. C |-> Dealt(Chunk(Rows(lens), c, B), shards, lens)]
           order == DynamicOrder(lens, shards, B)
           X == 1 .. n
<1>1. /\ shards \in Nat \ {0} /\ size \in Nat \ {0} /\ C \in Nat
      /\ B \in Nat \ {0} /\ n \in Nat /\ B = Area(size, shards) /\ n = Area(B, C)
      /\ B \div shards = size /\ n \div B = C /\ shards \in Nat
  BY DimsAre
<1>2. DOMAIN lens = 1 .. n
  BY LenProperties
<1>3. ASSUME NEW c \in 1 .. C
      PROVE  /\ hands(c) \in Seq(Seq(X)) /\ Len(hands(c)) = shards
             /\ \A k \in 1 .. shards : Len(hands(c)[k]) = size /\ hands(c)[k] = hand(k, c)
  <2> DEFINE h == hands(c)
             J == RowsOf(c, B)
  <2>1. \A k \in 1 .. shards : h[k] = DealtHand(lens, c, B, shards, size, k)
    OBVIOUS
  <2>2. h = [k \in 1 .. shards |-> h[k]]
    OBVIOUS
  <2> HIDE DEF h
  <2>3. Hands(h, shards, size, J)
    BY <2>1, SortedChunkIs
  <2>4. J \in SUBSET X
    BY <1>1, RowsOfIs
  <2> HIDE DEF J
  <2>5. \A k \in 1 .. shards : h[k] \in Seq(X) /\ Len(h[k]) = size
    <3> SUFFICES ASSUME NEW k \in 1 .. shards PROVE h[k] \in Seq(X) /\ Len(h[k]) = size
      OBVIOUS
    <3>1. h[k] \in Seq(J) /\ Len(h[k]) = size
      BY <2>3 DEF Hands
    <3> QED
      BY <2>4, <3>1, SeqMonotonic
  <2> HIDE DEF X
  <2>6. h \in Seq(Seq(X)) /\ Len(h) = shards
    BY <1>1, <2>2, <2>5, SeqOfFunction
  <2> QED
    BY <2>1, <2>5, <2>6 DEF h
<1>4. ASSUME NEW c \in 1 .. C PROVE dealt[c] = FlattenSeq(hands(c))
  <2> DEFINE chunk == Chunk(Rows(lens), c, B)
             s == SortedChunk(lens, c, B)
  <2>1. Len(chunk) = B
    BY <1>1, <1>2, ChunkRows
  <2>2. Len(chunk) \div shards = size
    BY <1>1, <2>1
  <2>3. s = Ascending(ToSet(chunk), lens)
    BY Zenon DEF SortedChunk
  <2>4. Dealt(chunk, shards, lens)
            = FlattenSeq([k \in 1 .. shards |->
                  [i \in 1 .. (Len(chunk) \div shards) |-> s[(i - 1) * shards + k]]])
    BY <2>3, Zenon DEF Dealt
  <2>5. dealt[c] = Dealt(chunk, shards, lens)
    OBVIOUS
  <2> HIDE DEF chunk, dealt
  <2> QED
    BY <2>2, <2>4, <2>5, Zenon DEF DealtHand
<1>5. order = FlattenSeq(dealt)
  <2>1. NumChunks(lens, B) = C
    BY <1>1, Zenon DEF NumChunks
  <2> QED
    BY <2>1, Zenon DEF DynamicOrder
<1> HIDE DEF order, X, hand
<1>6. ASSUME NEW c \in 1 .. C
      PROVE  /\ dealt[c] \in Seq(X) /\ Len(dealt[c]) = B
             /\ \A k \in 1 .. shards : Chunk(dealt[c], k, size) = hand(k, c)
  <2> DEFINE h == hands(c)
  <2>1. /\ h \in Seq(Seq(X)) /\ Len(h) = shards
        /\ \A k \in 1 .. shards : Len(h[k]) = size /\ h[k] = hand(k, c)
    BY <1>3
  <2>2. dealt[c] = FlattenSeq(h)
    BY <1>4
  <2> HIDE DEF h, dealt
  <2>3. \A k \in 1 .. Len(h) : Len(h[k]) = size
    BY <2>1
  <2>4. FlattenSeq(h) \in Seq(X) /\ Len(FlattenSeq(h)) = Area(size, Len(h))
    BY <1>1, <2>1, <2>3, FlattenEqual
  <2>5. ASSUME NEW k \in 1 .. shards PROVE Chunk(FlattenSeq(h), k, size) = h[k]
    BY <1>1, <2>1, <2>3, FlattenChunk
  <2> QED
    BY <1>1, <2>1, <2>2, <2>4, <2>5
<1>7. dealt \in Seq(Seq(X)) /\ Len(dealt) = C
  <2>1. dealt = [c \in 1 .. C |-> dealt[c]]
    OBVIOUS
  <2> HIDE DEF dealt
  <2> QED
    BY <1>1, <1>6, <2>1, SeqOfFunction
<1> HIDE DEF dealt
<1>8. \A c \in 1 .. Len(dealt) : Len(dealt[c]) = B
  BY <1>6, <1>7
<1>9. Len(order) = n /\ \A c \in 1 .. C : Chunk(order, c, B) = dealt[c]
  <2>1. Len(FlattenSeq(dealt)) = Area(B, Len(dealt))
    BY <1>1, <1>7, <1>8, FlattenEqual
  <2>2. \A c \in 1 .. C : Chunk(FlattenSeq(dealt), c, B) = dealt[c]
    BY <1>1, <1>7, <1>8, FlattenChunk
  <2> QED
    BY <1>1, <1>5, <1>7, <2>1, <2>2
<1>10. EvenShards(order, shards, B)
           = [k \in 1 .. shards |-> [c \in 1 .. C |-> Chunk(Chunk(order, c, B), k, size)]]
  BY <1>9, EvenPieces
<1>11. \A k \in 1 .. shards : \A c \in 1 .. C : Chunk(Chunk(order, c, B), k, size) = hand(k, c)
  BY <1>6, <1>9
<1> QED
  BY <1>10, <1>11, Zenon DEF order, hand

\* A microbatch of dynamic batching: its rows, padded to the longest.
RectangularRows(lens, limit) ==
    {rows \in Seq(1 .. Len(lens)) :
        rows # <<>> /\ Once(rows) /\ \A i \in 1 .. Len(rows) : Len(rows) * lens[rows[i]] <= limit}

ByShard(hands, shards) == hands = [k \in 1 .. shards |-> hands[k]]

LEMMA DynamicCuts ==
  ASSUME NEW lens, NEW round, NEW limit, Rounded(lens, round, limit),
         NEW shards \in Nat \ {0}, NEW size \in Nat \ {0}, NEW J \in SUBSET (1 .. Len(lens)),
         NEW hands, ByShard(hands, shards),
         Hands(hands, shards, size, J),
         NEW sizes, sizes = MicroBatchSizes(hands, lens, round, limit),
         NEW parts, \A k \in 1 .. shards : parts[k] = Cut(hands[k], sizes)
  PROVE  Deals(parts, shards, RectangularRows(lens, limit), J)
<1> DEFINE G == RectangularRows(lens, limit)
           n == Len(lens)
           pad(j) == PaddedLength(hands, j, lens, round)
<1>1. /\ DOMAIN lens = 1 .. n /\ n \in Nat /\ limit \in Nat
      /\ \A i \in 1 .. n : lens[i] \in Nat
  BY RoundedIs DEF Rounded
<1>2. DOMAIN hands = 1 .. shards /\ 1 \in 1 .. shards
  BY DEF ByShard
<1>3. ASSUME NEW k \in 1 .. shards
      PROVE  /\ hands[k] \in Seq(J) /\ Len(hands[k]) = size
             /\ \A j \in 1 .. size : hands[k][j] \in 1 .. n
  <2>1. hands[k] \in Seq(J) /\ Len(hands[k]) = size
    BY DEF Hands
  <2>2. \A j \in 1 .. size : hands[k][j] \in J
    BY <2>1, ElementOfSeq
  <2> QED
    BY <2>1, <2>2
<1>4. ASSUME NEW j \in 1 .. size
      PROVE  /\ pad(j) \in Nat /\ pad(j) <= limit
             /\ \A k \in 1 .. shards : lens[hands[k][j]] <= pad(j)
  <2>1. \A k \in DOMAIN hands : hands[k][j] \in DOMAIN lens
    BY <1>1, <1>2, <1>3
  <2>2. DOMAIN hands # {}
    BY <1>2
  <2> QED
    BY <1>2, <2>1, <2>2, PaddedLengthIs
<1>5. Len(hands[1]) = size
  BY <1>2, <1>3
<1>6. /\ sizes \in Seq(Nat) /\ Ends(sizes)[Len(sizes)] = size
      /\ \A m \in 1 .. Len(sizes) : sizes[m] # 0
      /\ \A m \in 1 .. Len(sizes) : \A j \in Ends(sizes)[m - 1] + 1 .. Ends(sizes)[m] :
             sizes[m] * pad(j) <= limit
  <2>0. limit \in Nat
    BY <1>1
  <2>1. \A j \in 1 .. Len(hands[1]) :
            /\ PaddedLength(hands, j, lens, round) \in Nat
            /\ PaddedLength(hands, j, lens, round) <= limit
    BY <1>4, <1>5
  <2>2. Len(hands[1]) \in Nat \ {0}
    BY <1>5
  <2>3. /\ sizes \in Seq(Nat) /\ Ends(sizes)[Len(sizes)] = Len(hands[1])
        /\ \A m \in 1 .. Len(sizes) : sizes[m] # 0
        /\ \A m \in 1 .. Len(sizes) : \A j \in Ends(sizes)[m - 1] + 1 .. Ends(sizes)[m] :
               sizes[m] * PaddedLength(hands, j, lens, round) <= limit
    BY <2>0, <2>1, <2>2, SizesKeepLimit
  <2> QED
    BY <1>5, <2>3
<1>7. /\ EndsAre(Ends(sizes), sizes) /\ Len(sizes) \in Nat
      /\ \A m \in 1 .. Len(sizes) : sizes[m] \in Nat
  BY <1>6, EndsExist, ElementOfSeq, LenProperties
<1> DEFINE e == Ends(sizes)
<1>8. \A m \in 0 .. Len(sizes) : e[m] \in Nat /\ e[m] <= size
  <2>1. Len(sizes) \in 0 .. Len(sizes)
    BY <1>7
  <2>2. \A m \in 0 .. Len(sizes) : e[m] <= e[Len(sizes)]
    BY <1>6, <1>7, <2>1, EndsGrow
  <2> QED
    BY <1>6, <1>7, <2>2 DEF EndsAre
<1> HIDE DEF e, pad
<1>9. ASSUME NEW k \in 1 .. shards, NEW m \in 1 .. Len(sizes)
      PROVE  SubSeq(hands[k], e[m - 1] + 1, e[m]) \in G
  <2> DEFINE a == e[m - 1]
             b == e[m]
             h == hands[k]
             t == SubSeq(h, a + 1, b)
  <2>1. h \in Seq(J) /\ Len(h) = size /\ Once(h)
    BY <1>3 DEF Hands
  <2>2. /\ a \in Nat /\ b \in Nat /\ b = a + sizes[m] /\ b <= size
        /\ sizes[m] \in Nat /\ sizes[m] # 0
    <3>1. m - 1 \in 0 .. Len(sizes) /\ m \in 0 .. Len(sizes)
      BY <1>7
    <3>2. e[m] = e[m - 1] + sizes[m]
      BY <1>7 DEF EndsAre, e
    <3> QED
      BY <1>6, <1>7, <1>8, <3>1, <3>2
  <2>3. \A j \in a + 1 .. b : sizes[m] * pad(j) <= limit
    BY <1>6 DEF e
  <2>a. \A j \in 1 .. size : lens[h[j]] <= pad(j) /\ h[j] \in 1 .. n /\ pad(j) \in Nat
    BY <1>3, <1>4
  <2> HIDE DEF a, b, h
  <2>4. /\ t \in Seq(J) /\ Len(t) = b - a /\ Once(t)
        /\ \A i \in 1 .. b - a : a + i \in a + 1 .. b /\ t[i] = h[a + i]
    <3>1. a <= b /\ b <= Len(h)
      BY <2>1, <2>2
    <3>2. Once(SubSeq(h, a + 1, b))
      BY <2>1, <2>2, <3>1, SliceOnce
    <3>3. /\ t \in Seq(J) /\ Len(t) = b - a
          /\ \A i \in 1 .. b - a : a + i \in a + 1 .. b /\ t[i] = h[a + i]
      BY <2>1, <2>2, <3>1, SliceIs, SMTT(30)
    <3> QED
      BY <3>2, <3>3
  <2> HIDE DEF t
  <2>5. t \in Seq(1 .. n) /\ t # <<>> /\ Len(t) = sizes[m]
    <3>1. t \in Seq(1 .. n)
      BY <2>4, SeqMonotonic
    <3>2. b - a = sizes[m]
      BY <2>2
    <3> QED
      BY <2>2, <2>4, <3>1, <3>2
  <2>6. ASSUME NEW i \in 1 .. Len(t) PROVE Len(t) * lens[t[i]] <= limit
    <3>1. i \in 1 .. b - a
      BY <2>4
    <3>2. a + i \in a + 1 .. b /\ t[i] = h[a + i]
      BY <2>4, <3>1
    <3>3. a + i \in 1 .. size
      BY <2>2, <3>1
    <3>4. lens[t[i]] <= pad(a + i) /\ lens[t[i]] \in Nat /\ pad(a + i) \in Nat
      BY <1>1, <2>a, <3>2, <3>3
    <3> DEFINE x == sizes[m] * lens[t[i]]
               y == sizes[m] * pad(a + i)
    <3>5. x \in Nat /\ y \in Nat /\ x <= y
      BY <2>2, <3>4, Times
    <3>6. y <= limit
      BY <2>3, <3>2
    <3> HIDE DEF x, y
    <3>7. x <= limit
      BY <1>1, <3>5, <3>6
    <3> QED
      BY <2>5, <3>7 DEF x
  <2>7. t \in G
    BY <2>4, <2>5, <2>6 DEF RectangularRows
  <2> QED
    BY <2>7 DEF t, a, b, h
<1> HIDE DEF G
<1>10. Deals(parts, shards, G, J)
  <2>1. \A k \in 1 .. shards : \A m \in 1 .. Len(sizes) :
            SubSeq(hands[k], Ends(sizes)[m - 1] + 1, Ends(sizes)[m]) \in G
    BY <1>9 DEF e
  <2> QED
    BY <1>6, <2>1, CutHands
<1> QED
  BY <1>10 DEF G

\* With dynamic batching too every row is dealt once, the shards have as many
\* microbatches of a chunk, and no microbatch, padded, has more than the limit.
THEOREM DynamicSharding ==
  ASSUME NEW shards, NEW size, NEW C, NEW B, NEW n, Dims(shards, size, C, B, n),
         NEW lens, NEW round, NEW limit, Rounded(lens, round, limit), Len(lens) = n
  PROVE  Sharding(DynamicShards(lens, shards, B, round, limit), shards, C, B,
                  RectangularRows(lens, limit))
<1> DEFINE G == RectangularRows(lens, limit)
           hand(k, c) == DealtHand(lens, c, B, shards, size, k)
           hands(c) == [k \in 1 .. shards |-> hand(k, c)]
           sizes(c) == MicroBatchSizes(hands(c), lens, round, limit)
           parts == [c \in 1 .. C |-> [k \in 1 .. shards |-> Cut(hand(k, c), sizes(c))]]
           shard == DynamicShards(lens, shards, B, round, limit)
<1>1. /\ shards \in Nat \ {0} /\ shards \in Nat /\ size \in Nat \ {0} /\ C \in Nat
      /\ B \in Nat \ {0} /\ n \in Nat /\ n = Area(B, C)
  BY DimsAre
<1>2. lens \in Seq(Nat)
  BY DEF Rounded
<1>3. shard = [k \in 1 .. shards |-> [c \in 1 .. C |-> Cut(hand(k, c), sizes(c))]]
  <2> DEFINE pieces == EvenShards(DynamicOrder(lens, shards, B), shards, B)
             cut(c) == MicroBatchSizes([k \in 1 .. shards |-> pieces[k][c]], lens, round, limit)
  <2>1. pieces = [k \in 1 .. shards |-> [c \in 1 .. C |-> hand(k, c)]]
    BY <1>2, DynamicPieces
  <2>2. shard = [k \in 1 .. shards |-> [c \in DOMAIN pieces[k] |-> Cut(pieces[k][c], cut(c))]]
    BY Zenon DEF DynamicShards
  <2> HIDE DEF pieces, hand
  <2>3. \A k \in 1 .. shards :
            DOMAIN pieces[k] = 1 .. C /\ \A c \in 1 .. C : pieces[k][c] = hand(k, c)
    BY <2>1
  <2>4. ASSUME NEW c \in 1 .. C PROVE cut(c) = sizes(c)
    <3>1. [k \in 1 .. shards |-> pieces[k][c]] = hands(c)
      BY <2>3
    <3> HIDE DEF hands
    <3> QED
      BY <3>1, Zenon
  <2> HIDE DEF cut, sizes, shard
  <2>5. ASSUME NEW k \in 1 .. shards
        PROVE  [c \in DOMAIN pieces[k] |-> Cut(pieces[k][c], cut(c))]
                   = [c \in 1 .. C |-> Cut(hand(k, c), sizes(c))]
    <3>1. DOMAIN pieces[k] = 1 .. C /\ \A c \in 1 .. C : pieces[k][c] = hand(k, c)
      BY <2>3
    <3> QED
      BY <2>4, <3>1, Zenon
  <2> QED
    BY <2>2, <2>5, Zenon
<1> HIDE DEF shard
<1>4. ASSUME NEW c \in 1 .. C PROVE Deals(parts[c], shards, G, RowsOf(c, B))
  <2> DEFINE h == hands(c)
             J == RowsOf(c, B)
  <2>1. \A k \in 1 .. shards : h[k] = DealtHand(lens, c, B, shards, size, k)
    OBVIOUS
  <2>2. ByShard(h, shards)
    BY DEF ByShard
  <2>3. \A k \in 1 .. shards : parts[c][k] = Cut(h[k], MicroBatchSizes(h, lens, round, limit))
    OBVIOUS
  <2> HIDE DEF h, parts
  <2>4. Hands(h, shards, size, J)
    BY <1>2, <2>1, SortedChunkIs
  <2>5. J \in SUBSET (1 .. Len(lens))
    BY <1>1, RowsOfIs
  <2> HIDE DEF J, G
  <2>6. Deals(parts[c], shards, RectangularRows(lens, limit), J)
    BY <1>1, <2>2, <2>3, <2>4, <2>5, DynamicCuts
  <2> QED
    BY <2>6 DEF J, G
<1>5. shard = [k \in 1 .. shards |-> [c \in 1 .. C |-> parts[c][k]]]
  BY <1>3
<1> HIDE DEF parts, G
<1>6. Sharding(shard, shards, C, B, G)
  BY <1>1, <1>4, <1>5, ShardingIs
<1> QED
  BY <1>6 DEF shard, G

-----------------------------------------------------------------------------
(* Sequence packing.                                                        *)

LEMMA FewBins ==
  ASSUME NEW lens, NEW capacity, NEW bins, NEW I, IsFiniteSet(I),
         Packs(bins, UsedBins(lens, capacity), I)
  PROVE  Len(bins) \in Nat /\ Len(bins) <= Cardinality(I)
<1> DEFINE n == Len(bins)
           f == [b \in 1 .. n |-> bins[b][1]]
<1>1. /\ n \in Nat /\ bins \in Seq(UsedBins(lens, capacity)) /\ Apart(bins)
      /\ \A x : Held(bins, x) <=> x \in I
  BY LenProperties DEF Packs
<1>2. ASSUME NEW b \in 1 .. n PROVE 1 \in 1 .. Len(bins[b])
  <2>1. bins[b] \in UsedBins(lens, capacity)
    BY <1>1, ElementOfSeq
  <2>2. bins[b] \in Seq(DOMAIN lens) /\ bins[b] # <<>>
    BY <2>1 DEF UsedBins, Bins
  <2> QED
    BY <2>2, EmptySeq, LenProperties
<1>3. ASSUME NEW b \in 1 .. n PROVE f[b] \in I
  <2>1. MemberOf(bins[b], bins[b][1])
    BY <1>2 DEF MemberOf
  <2>2. Held(bins, bins[b][1])
    BY <2>1 DEF Held
  <2> QED
    BY <1>1, <2>2
<1>4. ASSUME NEW b \in 1 .. n, NEW c \in 1 .. n, f[b] = f[c] PROVE b = c
  <2>1. bins[b][1] = bins[c][1]
    BY <1>4
  <2> QED
    BY <1>1, <1>2, <2>1 DEF Apart
<1>5. f \in Injection(1 .. n, I)
  BY <1>3, <1>4 DEF Injection, IsInjective
<1>6. Cardinality(1 .. n) <= Cardinality(I)
  BY <1>5, FS_Injection
<1>7. Cardinality(1 .. n) = n
  <2>1. Cardinality(1 .. n) = IF 1 > n THEN 0 ELSE n - 1 + 1
    BY <1>1, FS_Interval, SMTT(30)
  <2> QED
    BY <1>1, <2>1
<1> QED
  BY <1>1, <1>6, <1>7

\* The packer of a batch, and the order in which it shuffles any "most" rows.
IsPacker(packer, limit, most) ==
    /\ packer.capacity = limit
    /\ packer.algorithm \in {"concatenative", "ffd", "mffd", "shuffle"}
    /\ packer.algorithm = "shuffle" =>
           /\ packer.order \in Seq(Nat \ {0}) /\ Once(packer.order)
           /\ \A i \in 1 .. most : MemberOf(packer.order, i)

LEMMA ShufflePacks ==
  ASSUME NEW padded, NEW limit, Lengths(padded, limit),
         NEW order \in Seq(Nat \ {0}), Once(order),
         \A i \in 1 .. Len(padded) : MemberOf(order, i),
         NEW kept, kept = Kept(order, {n \in DOMAIN order : order[n] <= Len(padded)})
  PROVE  Packs(FirstFit(padded, limit, kept), UsedBins(padded, limit), DOMAIN padded)
<1> DEFINE P == {n \in DOMAIN order : order[n] <= Len(padded)}
           N == Len(padded)
<1>1. DOMAIN padded = 1 .. N /\ N \in Nat
  BY LengthsWeigh
<1>2. DOMAIN order = 1 .. Len(order) /\ \A n \in 1 .. Len(order) : order[n] \in Nat \ {0}
  BY ElementOfSeq, LenProperties
<1>3. kept = Kept(order, P)
  OBVIOUS
<1>4. \A p : p \in P <=> p \in 1 .. Len(order) /\ order[p] <= N
  BY <1>2
<1> HIDE DEF P, N
<1>5. /\ kept \in Seq(Nat \ {0}) /\ Once(kept)
      /\ \A x : MemberOf(kept, x) <=> \E p \in 1 .. Len(order) : p \in P /\ order[p] = x
  <2> DEFINE k == Kept(order, P)
  <2>1. /\ k \in Seq(Nat \ {0}) /\ (Once(order) => Once(k))
        /\ \A x : MemberOf(k, x) <=> \E p \in 1 .. Len(order) : p \in P /\ order[p] = x
    BY KeptMembers
  <2>2. kept = k
    BY <1>3
  <2> HIDE DEF k
  <2> QED
    BY <2>1, <2>2
<1>6. \A x : MemberOf(kept, x) <=> x \in 1 .. N
  <2>1. ASSUME NEW x, MemberOf(kept, x) PROVE x \in 1 .. N
    BY <1>1, <1>2, <1>4, <1>5, <2>1
  <2>2. ASSUME NEW x \in 1 .. N PROVE MemberOf(kept, x)
    <3>1. PICK p \in 1 .. Len(order) : order[p] = x
      BY DEF MemberOf, N
    <3>2. p \in P
      BY <1>1, <1>4, <3>1, SMTT(30)
    <3> QED
      BY <1>5, <3>1, <3>2
  <2> QED
    BY <2>1, <2>2
<1>7. Len(kept) \in Nat /\ kept \in Seq(DOMAIN padded)
  <2>1. kept = [n \in 1 .. Len(kept) |-> kept[n]] /\ Len(kept) \in Nat
    BY <1>5, LenProperties
  <2>2. \A n \in 1 .. Len(kept) : kept[n] \in 1 .. N
    BY <1>6 DEF MemberOf
  <2>3. kept \in Seq(1 .. N)
    <3> DEFINE m == Len(kept)
               X == 1 .. N
    <3> HIDE DEF m, X
    <3>1. m \in Nat /\ kept = [n \in 1 .. m |-> kept[n]]
      BY <2>1 DEF m
    <3>2. \A n \in 1 .. m : kept[n] \in X
      BY <2>2 DEF m, X
    <3>3. kept \in Seq(X) /\ Len(kept) = m
      BY <3>1, <3>2, SeqOfFunction
    <3> QED
      BY <3>3 DEF X
  <2> QED
    BY <1>1, <2>1, <2>3
<1>8. Packs(FirstFit(padded, limit, kept), UsedBins(padded, limit), Placed(kept, Len(kept)))
  BY <1>5, <1>7, FirstFitPacks
<1>9. Placed(kept, Len(kept)) = DOMAIN padded
  <2>1. \A x : x \in Placed(kept, Len(kept)) <=> MemberOf(kept, x)
    BY DEF Placed, MemberOf
  <2> QED
    BY <1>1, <1>6, <2>1
<1> QED
  BY <1>8, <1>9, Zenon

\* Whatever the lengths, each of the packers (concatenative, first-fit
\* decreasing, shuffled and modified first-fit decreasing) puts every item into
\* one bin, and into none more than its capacity (pack of
\* data/packing/algorithms.py).
THEOREM PackPacks ==
  ASSUME NEW padded, NEW limit, Lengths(padded, limit),
         NEW packer, NEW most, IsPacker(packer, limit, most), most = Len(padded)
  PROVE  Packs(Pack(packer, padded), UsedBins(padded, limit), DOMAIN padded)
<1> DEFINE G == UsedBins(padded, limit)
           I == DOMAIN padded
<1>1. packer.capacity = limit
  BY DEF IsPacker
<1>2. CASE packer.algorithm = "concatenative"
  <2>1. Pack(packer, padded) = Concatenative(padded, limit)
    BY <1>1, <1>2 DEF Pack
  <2> QED
    BY <2>1, ConcatenativePacks, Zenon
<1>3. CASE packer.algorithm = "ffd"
  <2>1. Pack(packer, padded) = FirstFitDecreasing(padded, limit)
    BY <1>1, <1>3 DEF Pack
  <2> QED
    BY <2>1, FirstFitDecreasingPacks, Zenon
<1>4. CASE packer.algorithm = "mffd"
  <2>1. Pack(packer, padded) = ModifiedFirstFitDecreasing(padded, limit)
    BY <1>1, <1>4 DEF Pack
  <2> QED
    BY <2>1, ModifiedPacks, Zenon
<1>5. CASE packer.algorithm = "shuffle"
  <2> DEFINE kept == Kept(packer.order, {n \in DOMAIN packer.order :
                                            packer.order[n] <= Len(padded)})
  <2>1. Pack(packer, padded) = FirstFit(padded, limit, kept)
    BY <1>1, <1>5 DEF Pack
  <2>2. /\ packer.order \in Seq(Nat \ {0}) /\ Once(packer.order)
        /\ \A i \in 1 .. Len(padded) : MemberOf(packer.order, i)
    BY <1>5 DEF IsPacker
  <2>3. Packs(FirstFit(padded, limit, kept), UsedBins(padded, limit), DOMAIN padded)
    BY <2>2, ShufflePacks
  <2> QED
    BY <2>1, <2>3, Zenon
<1> QED
  BY <1>2, <1>3, <1>4, <1>5 DEF IsPacker

\* The members of a sequence at these numbers.
Pick(bin, chunk) == [n \in DOMAIN bin |-> chunk[bin[n]]]

LEMMA PickMembers ==
  ASSUME NEW J, NEW chunk \in Seq(J), NEW X, X = 1 .. Len(chunk), NEW bin \in Seq(X)
  PROVE  /\ Pick(bin, chunk) \in Seq(J) /\ Len(Pick(bin, chunk)) = Len(bin)
         /\ \A n \in 1 .. Len(bin) : bin[n] \in X /\ Pick(bin, chunk)[n] = chunk[bin[n]]
         /\ \A x : MemberOf(Pick(bin, chunk), x) <=> \E i \in X : MemberOf(bin, i) /\ chunk[i] = x
<1> DEFINE s == Pick(bin, chunk)
           m == Len(bin)
<1>1. m \in Nat /\ DOMAIN bin = 1 .. m /\ \A n \in 1 .. m : bin[n] \in X
  BY ElementOfSeq, LenProperties
<1>2. \A i \in X : chunk[i] \in J
  BY ElementOfSeq
<1>3. s = [n \in 1 .. m |-> chunk[bin[n]]]
  BY <1>1 DEF Pick
<1> HIDE DEF s, m
<1>4. s = [n \in 1 .. m |-> s[n]] /\ \A n \in 1 .. m : s[n] = chunk[bin[n]] /\ s[n] \in J
  BY <1>1, <1>2, <1>3
<1>5. s \in Seq(J) /\ Len(s) = m
  BY <1>1, <1>4, SeqOfFunction
<1>6. \A x : MemberOf(s, x) <=> \E i \in X : MemberOf(bin, i) /\ chunk[i] = x
  BY <1>1, <1>4, <1>5 DEF MemberOf, m
<1> QED
  BY <1>1, <1>4, <1>5, <1>6 DEF s, m

\* A packing of the numbers of a chunk is one of its rows.
LEMMA PickPacks ==
  ASSUME NEW J, NEW chunk \in Seq(J), Once(chunk), Contents(chunk, J),
         NEW X, X = 1 .. Len(chunk), NEW G, G \subseteq Seq(X),
         NEW bins, Packs(bins, G, X), NEW H, \A bin \in G : Pick(bin, chunk) \in H
  PROVE  /\ Packs([b \in DOMAIN bins |-> Pick(bins[b], chunk)], H, J)
         /\ Len([b \in DOMAIN bins |-> Pick(bins[b], chunk)]) = Len(bins)
<1> DEFINE t == [b \in DOMAIN bins |-> Pick(bins[b], chunk)]
           m == Len(bins)
<1>1. /\ bins \in Seq(G) /\ m \in Nat /\ DOMAIN bins = 1 .. m
      /\ \A b \in 1 .. m : bins[b] \in G
  BY ElementOfSeq, LenProperties DEF Packs
<1>2. t = [b \in 1 .. m |-> t[b]] /\ \A b \in 1 .. m : t[b] = Pick(bins[b], chunk)
  BY <1>1
<1>3. ASSUME NEW b \in 1 .. m
      PROVE  /\ t[b] \in H /\ t[b] \in Seq(J) /\ Len(t[b]) = Len(bins[b])
             /\ \A n \in 1 .. Len(bins[b]) : bins[b][n] \in X /\ t[b][n] = chunk[bins[b][n]]
             /\ \A x : MemberOf(t[b], x) <=> \E i \in X : MemberOf(bins[b], i) /\ chunk[i] = x
  <2>1. bins[b] \in G /\ bins[b] \in Seq(X)
    BY <1>1
  <2> DEFINE p == Pick(bins[b], chunk)
  <2>2. /\ p \in Seq(J) /\ Len(p) = Len(bins[b])
        /\ \A n \in 1 .. Len(bins[b]) : bins[b][n] \in X /\ p[n] = chunk[bins[b][n]]
        /\ \A x : MemberOf(p, x) <=> \E i \in X : MemberOf(bins[b], i) /\ chunk[i] = x
    BY <2>1, PickMembers
  <2>3. p \in H /\ t[b] = p
    BY <1>2, <2>1
  <2> HIDE DEF p, t
  <2> QED
    BY <2>2, <2>3, Zenon
<1> HIDE DEF t
<1>4. t \in Seq(H) /\ Len(t) = m
  <2> HIDE DEF m
  <2> QED
    BY <1>1, <1>2, <1>3, SeqOfFunction
<1>5. \A i, j \in X : chunk[i] = chunk[j] => i = j
  BY DEF Once
<1>6. Apart(t)
  <2> SUFFICES ASSUME NEW k \in 1 .. m, NEW l \in 1 .. m, k # l,
                      NEW i \in 1 .. Len(t[k]), NEW j \in 1 .. Len(t[l]), t[k][i] = t[l][j]
               PROVE  FALSE
    BY <1>4 DEF Apart
  <2>1. i \in 1 .. Len(bins[k]) /\ j \in 1 .. Len(bins[l])
    BY <1>3
  <2>2. bins[k][i] = bins[l][j]
    <3>1. bins[k][i] \in X /\ t[k][i] = chunk[bins[k][i]]
      BY <1>3, <2>1
    <3>2. bins[l][j] \in X /\ t[l][j] = chunk[bins[l][j]]
      BY <1>3, <2>1
    <3>3. chunk[bins[k][i]] = chunk[bins[l][j]]
      BY <3>1, <3>2
    <3> QED
      BY <1>5, <3>1, <3>2, <3>3, Zenon
  <2> QED
    BY <2>1, <2>2 DEF Packs, Apart, m
<1>7. \A i \in X : \E b \in 1 .. m : MemberOf(bins[b], i)
  BY DEF Packs, Held, m
<1>8. ASSUME NEW x PROVE Held(t, x) <=> x \in J
  <2>1. Held(t, x) <=> \E b \in 1 .. m : \E i \in X : MemberOf(bins[b], i) /\ chunk[i] = x
    BY <1>3, <1>4, ZenonT(30) DEF Held
  <2>2. x \in J <=> \E i \in X : chunk[i] = x
    BY DEF Contents, MemberOf
  <2> QED
    BY <1>7, <2>1, <2>2
<1> QED
  BY <1>4, <1>6, <1>8 DEF Packs, t, m

\* A microbatch of sequence packing: the padded lengths of its rows fit.
PackedRows(lens, round, limit) ==
    {rows \in Seq(1 .. Len(lens)) :
        /\ rows # <<>> /\ Once(rows)
        /\ Load(Rows(rows), [n \in DOMAIN rows |-> RoundUp(lens[rows[n]], round)]) <= limit}

Padded(lens, chunk, round) == [n \in DOMAIN chunk |-> RoundUp(lens[chunk[n]], round)]

LEMMA PaddedIs ==
  ASSUME NEW lens, NEW round, NEW limit, Rounded(lens, round, limit),
         NEW J \in SUBSET (1 .. Len(lens)), NEW chunk \in Seq(J)
  PROVE  /\ Lengths(Padded(lens, chunk, round), limit)
         /\ DOMAIN Padded(lens, chunk, round) = 1 .. Len(chunk)
         /\ Len(Padded(lens, chunk, round)) = Len(chunk)
         /\ \A n \in 1 .. Len(chunk) :
               Padded(lens, chunk, round)[n] = RoundUp(lens[chunk[n]], round)
<1> DEFINE p == Padded(lens, chunk, round)
           m == Len(chunk)
<1>1. m \in Nat /\ DOMAIN chunk = 1 .. m /\ \A n \in 1 .. m : chunk[n] \in 1 .. Len(lens)
  <2>1. \A n \in 1 .. m : chunk[n] \in J
    BY ElementOfSeq
  <2> QED
    BY <2>1, LenProperties
<1>2. /\ DOMAIN lens = 1 .. Len(lens) /\ round \in Nat \ {0} /\ limit \in Nat
      /\ \A i \in 1 .. Len(lens) : lens[i] \in Nat /\ RoundUp(lens[i], round) <= limit
  BY RoundedIs DEF Rounded
<1>3. \A i \in 1 .. Len(lens) : RoundUp(lens[i], round) \in Nat
  BY <1>2, RoundUpIs
<1>4. p = [n \in 1 .. m |-> RoundUp(lens[chunk[n]], round)]
  BY <1>1 DEF Padded
<1> HIDE DEF p, m
<1>5. /\ p = [n \in 1 .. m |-> p[n]] /\ DOMAIN p = 1 .. m
      /\ \A n \in 1 .. m : p[n] = RoundUp(lens[chunk[n]], round)
  BY <1>4
<1>6. \A n \in 1 .. m : p[n] \in Nat /\ p[n] <= limit
  BY <1>1, <1>2, <1>3, <1>5
<1>7. p \in Seq(Nat) /\ Len(p) = m
  BY <1>1, <1>5, <1>6, SeqOfFunction
<1> QED
  BY <1>2, <1>5, <1>6, <1>7 DEF Lengths, p, m

LEMMA PickFits ==
  ASSUME NEW lens, NEW round, NEW limit, Rounded(lens, round, limit),
         NEW J \in SUBSET (1 .. Len(lens)), NEW chunk \in Seq(J), Once(chunk),
         NEW bin \in UsedBins(Padded(lens, chunk, round), limit)
  PROVE  Pick(bin, chunk) \in PackedRows(lens, round, limit)
<1> DEFINE p == Padded(lens, chunk, round)
           X == 1 .. Len(chunk)
           rows == Pick(bin, chunk)
           weights == [n \in DOMAIN rows |-> RoundUp(lens[rows[n]], round)]
           I == 1 .. Len(bin)
<1>1. /\ Lengths(p, limit) /\ DOMAIN p = X
      /\ \A n \in X : p[n] = RoundUp(lens[chunk[n]], round)
  BY PaddedIs
<1>2. bin \in Seq(X) /\ bin # <<>> /\ Once(bin) /\ Load(bin, p) <= limit /\ bin \in Seq(DOMAIN p)
  BY <1>1 DEF UsedBins, Bins
<1>3. /\ rows \in Seq(J) /\ Len(rows) = Len(bin)
      /\ \A n \in I : bin[n] \in X /\ rows[n] = chunk[bin[n]]
  BY <1>2, PickMembers
<1>4. Weighs(p, DOMAIN p)
  BY <1>1, LengthsWeigh
<1>5. Len(bin) \in Nat /\ Len(bin) # 0
  BY <1>2, EmptySeq, LenProperties
<1> HIDE DEF p, X, rows
<1>6. DOMAIN rows = I
  BY <1>3, LenProperties
<1>7. \A n \in I : weights[n] = p[bin[n]]
  BY <1>1, <1>3, <1>6
<1>8. Rows(rows) = [n \in I |-> n]
  BY <1>6 DEF Rows
<1>9. Rows(rows) \in Seq(I) /\ Len(Rows(rows)) = Len(bin) /\ \A n \in I : Rows(rows)[n] = n
  <2> DEFINE f == [n \in I |-> n]
  <2>1. f \in Seq(I) /\ Len(f) = Len(bin) /\ \A n \in I : f[n] = n
    BY <1>5
  <2> HIDE DEF f
  <2> QED
    BY <1>8, <2>1 DEF f
<1>10. Weighs(weights, I)
  <2>1. \A n \in I : p[bin[n]] \in Nat
    BY <1>1, <1>3, <1>4 DEF Weighs
  <2> QED
    BY <1>7, <2>1 DEF Weighs
<1> HIDE DEF weights
<1>11. \A n \in 1 .. Len(bin) : weights[Rows(rows)[n]] = p[bin[n]]
  BY <1>7, <1>9
<1>12. Load(Rows(rows), weights) = Load(bin, p)
  <2> DEFINE D == DOMAIN p
             w == Rows(rows)
  <2>1. /\ bin \in Seq(D) /\ Weighs(p, D) /\ w \in Seq(I) /\ Weighs(weights, I)
        /\ Len(w) = Len(bin) /\ \A n \in 1 .. Len(bin) : weights[w[n]] = p[bin[n]]
    BY <1>2, <1>4, <1>9, <1>10, <1>11
  <2> HIDE DEF D, w, I
  <2>2. Load(w, weights) = Load(bin, p)
    BY <2>1, SameLoad
  <2> QED
    BY <2>2 DEF w
<1>13. rows \in Seq(1 .. Len(lens)) /\ rows # <<>>
  BY <1>3, <1>5, EmptySeq, SeqMonotonic
<1>a. Once(rows)
  <2> SUFFICES ASSUME NEW i \in I, NEW j \in I, rows[i] = rows[j] PROVE i = j
    BY <1>3 DEF Once
  <2>1. bin[i] \in X /\ bin[j] \in X /\ chunk[bin[i]] = chunk[bin[j]]
    BY <1>3
  <2>2. bin[i] = bin[j]
    BY <2>1 DEF Once, X
  <2> QED
    BY <1>2, <2>2 DEF Once
<1>14. Load(Rows(rows), [n \in DOMAIN rows |-> RoundUp(lens[rows[n]], round)]) <= limit
  BY <1>2, <1>12 DEF weights
<1> QED
  BY <1>13, <1>14, <1>a DEF PackedRows, rows

LEMMA CountUpTo ==
  ASSUME NEW m \in Nat
  PROVE  IsFiniteSet(1 .. m) /\ Cardinality(1 .. m) = m
<1>1. 1 \in Int /\ m \in Int
  OBVIOUS
<1>2. IsFiniteSet(1 .. m) /\ Cardinality(1 .. m) = IF 1 > m THEN 0 ELSE m - 1 + 1
  BY <1>1, FS_Interval
<1> QED
  BY <1>2

LEMMA PackedChunk ==
  ASSUME NEW lens, NEW round, NEW limit, Rounded(lens, round, limit),
         NEW J \in SUBSET (1 .. Len(lens)), NEW chunk \in Seq(J),
         Once(chunk), Contents(chunk, J),
         NEW shards \in Nat \ {0}, NEW size \in Nat \ {0}, Len(chunk) = Area(shards, size),
         NEW packer, NEW most, IsPacker(packer, limit, most), most = Len(chunk),
         NEW bins, bins = PackedBins(lens, chunk, shards, round, packer)
  PROVE  \E t \in Nat : /\ Len(bins) = Area(shards, t)
                        /\ Packs(bins, PackedRows(lens, round, limit), J)
                        /\ TargetCount(Pack(packer, Padded(lens, chunk, round)), shards)
                               <= Len(chunk)
<1> DEFINE p == Padded(lens, chunk, round)
           X == 1 .. Len(chunk)
           G == UsedBins(p, limit)
           H == PackedRows(lens, round, limit)
           packed == Pack(packer, p)
           adjusted == AdjustBinCount(packed, shards)
<1>1. Lengths(p, limit) /\ DOMAIN p = X /\ Len(p) = Len(chunk)
  BY PaddedIs
<1>2. /\ X = 1 .. Len(chunk) /\ IsFiniteSet(X) /\ Cardinality(X) = Len(chunk)
      /\ Len(chunk) \in Nat
  <2>1. Len(chunk) \in Nat
    BY LenProperties
  <2> QED
    BY <2>1, CountUpTo
<1>3. bins = [b \in DOMAIN adjusted |-> Pick(adjusted[b], chunk)]
  BY Zenon DEF PackedBins, Padded, Pick
<1>4. \A bin \in G : Pick(bin, chunk) \in H
  BY PickFits
<1>5. G \subseteq Seq(X)
  BY <1>1 DEF UsedBins, Bins
<1> HIDE DEF p, X, H
<1>6. Packs(packed, G, X)
  <2>1. Packs(packed, G, DOMAIN p)
    BY <1>1, PackPacks
  <2> QED
    BY <1>1, <2>1
<1>7. Len(packed) \in Nat /\ Len(packed) <= Len(chunk)
  BY <1>2, <1>6, FewBins
<1> HIDE DEF packed
<1>8. PICK t \in Nat \ {0} :
          /\ TargetCount(packed, shards) = shards * t
          /\ shards * t \in Nat
          /\ \A q \in Nat \ {0} : Len(packed) <= shards * q => shards * t <= shards * q
  BY <1>7, TargetIs
<1>9. TargetCount(packed, shards) = Area(shards, t) /\ Area(shards, t) <= Len(chunk)
  <2>1. Len(chunk) = shards * size
    BY DEF Area
  <2>2. Len(packed) <= shards * size
    BY <1>7, <2>1
  <2>3. shards * t <= shards * size
    BY <1>8, <2>2
  <2> QED
    BY <1>8, <2>1, <2>3 DEF Area
<1>10. TargetCount(packed, shards) <= Cardinality(X)
  BY <1>2, <1>9
<1>11. Packs(adjusted, G, X) /\ Len(adjusted) = Area(shards, t)
  BY <1>1, <1>2, <1>6, <1>9, <1>10, AdjustedPacks
<1> HIDE DEF adjusted, G
<1>12. /\ Packs([b \in DOMAIN adjusted |-> Pick(adjusted[b], chunk)], H, J)
       /\ Len([b \in DOMAIN adjusted |-> Pick(adjusted[b], chunk)]) = Len(adjusted)
  BY <1>2, <1>4, <1>5, <1>11, PickPacks
<1>13. Packs(bins, H, J) /\ Len(bins) = Area(shards, t)
  BY <1>3, <1>11, <1>12, Zenon
<1>14. TargetCount(packed, shards) <= Len(chunk)
  BY <1>9
<1> QED
  BY <1>13, <1>14 DEF H, packed, p

\* The bins of a chunk go to the shards in turn.
InTurn(d, b, shards) ==
    \A k \in 1 .. shards :
        d[k] = [m \in 1 .. ((Len(b) + shards - k) \div shards) |-> b[(m - 1) * shards + k]]

LEMMA BinsInTurn ==
  ASSUME NEW G, NEW b, NEW J, Packs(b, G, J),
         NEW shards \in Nat \ {0}, NEW t \in Nat, Len(b) = Area(shards, t),
         NEW d, InTurn(d, b, shards)
  PROVE  Deals(d, shards, G, J)
<1>1. ASSUME NEW k \in 1 .. shards PROVE d[k] = [m \in 1 .. t |-> b[Cell(m, shards, k)]]
  <2>1. (Area(shards, t) + shards - k) \div shards = t
    BY DealtCount
  <2>2. d[k] = [m \in 1 .. ((Len(b) + shards - k) \div shards) |-> b[(m - 1) * shards + k]]
    BY DEF InTurn
  <2> QED
    BY <2>1, <2>2, Zenon DEF Cell
<1>2. \A k \in 1 .. shards : d[k] = [m \in 1 .. t |-> b[Cell(m, shards, k)]]
  BY <1>1
<1> QED
  BY <1>2, DealtBins

\* With sequence packing too, and no microbatch has more than the limit; the bins
\* of a chunk, made a multiple of the shards, are no more than its rows.
THEOREM PackedSharding ==
  ASSUME NEW shards, NEW size, NEW C, NEW B, NEW n, Dims(shards, size, C, B, n),
         NEW lens, NEW round, NEW limit, Rounded(lens, round, limit), Len(lens) = n,
         NEW packer, NEW most, IsPacker(packer, limit, most), most = B
  PROVE  /\ Sharding(PackedShards(lens, shards, B, round, packer), shards, C, B,
                     PackedRows(lens, round, limit))
         /\ \A c \in 1 .. C :
               TargetCount(Pack(packer, Padded(lens, Chunk(Rows(lens), c, B), round)), shards)
                   <= B
<1> DEFINE H == PackedRows(lens, round, limit)
           chunk(c) == Chunk(Rows(lens), c, B)
           bin(c) == PackedBins(lens, chunk(c), shards, round, packer)
           bins == [c \in 1 .. C |-> bin(c)]
           part(c, k) == [m \in 1 .. ((Len(bins[c]) + shards - k) \div shards) |->
                             bins[c][(m - 1) * shards + k]]
           parts == [c \in 1 .. C |-> [k \in 1 .. shards |-> part(c, k)]]
           shard == PackedShards(lens, shards, B, round, packer)
<1>1. /\ shards \in Nat \ {0} /\ shards \in Nat /\ size \in Nat \ {0} /\ C \in Nat
      /\ B \in Nat \ {0} /\ n \in Nat /\ n = Area(B, C) /\ B = Area(shards, size)
      /\ n \div B = C
  BY DimsAre
<1>2. DOMAIN lens = 1 .. n
  BY <1>1, RoundedIs
<1>3. ASSUME NEW c \in 1 .. C
      PROVE  \E t \in Nat : /\ Len(bin(c)) = Area(shards, t)
                            /\ Packs(bin(c), H, RowsOf(c, B))
                            /\ TargetCount(Pack(packer, Padded(lens, chunk(c), round)), shards)
                                   <= B
  <2> DEFINE J == RowsOf(c, B)
             s == chunk(c)
             b == bin(c)
  <2>1. s \in Seq(J) /\ Len(s) = B /\ Once(s) /\ Contents(s, J)
    BY <1>1, <1>2, ChunkRows
  <2>2. J \in SUBSET (1 .. Len(lens))
    BY <1>1, RowsOfIs
  <2>3. b = PackedBins(lens, s, shards, round, packer)
    OBVIOUS
  <2> HIDE DEF J, b, s
  <2>4. Len(s) = Area(shards, size)
    BY <1>1, <2>1
  <2>5. \E t \in Nat : /\ Len(b) = Area(shards, t)
                       /\ Packs(b, PackedRows(lens, round, limit), J)
                       /\ TargetCount(Pack(packer, Padded(lens, s, round)), shards) <= Len(s)
    BY <1>1, <2>1, <2>2, <2>3, <2>4, PackedChunk
  <2> QED
    BY <2>1, <2>5 DEF J, b, s
<1>4. shard = [k \in 1 .. shards |-> [c \in 1 .. C |-> part(c, k)]]
  <2>1. NumChunks(lens, B) = C
    BY <1>1, Zenon DEF NumChunks
  <2>2. DOMAIN bins = 1 .. C
    OBVIOUS
  <2> HIDE DEF chunk
  <2>3. shard = [k \in 1 .. shards |-> [c \in DOMAIN bins |-> part(c, k)]]
    BY <2>1, Zenon DEF PackedShards, chunk
  <2> HIDE DEF shard, part, bins
  <2> QED
    BY <2>2, <2>3, Zenon
<1> HIDE DEF shard, H
<1>5. ASSUME NEW c \in 1 .. C PROVE Deals(parts[c], shards, H, RowsOf(c, B))
  <2> DEFINE b == bins[c]
             d == parts[c]
             J == RowsOf(c, B)
  <2>1. PICK t \in Nat : Len(b) = Area(shards, t) /\ Packs(b, H, J)
    <3>1. b = bin(c)
      OBVIOUS
    <3> HIDE DEF b, bin
    <3> QED
      BY <1>3, <3>1
  <2>2. InTurn(d, b, shards)
    BY DEF InTurn
  <2> HIDE DEF b, d
  <2> HIDE DEF J
  <2>5. Deals(d, shards, H, J)
    BY <1>1, <2>1, <2>2, BinsInTurn
  <2> QED
    BY <2>5 DEF d, J
<1>6. shard = [k \in 1 .. shards |-> [c \in 1 .. C |-> parts[c][k]]]
  BY <1>4
<1> HIDE DEF parts
<1>7. Sharding(shard, shards, C, B, H)
  BY <1>1, <1>5, <1>6, ShardingIs
<1>8. \A c \in 1 .. C :
          TargetCount(Pack(packer, Padded(lens, chunk(c), round)), shards) <= B
  BY <1>3
<1> QED
  BY <1>7, <1>8 DEF shard, H, chunk

-----------------------------------------------------------------------------
(* What the shards hold.                                                    *)

\* The parts up to the i-th.
Within(ss, i, x) == \E c \in 1 .. i : Held(ss[c], x)

\* The parts hold nothing in common, and each is a packing.
PartsApart(ss, G) ==
    /\ \A c \in 1 .. Len(ss) : ss[c] \in Seq(G) /\ Apart(ss[c])
    /\ \A c, d \in 1 .. Len(ss) : c # d => \A x : ~(Held(ss[c], x) /\ Held(ss[d], x))

LEMMA JoinPacked ==
  ASSUME NEW G, NEW r, NEW s, r \in Seq(G), s \in Seq(G), Apart(r), Apart(s),
         \A x : ~(Held(r, x) /\ Held(s, x))
  PROVE  /\ r \o s \in Seq(G) /\ Apart(r \o s)
         /\ \A x : Held(r \o s, x) <=> Held(r, x) \/ Held(s, x)
<1> DEFINE U == UNION {{b[i] : i \in 1 .. Len(b)} : b \in {r[k] : k \in 1 .. Len(r)} \cup {s[k] : k \in 1 .. Len(s)}}
           I == {x \in U : Held(r, x)}
           J == {x \in U : Held(s, x)}
<1>1. \A x : Held(r, x) => x \in U
  BY DEF Held, MemberOf
<1>2. \A x : Held(s, x) => x \in U
  BY DEF Held, MemberOf
<1> HIDE DEF U
<1>3. Packs(r, G, I) /\ Packs(s, G, J)
  BY <1>1, <1>2 DEF Packs
<1>4. I \cap J = {}
  OBVIOUS
<1>5. \A x : x \in I \cup J <=> Held(r, x) \/ Held(s, x)
  BY <1>1, <1>2
<1> HIDE DEF I, J
<1>6. Packs(r \o s, G, I \cup J)
  BY <1>3, <1>4, PackJoin
<1> QED
  BY <1>5, <1>6 DEF Packs

LEMMA FlattenPacked ==
  ASSUME NEW G, NEW ss \in Seq(Seq(G)), PartsApart(ss, G)
  PROVE  /\ FlattenSeq(ss) \in Seq(G) /\ Apart(FlattenSeq(ss))
         /\ \A x : Held(FlattenSeq(ss), x) <=> Within(ss, Len(ss), x)
<1> DEFINE N == Len(ss)
<1>1. PICK g : Joins(g, ss, G)
  BY FlattenJoins
<1>2. N \in Nat
  BY LenProperties
<1> DEFINE Good(i) == Apart(g[i]) /\ \A x : Held(g[i], x) <=> Within(ss, i, x)
           S == {i \in 0 .. N : Good(i)}
<1>3. 0 \in S
  <2>1. g[0] = <<>>
    BY <1>1 DEF Joins
  <2>2. Apart(g[0]) /\ \A x : ~Held(g[0], x)
    BY <2>1 DEF Apart, Held
  <2>3. \A x : ~Within(ss, 0, x)
    BY DEF Within
  <2> QED
    BY <1>2, <2>2, <2>3
<1>4. ASSUME NEW i \in 1 .. N, i - 1 \in S PROVE i \in S
  <2>1. i \in 0 .. N /\ i - 1 \in 0 .. N /\ Good(i - 1) /\ i \in Nat
    BY <1>2, <1>4
  <2>2. g[i] = g[i - 1] \o ss[i] /\ g[i - 1] \in Seq(G)
    BY <1>1, <2>1 DEF Joins
  <2>3. ss[i] \in Seq(G) /\ Apart(ss[i])
    BY DEF PartsApart
  <2>4. \A x : ~(Held(g[i - 1], x) /\ Held(ss[i], x))
    <3> SUFFICES ASSUME NEW x, Held(g[i - 1], x), Held(ss[i], x) PROVE FALSE
      OBVIOUS
    <3>1. PICK c \in 1 .. i - 1 : Held(ss[c], x)
      BY <2>1 DEF Within
    <3>2. c \in 1 .. N /\ c # i
      BY <1>2
    <3> QED
      BY <3>1, <3>2 DEF PartsApart
  <2>5. /\ Apart(g[i - 1] \o ss[i])
        /\ \A x : Held(g[i - 1] \o ss[i], x) <=> Held(g[i - 1], x) \/ Held(ss[i], x)
    BY <2>1, <2>2, <2>3, <2>4, JoinPacked
  <2>6. \A x : Within(ss, i, x) <=> Within(ss, i - 1, x) \/ Held(ss[i], x)
    <3>1. \A c : c \in 1 .. i <=> c \in 1 .. i - 1 \/ c = i
      BY <2>1
    <3> QED
      BY <3>1 DEF Within
  <2>7. Good(i)
    BY <2>1, <2>2, <2>5, <2>6
  <2> QED
    BY <2>1, <2>7
<1>5. \A i \in 0 .. N : i \in S
  <2> HIDE DEF S
  <2> QED
    BY <1>2, <1>3, <1>4, UpTo
<1>6. Good(N) /\ g[N] \in Seq(G) /\ FlattenSeq(ss) = g[N]
  BY <1>1, <1>2, <1>5 DEF Joins
<1> QED
  BY <1>6

LEMMA FlattenLength ==
  ASSUME NEW X, NEW ss \in Seq(Seq(X)), NEW tt \in Seq(Seq(X)), Len(ss) = Len(tt),
         \A c \in 1 .. Len(ss) : Len(ss[c]) = Len(tt[c])
  PROVE  Len(FlattenSeq(ss)) = Len(FlattenSeq(tt))
<1> DEFINE N == Len(ss)
<1>1. PICK g : Joins(g, ss, X)
  BY FlattenJoins
<1>2. PICK h : Joins(h, tt, X)
  BY FlattenJoins
<1>3. N \in Nat /\ N = Len(tt)
  BY LenProperties
<1> DEFINE S == {i \in 0 .. N : Len(g[i]) = Len(h[i])}
<1>4. 0 \in S
  <2>1. g[0] = <<>> /\ h[0] = <<>>
    BY <1>1, <1>2 DEF Joins
  <2> QED
    BY <1>3, <2>1
<1>5. ASSUME NEW i \in 1 .. N, i - 1 \in S PROVE i \in S
  <2>1. i \in 0 .. N /\ i - 1 \in 0 .. N /\ Len(g[i - 1]) = Len(h[i - 1])
    BY <1>3, <1>5
  <2>2. g[i] = g[i - 1] \o ss[i] /\ g[i - 1] \in Seq(X) /\ ss[i] \in Seq(X)
    BY <1>1, <2>1, ElementOfSeq DEF Joins
  <2>3. h[i] = h[i - 1] \o tt[i] /\ h[i - 1] \in Seq(X) /\ tt[i] \in Seq(X)
    BY <1>2, <1>3, <2>1, ElementOfSeq DEF Joins
  <2>4. Len(g[i]) = Len(g[i - 1]) + Len(ss[i]) /\ Len(h[i]) = Len(h[i - 1]) + Len(tt[i])
    BY <2>2, <2>3, ConcatProperties
  <2> QED
    BY <2>1, <2>4
<1>6. \A i \in 0 .. N : i \in S
  <2> HIDE DEF S
  <2> QED
    BY <1>3, <1>4, <1>5, UpTo
<1>7. N \in S
  BY <1>3, <1>6
<1> QED
  BY <1>1, <1>2, <1>3, <1>7 DEF Joins

\* A sequence with each member once is as long as there are members.
LEMMA OnceCount ==
  ASSUME NEW X, IsFiniteSet(X), NEW s \in Seq(X), Once(s), Contents(s, X)
  PROVE  Len(s) \in Nat /\ Len(s) = Cardinality(X)
<1> DEFINE m == Len(s)
           f == [x \in X |-> CHOOSE i \in 1 .. m : s[i] = x]
<1>1. /\ m \in Nat /\ s = [i \in 1 .. m |-> s[i]] /\ \A i \in 1 .. m : s[i] \in X
  BY ElementOfSeq, LenProperties
<1>2. IsFiniteSet(1 .. m) /\ Cardinality(1 .. m) = m
  BY <1>1, CountUpTo
<1>3. \A x \in X : f[x] \in 1 .. m /\ s[f[x]] = x
  BY DEF Contents, MemberOf
<1>4. f \in [X -> 1 .. m]
  BY <1>3
<1> HIDE DEF f, m
<1>5. f \in Injection(X, 1 .. m)
  <2>1. \A x, y \in X : f[x] = f[y] => x = y
    BY <1>3
  <2> QED
    BY <1>4, <2>1 DEF Injection, IsInjective
<1>6. s \in Injection(1 .. m, X)
  <2>1. \A i, j \in 1 .. m : s[i] = s[j] => i = j
    BY DEF Once, m
  <2>2. s \in [1 .. m -> X]
    BY <1>1
  <2> QED
    BY <2>1, <2>2 DEF Injection, IsInjective
<1>7. Cardinality(X) <= Cardinality(1 .. m) /\ Cardinality(1 .. m) <= Cardinality(X)
  BY <1>2, <1>5, <1>6, FS_Injection
<1>8. Cardinality(X) \in Nat
  BY FS_CardinalityType
<1> QED
  BY <1>1, <1>2, <1>7, <1>8 DEF m

LEMMA ChunksApart ==
  ASSUME NEW B \in Nat \ {0}, NEW C \in Nat
  PROVE  /\ \A c, d \in 1 .. C : c # d => \A x : ~(x \in RowsOf(c, B) /\ x \in RowsOf(d, B))
         /\ \A x \in 1 .. Area(B, C) : \E c \in 1 .. C : x \in RowsOf(c, B)
<1>1. \A c \in 1 .. C : Spans(RowsOf(c, B), c, B)
  BY RowsOfIs
<1>2. ASSUME NEW c \in 1 .. C, NEW d \in 1 .. C, NEW x,
             x \in RowsOf(c, B), x \in RowsOf(d, B)
      PROVE  c = d
  <2>1. PICK i \in 1 .. B : x = Cell(c, B, i)
    BY <1>1, <1>2, Zenon DEF Spans
  <2>2. PICK j \in 1 .. B : x = Cell(d, B, j)
    BY <1>1, <1>2, Zenon DEF Spans
  <2>3. Cell(c, B, i) = Cell(d, B, j)
    BY <2>1, <2>2, Zenon
  <2> QED
    BY <2>3, CellsApart
<1>3. ASSUME NEW x \in 1 .. Area(B, C) PROVE \E c \in 1 .. C : x \in RowsOf(c, B)
  <2>1. /\ Area(B, C) \in Nat
        /\ \A y \in 1 .. Area(B, C) : \E c \in 1 .. C : \E i \in 1 .. B : y = Cell(c, B, i)
    BY Cells
  <2>2. PICK c \in 1 .. C : \E i \in 1 .. B : x = Cell(c, B, i)
    BY <2>1
  <2> QED
    BY <1>1, <2>2, Zenon DEF Spans
<1> QED
  BY <1>2, <1>3

\* A shard's microbatches, and its rows.
MicroBatchesOf(shard, k) == FlattenSeq(shard[k])
RowsOfShard(shard, k) == FlattenSeq(MicroBatchesOf(shard, k))

\* What is known of a shard's part.
ShardPart(shard, shards, C, B, G, k) ==
    /\ shard[k] \in Seq(Seq(G)) /\ Len(shard[k]) = C
    /\ \A c \in 1 .. C : shard[k][c] \in Seq(G) /\ \A x : Held(shard[k][c], x) => x \in RowsOf(c, B)
    /\ \A c \in 1 .. C : Len(shard[k][c]) = Len(shard[1][c])
    /\ \A c \in 1 .. C : \A l \in 1 .. shards :
          k # l => \A x : ~(Held(shard[k][c], x) /\ Held(shard[l][c], x))
    /\ MicroBatchesOf(shard, k) \in Seq(G)
    /\ RowsOfShard(shard, k) \in Seq(1 .. Area(B, C)) /\ Once(RowsOfShard(shard, k))
    /\ \A x : MemberOf(RowsOfShard(shard, k), x) <=> Within(shard[k], C, x)

LEMMA ShardParts ==
  ASSUME NEW shard, NEW shards \in Nat \ {0}, NEW C \in Nat, NEW B \in Nat \ {0},
         NEW G, G \subseteq UsedRows(Area(B, C)),
         Sharding(shard, shards, C, B, G), NEW k \in 1 .. shards
  PROVE  ShardPart(shard, shards, C, B, G, k)
<1> DEFINE s == shard[k]
           mb == MicroBatchesOf(shard, k)
           row == RowsOfShard(shard, k)
           X == 1 .. Area(B, C)
<1>1. s \in Seq(Seq(G)) /\ Len(s) = C
  BY DEF Sharding
<1>2. 1 \in 1 .. shards
  OBVIOUS
<1>3. ASSUME NEW c \in 1 .. C
      PROVE  /\ s[c] \in Seq(G) /\ Apart(s[c]) /\ Len(s[c]) = Len(shard[1][c])
             /\ \A x : Held(s[c], x) => x \in RowsOf(c, B)
             /\ \A l \in 1 .. shards :
                    k # l => \A x : ~(Held(s[c], x) /\ Held(shard[l][c], x))
  <2> DEFINE p == [l \in 1 .. shards |-> shard[l][c]]
  <2>1. Deals(p, shards, G, RowsOf(c, B))
    BY DEF Sharding
  <2>2. \A l \in 1 .. shards : p[l] = shard[l][c]
    OBVIOUS
  <2> HIDE DEF p
  <2> QED
    BY <1>2, <2>1, <2>2 DEF Deals
<1>4. PartsApart(s, G)
  <2>1. ASSUME NEW c \in 1 .. C, NEW d \in 1 .. C, c # d
        PROVE  \A x : ~(Held(s[c], x) /\ Held(s[d], x))
    BY <1>3, <2>1, ChunksApart
  <2> QED
    BY <1>1, <1>3, <2>1 DEF PartsApart
<1>5. /\ mb \in Seq(G) /\ Apart(mb) /\ \A x : Held(mb, x) <=> Within(s, C, x)
  BY <1>1, <1>4, FlattenPacked DEF MicroBatchesOf
<1>6. /\ mb \in Seq(Seq(X)) /\ \A m \in 1 .. Len(mb) : Once(mb[m])
  <2>1. \A m \in 1 .. Len(mb) : mb[m] \in G
    BY <1>5, ElementOfSeq
  <2>2. G \subseteq Seq(X)
    BY DEF UsedRows
  <2>3. mb \in Seq(Seq(X))
    BY <1>5, <2>2, SeqMonotonic
  <2> QED
    BY <2>1, <2>3 DEF UsedRows
<1>7. row = FlattenSeq(mb)
  BY DEF RowsOfShard
<1> HIDE DEF s, mb, row, X
<1>8. /\ row \in Seq(X) /\ Once(row)
      /\ \A x : MemberOf(row, x) <=> Held(mb, x)
  <2>1. /\ FlattenSeq(mb) \in Seq(X)
        /\ \A x : MemberOf(FlattenSeq(mb), x) <=> \E m \in 1 .. Len(mb) : MemberOf(mb[m], x)
        /\ (\A m \in 1 .. Len(mb) : Once(mb[m])) /\ Apart(mb) => Once(FlattenSeq(mb))
    BY <1>6, FlattenMembers
  <2> QED
    BY <1>5, <1>6, <1>7, <2>1, Zenon DEF Held
<1> QED
  BY <1>1, <1>3, <1>5, <1>8 DEF ShardPart, s, mb, row, X

LEMMA ShardRows ==
  ASSUME NEW shard, NEW shards \in Nat \ {0}, NEW C \in Nat, NEW B \in Nat \ {0},
         NEW n, n = Area(B, C), NEW G, G \subseteq UsedRows(n),
         Sharding(shard, shards, C, B, G)
  PROVE  /\ Concatenated(shard) \in Seq(1 .. n) /\ Once(Concatenated(shard))
         /\ Contents(Concatenated(shard), 1 .. n) /\ Len(Concatenated(shard)) = n
         /\ n \in Nat
<1> DEFINE ss == [k \in 1 .. shards |-> RowsOfShard(shard, k)]
           X == 1 .. n
           all == Concatenated(shard)
<1>1. DOMAIN shard = 1 .. shards
  BY DEF Sharding
<1>2. all = FlattenSeq(ss)
  BY <1>1, Zenon DEF Concatenated, RowsOfShard, MicroBatchesOf
<1>3. n \in Nat
  BY Cells
<1>a. G \subseteq UsedRows(Area(B, C)) /\ X = 1 .. Area(B, C)
  OBVIOUS
<1>4. ASSUME NEW k \in 1 .. shards
      PROVE  /\ RowsOfShard(shard, k) \in Seq(X) /\ Once(RowsOfShard(shard, k))
             /\ \A x : MemberOf(RowsOfShard(shard, k), x) <=> Within(shard[k], C, x)
  BY <1>a, ShardParts DEF ShardPart
<1>5. \A k \in 1 .. shards : ss[k] = RowsOfShard(shard, k)
  OBVIOUS
<1>6. ss \in Seq(Seq(X)) /\ Len(ss) = shards
  <2>1. ss = [k \in 1 .. shards |-> ss[k]]
    OBVIOUS
  <2> HIDE DEF ss, X
  <2> QED
    BY <1>4, <1>5, <2>1, SeqOfFunction
<1> HIDE DEF ss, X, all
<1>7. \A k, l \in 1 .. shards : k # l => \A x : ~(MemberOf(ss[k], x) /\ MemberOf(ss[l], x))
  <2> SUFFICES ASSUME NEW k \in 1 .. shards, NEW l \in 1 .. shards, k # l, NEW x,
                      MemberOf(ss[k], x), MemberOf(ss[l], x)
               PROVE  FALSE
    OBVIOUS
  <2>a. Within(shard[k], C, x) /\ Within(shard[l], C, x)
    BY <1>4, <1>5
  <2>1. PICK c \in 1 .. C : Held(shard[k][c], x)
    BY <2>a, Zenon DEF Within
  <2>2. PICK d \in 1 .. C : Held(shard[l][d], x)
    BY <2>a, Zenon DEF Within
  <2>3. x \in RowsOf(c, B)
    BY <1>a, <2>1, ShardParts DEF ShardPart
  <2>4. x \in RowsOf(d, B)
    BY <1>a, <2>2, ShardParts DEF ShardPart
  <2>5. c = d
    BY <2>3, <2>4, ChunksApart
  <2>6. ~(Held(shard[k][c], x) /\ Held(shard[l][c], x))
    BY <1>a, ShardParts DEF ShardPart
  <2> QED
    BY <2>1, <2>2, <2>5, <2>6
<1>8. Apart(ss)
  BY <1>6, <1>7 DEF Apart, MemberOf
<1>9. /\ all \in Seq(X) /\ Once(all)
      /\ \A x : MemberOf(all, x) <=> \E k \in 1 .. shards : Within(shard[k], C, x)
  <2>1. /\ FlattenSeq(ss) \in Seq(X)
        /\ \A x : MemberOf(FlattenSeq(ss), x) <=> \E k \in 1 .. Len(ss) : MemberOf(ss[k], x)
        /\ (\A k \in 1 .. Len(ss) : Once(ss[k])) /\ Apart(ss) => Once(FlattenSeq(ss))
    BY <1>6, FlattenMembers
  <2> QED
    BY <1>2, <1>4, <1>5, <1>6, <1>8, <2>1
<1>10. ASSUME NEW x \in X PROVE \E k \in 1 .. shards : Within(shard[k], C, x)
  <2>1. PICK c \in 1 .. C : x \in RowsOf(c, B)
    BY ChunksApart DEF X
  <2> DEFINE p == [l \in 1 .. shards |-> shard[l][c]]
  <2>2. Deals(p, shards, G, RowsOf(c, B))
    BY DEF Sharding
  <2>3. \A l \in 1 .. shards : p[l] = shard[l][c]
    OBVIOUS
  <2> HIDE DEF p
  <2>4. PICK k \in 1 .. shards : Held(p[k], x)
    BY <2>1, <2>2 DEF Deals
  <2> QED
    BY <2>3, <2>4 DEF Within
<1>11. Contents(all, X)
  <2>1. ASSUME NEW x, MemberOf(all, x) PROVE x \in X
    BY <1>9, <2>1, ElementOfSeq DEF MemberOf
  <2> QED
    BY <1>9, <1>10, <2>1 DEF Contents
<1>12. IsFiniteSet(X) /\ Cardinality(X) = n
  BY <1>3, CountUpTo DEF X
<1>13. Len(all) = n
  BY <1>9, <1>11, <1>12, OnceCount
<1> QED
  BY <1>3, <1>9, <1>11, <1>13 DEF all, X

-----------------------------------------------------------------------------
(* Results in the order of the batch.                                       *)

LEMMA IncreasingIs ==
  ASSUME NEW n \in Nat, NEW q, \A i \in 1 .. n : q[i] \in 1 .. n,
         \A i, j \in 1 .. n : i < j => q[i] < q[j]
  PROVE  \A i \in 1 .. n : q[i] = i
<1> DEFINE S == {i \in 0 .. n : i # 0 => q[i] >= i}
           T == {j \in 0 .. n : j # 0 => q[n + 1 - j] <= n + 1 - j}
<1>1. 0 \in S /\ 0 \in T
  OBVIOUS
<1>2. ASSUME NEW i \in 1 .. n, i - 1 \in S PROVE i \in S
  <2>1. CASE i = 1
    BY <2>1
  <2>2. CASE i # 1
    <3>1. i - 1 \in 1 .. n /\ i - 1 < i
      BY <2>2
    <3>2. q[i - 1] >= i - 1 /\ q[i - 1] < q[i]
      BY <1>2, <3>1
    <3>3. q[i] \in 1 .. n /\ q[i - 1] \in 1 .. n
      BY <3>1
    <3> QED
      BY <3>2, <3>3
  <2> QED
    BY <2>1, <2>2
<1>3. ASSUME NEW j \in 1 .. n, j - 1 \in T PROVE j \in T
  <2> DEFINE a == n + 1 - j
  <2>1. a \in 1 .. n
    OBVIOUS
  <2>2. CASE j = 1
    BY <2>1, <2>2
  <2>3. CASE j # 1
    <3> DEFINE b == n + 1 - (j - 1)
    <3>1. b \in 1 .. n /\ a < b /\ b = a + 1 /\ j - 1 # 0
      BY <2>3
    <3>2. q[b] <= b
      BY <1>3, <3>1
    <3> HIDE DEF b
    <3>3. q[a] < q[b] /\ q[a] \in 1 .. n /\ q[b] \in 1 .. n
      BY <2>1, <3>1
    <3>4. q[a] <= a
      BY <2>1, <3>1, <3>2, <3>3
    <3> QED
      BY <3>4
  <2> QED
    BY <2>2, <2>3
<1>4. (\A i \in 0 .. n : i \in S) /\ \A j \in 0 .. n : j \in T
  <2> HIDE DEF S, T
  <2> QED
    BY <1>1, <1>2, <1>3, UpTo
<1>5. ASSUME NEW i \in 1 .. n PROVE q[i] = i
  <2>1. i \in S /\ i # 0 /\ n + 1 - i \in T /\ n + 1 - i # 0 /\ n + 1 - (n + 1 - i) = i
    BY <1>4
  <2>2. q[i] >= i /\ q[i] <= i
    BY <2>1
  <2> QED
    BY <2>2
<1> QED
  BY <1>5

LEMMA ReorderedIs ==
  ASSUME NEW n \in Nat, NEW o \in Seq(1 .. n), Once(o), Contents(o, 1 .. n), Len(o) = n
  PROVE  Reordered(o, o) = [i \in 1 .. n |-> i]
<1> DEFINE I == DOMAIN o
           p == Ascending(I, o)
           q == [i \in 1 .. n |-> o[p[i]]]
<1>1. I = 1 .. n /\ \A i \in 1 .. n : o[i] \in 1 .. n
  BY ElementOfSeq, LenProperties
<1>2. I \in SUBSET Nat /\ IsFiniteSet(I) /\ Cardinality(I) = n /\ Weighs(o, I)
  BY <1>1, CountUpTo DEF Weighs
<1>3. InSortedOrder(p, Shorter(I, o), I)
  <2> HIDE DEF I
  <2> QED
    BY <1>2, AscendingIs
<1>4. Reordered(o, o) = q
  BY <1>1, Zenon DEF Reordered
<1> HIDE DEF p
<1>5. /\ \A i \in 1 .. n : p[i] \in 1 .. n
      /\ \A i, j \in 1 .. n : i < j => <<p[i], p[j]>> \in Shorter(I, o)
      /\ \A i, j \in 1 .. n : p[i] = p[j] => i = j
  <2>1. Len(p) = n /\ p \in Seq(I)
    BY <1>2, <1>3 DEF InSortedOrder
  <2>2. \A i \in 1 .. n : p[i] \in I
    BY <2>1, ElementOfSeq
  <2> QED
    BY <1>1, <1>3, <2>1, <2>2 DEF InSortedOrder
<1>6. ASSUME NEW i \in 1 .. n, NEW j \in 1 .. n, i < j PROVE q[i] < q[j]
  <2>1. <<p[i], p[j]>> \in Shorter(I, o) /\ p[i] \in 1 .. n /\ p[j] \in 1 .. n
    BY <1>5, <1>6
  <2>2. \/ o[p[i]] < o[p[j]]
        \/ o[p[i]] = o[p[j]] /\ p[i] < p[j]
    BY <2>1 DEF Shorter
  <2>3. o[p[i]] = o[p[j]] => p[i] = p[j]
    BY <2>1 DEF Once
  <2>4. o[p[i]] < o[p[j]]
    BY <2>1, <2>2, <2>3
  <2> QED
    BY <2>4
<1>7. \A i \in 1 .. n : q[i] \in 1 .. n
  BY <1>1, <1>5
<1>8. \A i \in 1 .. n : q[i] = i
  <2> HIDE DEF q
  <2>1. \A i, j \in 1 .. n : i < j => q[i] < q[j]
    BY <1>6
  <2> QED
    BY <1>7, <2>1, IncreasingIs
<1>9. q = [i \in 1 .. n |-> i]
  <2>1. q = [i \in 1 .. n |-> q[i]]
    OBVIOUS
  <2> HIDE DEF q
  <2> QED
    BY <1>8, <2>1
<1> QED
  BY <1>4, <1>9, Zenon

LEMMA FlattenOne ==
  ASSUME NEW X, NEW s \in Seq(X), NEW ss, ss = [c \in 1 .. 1 |-> s]
  PROVE  FlattenSeq(ss) = s
<1>1. ss \in Seq(Seq(X)) /\ Len(ss) = 1 /\ ss[1] = s
  OBVIOUS
<1>2. PICK g : Joins(g, ss, X)
  BY <1>1, FlattenJoins
<1>3. 1 \in 1 .. 1 /\ 1 - 1 = 0
  OBVIOUS
<1>4. g[0] = <<>> /\ g[1] = g[0] \o s /\ FlattenSeq(ss) = g[1]
  BY <1>1, <1>2, <1>3 DEF Joins
<1> QED
  BY <1>4, ConcatEmptySeq

\* Of one chunk, plain shards are slices of the batch.
LEMMA PlainRows ==
  ASSUME NEW shards, NEW size, NEW n, Dims(shards, size, 1, n, n),
         NEW lens, Len(lens) = n, DOMAIN lens = 1 .. n,
         NEW w \in Nat \ {0}, NEW u \in Nat, size = Area(w, u)
  PROVE  Concatenated(PlainShards(lens, shards, n, w)) = Rows(lens)
<1> DEFINE rows == Rows(lens)
           sizes == [j \in 1 .. u |-> w]
           shard == PlainShards(lens, shards, n, w)
           X == 1 .. n
           hand(k) == Chunk(rows, k, size)
           ss == [k \in 1 .. shards |-> hand(k)]
           e == [k \in 0 .. shards |-> Area(size, k)]
<1>1. /\ shards \in Nat \ {0} /\ shards \in Nat /\ size \in Nat \ {0} /\ size \in Nat
      /\ n \in Nat /\ n \in Nat \ {0} /\ n = Area(size, shards) /\ n = Area(n, 1)
      /\ n \div shards = size /\ n \div n = 1
  BY DimsAre
<1>2. rows \in Seq(X) /\ Len(rows) = n /\ Once(rows)
  <2> DEFINE f == [i \in 1 .. n |-> i]
  <2>1. f \in Seq(X) /\ Len(f) = n /\ \A i \in 1 .. n : f[i] = i
    BY <1>1
  <2>2. Once(f)
    BY <2>1 DEF Once
  <2>3. rows = f
    BY DEF Rows
  <2> HIDE DEF f, rows, X
  <2> QED
    BY <2>1, <2>2, <2>3
<1>3. Chunk(rows, 1, n) = rows
  <2>1. 1 \in 1 .. 1 /\ Len(rows) = Area(n, 1) /\ Area(n, 1 - 1) = 0
    BY <1>1, <1>2, NextRow
  <2> DEFINE r == rows
  <2>2. r \in Seq(X) /\ Len(r) = Area(n, 1)
    BY <1>2, <2>1
  <2> HIDE DEF r, X
  <2>3. Chunk(r, 1, n) = SubSeq(r, Area(n, 1 - 1) + 1, Area(n, 1))
    BY <1>1, <2>1, <2>2, ChunkIs
  <2>4. SubSeq(r, 1, Len(r)) = r
    BY <2>2, SubSeqFull
  <2>5. Area(n, 1 - 1) + 1 = 1 /\ Area(n, 1) = Len(r)
    BY <2>1, <2>2
  <2>6. Chunk(r, 1, n) = r
    BY <2>3, <2>4, <2>5
  <2> QED
    BY <2>6 DEF r
<1> HIDE DEF rows, X
<1>4. ASSUME NEW k \in 1 .. shards
      PROVE  /\ hand(k) = SubSeq(rows, Area(size, k - 1) + 1, Area(size, k))
             /\ hand(k) \in Seq(X) /\ Len(hand(k)) = size /\ Once(hand(k))
  <2>1. /\ Chunk(rows, k, size) = SubSeq(rows, Area(size, k - 1) + 1, Area(size, k))
        /\ Chunk(rows, k, size) \in Seq(X) /\ Len(Chunk(rows, k, size)) = size
    BY <1>1, <1>2, ChunkIs
  <2> DEFINE a == Area(size, k - 1)
             b == Area(size, k)
  <2>2. a \in Nat /\ b = a + size
    <3>1. k \in Nat \ {0}
      BY <1>1
    <3> QED
      BY <1>1, <3>1, NextRow
  <2>3. b <= n
    BY <1>1, Times DEF Area
  <2> HIDE DEF a, b
  <2>4. a \in Nat /\ b \in Nat /\ a <= b /\ b <= Len(rows)
    BY <1>1, <1>2, <2>2, <2>3
  <2>5. Once(SubSeq(rows, a + 1, b))
    BY <1>2, <2>4, SliceOnce
  <2> QED
    BY <2>1, <2>5 DEF a, b
<1>5. /\ sizes \in Seq(Nat) /\ Len(sizes) = u
      /\ \A m \in 0 .. u : Ends(sizes)[m] = Area(w, m)
  BY EqualEnds
<1>6. Ends(sizes)[Len(sizes)] = size /\ size \div w = u
  <2>1. size \div w = u
    BY DivArea
  <2>2. u \in 0 .. u
    OBVIOUS
  <2> HIDE DEF sizes
  <2> QED
    BY <1>5, <2>1, <2>2
<1>7. shard = [k \in 1 .. shards |-> [c \in 1 .. 1 |-> Cut(hand(k), sizes)]]
  <2> DEFINE pieces == EvenShards(rows, shards, n)
  <2>1. pieces = [k \in 1 .. shards |-> [c \in 1 .. 1 |-> hand(k)]]
    <3>1. pieces = [k \in 1 .. shards |-> [c \in 1 .. 1 |-> Chunk(Chunk(rows, c, n), k, size)]]
      <4> DEFINE C == 1
      <4>1. Dims(shards, size, C, n, n)
        OBVIOUS
      <4> HIDE DEF C
      <4>2. EvenShards(rows, shards, n)
                = [k \in 1 .. shards |-> [c \in 1 .. C |-> Chunk(Chunk(rows, c, n), k, size)]]
        BY <1>2, <4>1, EvenPieces
      <4> QED
        BY <4>2 DEF C
    <3>2. \A c \in 1 .. 1 : c = 1
      OBVIOUS
    <3>3. \A k \in 1 .. shards : \A c \in 1 .. 1 : Chunk(Chunk(rows, c, n), k, size) = hand(k)
      BY <1>3, <3>2
    <3> HIDE DEF hand, pieces
    <3> QED
      BY <3>1, <3>3, Zenon
  <2>2. shard = [k \in 1 .. shards |-> [c \in DOMAIN pieces[k] |->
                    Cut(pieces[k][c], [m \in 1 .. (Len(pieces[k][c]) \div w) |-> w])]]
    BY Zenon DEF PlainShards, rows
  <2> HIDE DEF pieces, shard, hand
  <2>3. ASSUME NEW k \in 1 .. shards
        PROVE  [c \in DOMAIN pieces[k] |->
                    Cut(pieces[k][c], [m \in 1 .. (Len(pieces[k][c]) \div w) |-> w])]
                   = [c \in 1 .. 1 |-> Cut(hand(k), sizes)]
    <3>1. pieces[k] = [c \in 1 .. 1 |-> hand(k)]
      BY <2>1
    <3>2. DOMAIN pieces[k] = 1 .. 1 /\ \A c \in 1 .. 1 : pieces[k][c] = hand(k)
      BY <3>1
    <3>3. \A c \in 1 .. 1 : [m \in 1 .. (Len(pieces[k][c]) \div w) |-> w] = sizes
      BY <1>4, <1>6, <3>2
    <3> HIDE DEF sizes
    <3> QED
      BY <3>2, <3>3, Zenon
  <2> QED
    BY <2>2, <2>3, Zenon
<1> HIDE DEF shard
<1>8. ASSUME NEW k \in 1 .. shards PROVE FlattenSeq(FlattenSeq(shard[k])) = hand(k)
  <2> DEFINE h == hand(k)
             c == Cut(h, sizes)
  <2>1. h \in Seq(X) /\ Len(h) = size /\ Once(h)
    BY <1>4
  <2>2. shard[k] = [d \in 1 .. 1 |-> c]
    BY <1>7
  <2> HIDE DEF h, sizes
  <2> DEFINE G == Seq(X)
             I == {h[i] : i \in 1 .. Len(h)}
             f == Ends(sizes)
  <2>3. Contents(h, I)
    BY DEF Contents, MemberOf
  <2>4. \A m \in 1 .. Len(sizes) : SubSeq(h, f[m - 1] + 1, f[m]) \in G
    <3> SUFFICES ASSUME NEW m \in 1 .. Len(sizes) PROVE SubSeq(h, f[m - 1] + 1, f[m]) \in G
      OBVIOUS
    <3>1. EndsAre(f, sizes)
      BY <1>5, EndsExist
    <3>2. m - 1 \in 0 .. Len(sizes) /\ m \in 0 .. Len(sizes) /\ Len(sizes) \in 0 .. Len(sizes)
      BY <1>5
    <3>a. m - 1 \in 0 .. m
      BY <1>5
    <3>3. f[m - 1] <= f[m] /\ f[m] <= f[Len(sizes)]
      BY <1>5, <3>1, <3>2, <3>a, EndsGrow
    <3>4. f[m - 1] \in Nat /\ f[m] \in Nat /\ f[m] <= Len(h)
      BY <1>6, <2>1, <3>1, <3>2, <3>3 DEF EndsAre
    <3> DEFINE a == f[m - 1]
               b == f[m]
    <3>5. a \in Nat /\ b \in Nat /\ a <= b /\ b <= Len(h)
      BY <3>3, <3>4
    <3> HIDE DEF a, b, f
    <3>6. SubSeq(h, a + 1, b) \in Seq(X)
      BY <2>1, <3>5, SliceIs
    <3> QED
      BY <3>6 DEF a, b
  <2> HIDE DEF I, G
  <2>5. Packs(c, G, I) /\ FlattenSeq(c) = h
    BY <1>5, <1>6, <2>1, <2>3, <2>4, CutPacks
  <2>6. c \in Seq(G)
    BY <2>5 DEF Packs
  <2> HIDE DEF c
  <2>7. FlattenSeq(shard[k]) = c
    BY <2>2, <2>6, FlattenOne
  <2> QED
    BY <2>5, <2>7 DEF h
<1>9. Concatenated(shard) = FlattenSeq(ss)
  <2>1. DOMAIN shard = 1 .. shards
    BY <1>7
  <2>2. Concatenated(shard) = FlattenSeq([k \in 1 .. shards |-> FlattenSeq(FlattenSeq(shard[k]))])
    BY <2>1, Zenon DEF Concatenated
  <2> HIDE DEF hand
  <2>3. [k \in 1 .. shards |-> FlattenSeq(FlattenSeq(shard[k]))] = ss
    BY <1>8, Zenon
  <2> QED
    BY <2>2, <2>3, Zenon
<1>10. ss \in Seq(Seq(X)) /\ Len(ss) = shards /\ \A k \in 1 .. shards : ss[k] = hand(k)
  <2>1. ss = [k \in 1 .. shards |-> ss[k]] /\ \A k \in 1 .. shards : ss[k] = hand(k)
    OBVIOUS
  <2>2. \A k \in 1 .. shards : ss[k] \in Seq(X)
    BY <1>4, <2>1
  <2> HIDE DEF ss
  <2> QED
    BY <1>1, <2>1, <2>2, SeqOfFunction
<1> HIDE DEF ss
<1>11. /\ e[0] = 0
       /\ \A k \in 0 .. shards : e[k] \in 0 .. n
       /\ \A k \in 1 .. shards : e[k - 1] <= e[k] /\ ss[k] = SubSeq(rows, e[k - 1] + 1, e[k])
       /\ e[shards] = n
  <2>1. \A k \in 0 .. shards : e[k] = Area(size, k)
    OBVIOUS
  <2> HIDE DEF e
  <2>2. e[0] = 0 /\ e[shards] = n
    <3>1. Area(size, 0) = 0 /\ 0 \in 0 .. shards /\ shards \in 0 .. shards
      BY <1>1, NextRow
    <3> QED
      BY <1>1, <2>1, <3>1
  <2>3. ASSUME NEW k \in 0 .. shards PROVE e[k] \in 0 .. n
    <3>1. k \in Nat /\ k <= shards
      BY <1>1
    <3>2. Area(size, k) \in Nat /\ Area(size, k) <= Area(size, shards)
      BY <1>1, <3>1, Times DEF Area
    <3> QED
      BY <1>1, <2>1, <3>2
  <2>4. ASSUME NEW k \in 1 .. shards
        PROVE  e[k - 1] <= e[k] /\ ss[k] = SubSeq(rows, e[k - 1] + 1, e[k])
    <3>1. k - 1 \in 0 .. shards /\ k \in 0 .. shards /\ k \in Nat \ {0}
      BY <1>1
    <3>2. Area(size, k - 1) \in Nat /\ Area(size, k) = Area(size, k - 1) + size
      BY <1>1, <3>1, NextRow
    <3>3. e[k - 1] = Area(size, k - 1) /\ e[k] = Area(size, k)
      BY <2>1, <3>1
    <3>4. ss[k] = SubSeq(rows, Area(size, k - 1) + 1, Area(size, k))
      BY <1>4, <1>10
    <3>5. ss[k] = SubSeq(rows, e[k - 1] + 1, e[k])
      BY <3>3, <3>4
    <3>6. e[k - 1] <= e[k]
      BY <1>1, <3>2, <3>3
    <3> QED
      BY <3>5, <3>6
  <2> QED
    BY <2>2, <2>3, <2>4
<1> HIDE DEF e
<1>12. FlattenSeq(ss) = SubSeq(rows, 1, e[Len(ss)])
  <2>1. \A k \in 0 .. Len(ss) : e[k] \in 0 .. Len(rows)
    BY <1>2, <1>10, <1>11
  <2> QED
    BY <1>2, <1>10, <1>11, <2>1, FlattenPieces
<1>13. SubSeq(rows, 1, Len(rows)) = rows
  BY <1>2, SubSeqFull
<1>14. Concatenated(shard) = rows
  BY <1>2, <1>9, <1>10, <1>11, <1>12, <1>13
<1> QED
  BY <1>14 DEF shard, rows

-----------------------------------------------------------------------------
(* A batch whose size is a multiple of what the shards take at a time.      *)

LEMMA BatchDims ==
  ASSUME NEW s \in Nat \ {0}, NEW w \in Nat \ {0}, NEW B \in Nat \ {0}, B % (s * w) = 0,
         NEW n \in Nat, n % B = 0
  PROVE  \E q \in Nat, C \in Nat : Dims(s, Area(w, q), C, B, n)
<1> DEFINE m == s * w
           q == B \div m
           C == n \div B
<1>1. m \in Nat \ {0}
  <2>1. s * 1 = s /\ 1 <= w
    OBVIOUS
  <2>2. m \in Nat /\ s <= m
    BY <2>1, Times
  <2> HIDE DEF m
  <2> QED
    BY <2>2
<1>2. B = m * q /\ q \in Int
  <2> HIDE DEF m
  <2>1. B \div m \in Int /\ B = m * (B \div m) + (B % m)
    BY <1>1, DivMod
  <2>2. B % m = 0
    BY DEF m
  <2>3. m * (B \div m) \in Int
    BY <1>1, <2>1
  <2> QED
    BY <2>1, <2>2, <2>3
<1>3. n = B * C /\ C \in Int
  <2>1. n \div B \in Int /\ n = B * (n \div B) + (n % B)
    BY DivMod
  <2>2. B * (n \div B) \in Int
    BY <2>1
  <2> QED
    BY <2>1, <2>2
<1> HIDE DEF q, C
<1>4. q \in Nat \ {0}
  <2>1. ASSUME q <= 0 PROVE FALSE
    <3> HIDE DEF m
    <3>1. m * q <= 0
      BY <1>1, <1>2, <2>1
    <3> QED
      BY <1>2, <3>1
  <2> QED
    BY <1>2, <2>1
<1>5. C \in Nat
  <2>1. ASSUME C < 0 PROVE FALSE
    <3>1. B * C < 0
      BY <1>3, <2>1
    <3> QED
      BY <1>3, <3>1
  <2> QED
    BY <1>3, <2>1
<1>6. w * q \in Nat \ {0} /\ B = (w * q) * s
  <2>1. \A a, b, c \in Int : (a * b) * c = (b * c) * a
    OBVIOUS
  <2>2. (s * w) * q = (w * q) * s
    BY <1>2, <2>1
  <2>3. w * q \in Nat
    BY <1>4
  <2>4. B = (w * q) * s
    BY <1>2, <2>2
  <2>5. w * q # 0
    <3> DEFINE p == w * q
    <3>1. p = 0 => p * s = 0
      OBVIOUS
    <3>2. B = p * s
      BY <2>4
    <3> HIDE DEF p
    <3>3. p # 0
      BY <3>1, <3>2
    <3> QED
      BY <3>3 DEF p
  <2> QED
    BY <2>3, <2>4, <2>5
<1>7. Dims(s, Area(w, q), C, B, n)
  BY <1>3, <1>5, <1>6 DEF Dims, Area
<1> QED
  BY <1>4, <1>5, <1>7

\* The packed rows of a chunk are as many as its rows.
LEMMA PackedCount ==
  ASSUME NEW padded, NEW limit, NEW m \in Nat, DOMAIN padded = 1 .. m,
         NEW bins, Packs(bins, UsedBins(padded, limit), 1 .. m)
  PROVE  Len(FlattenSeq(bins)) = m
<1> DEFINE X == 1 .. m
           t == FlattenSeq(bins)
<1>1. UsedBins(padded, limit) \subseteq Seq(X) /\ \A b \in UsedBins(padded, limit) : Once(b)
  BY DEF UsedBins, Bins
<1>2. bins \in Seq(UsedBins(padded, limit)) /\ Apart(bins) /\ \A x : Held(bins, x) <=> x \in X
  BY DEF Packs
<1> HIDE DEF X
<1>3. bins \in Seq(Seq(X)) /\ \A b \in 1 .. Len(bins) : Once(bins[b])
  BY <1>1, <1>2, ElementOfSeq, SeqMonotonic
<1>4. /\ t \in Seq(X) /\ Once(t)
      /\ \A x : MemberOf(t, x) <=> \E b \in 1 .. Len(bins) : MemberOf(bins[b], x)
  BY <1>2, <1>3, FlattenMembers
<1> HIDE DEF t
<1>5. Contents(t, X)
  BY <1>2, <1>4, Zenon DEF Held, Contents
<1>6. IsFiniteSet(X) /\ Cardinality(X) = m
  BY CountUpTo DEF X
<1>7. Len(t) = m
  BY <1>4, <1>5, <1>6, OnceCount
<1> QED
  BY <1>7 DEF t

LEMMA ChunkLengths ==
  ASSUME NEW lens \in Seq(Nat), NEW B \in Nat \ {0}, NEW C \in Nat, Len(lens) = Area(B, C),
         NEW c \in 1 .. C
  PROVE  /\ Chunk(lens, c, B) \in Seq(Nat) /\ Len(Chunk(lens, c, B)) = B
         /\ \A i \in 1 .. B : Chunk(lens, c, B)[i] = lens[Chunk(Rows(lens), c, B)[i]]
<1> DEFINE r == Rows(lens)
<1>1. DOMAIN lens = 1 .. Len(lens) /\ Len(lens) \in Nat
  BY LenProperties
<1>2. r \in Seq(Nat) /\ Len(r) = Area(B, C) /\ \A i \in 1 .. Len(lens) : r[i] = i
  BY <1>1 DEF Rows
<1> HIDE DEF r
<1>3. \A i \in 1 .. B : Cell(c, B, i) \in 1 .. Len(lens)
  BY Cells
<1>4. /\ Chunk(lens, c, B) \in Seq(Nat) /\ Len(Chunk(lens, c, B)) = B
      /\ \A i \in 1 .. B : Chunk(lens, c, B)[i] = lens[Cell(c, B, i)]
  BY ChunkIs, SMTT(30)
<1>5. /\ Chunk(r, c, B) \in Seq(Nat) /\ Len(Chunk(r, c, B)) = B
      /\ \A i \in 1 .. B : Chunk(r, c, B)[i] = r[Cell(c, B, i)]
  BY <1>2, ChunkIs, SMTT(30)
<1>6. \A i \in 1 .. B : Chunk(r, c, B)[i] = Cell(c, B, i)
  BY <1>2, <1>3, <1>5
<1> QED
  BY <1>4, <1>6 DEF r

LEMMA PackedEnough ==
  ASSUME NEW shards, NEW size, NEW C, NEW B, NEW n, Dims(shards, size, C, B, n),
         NEW lens, NEW round, NEW limit, Rounded(lens, round, limit), Len(lens) = n,
         NEW packer, NEW most, IsPacker(packer, limit, most), most = B,
         NEW c \in 1 .. C, NEW chunk, chunk = Chunk(lens, c, B),
         NEW bins, bins = Pack(packer, [i \in DOMAIN chunk |-> RoundUp(chunk[i], round)])
  PROVE  EnoughFor(TargetCount(bins, shards), bins)
<1> DEFINE rows == Chunk(Rows(lens), c, B)
           p == Padded(lens, rows, round)
           J == RowsOf(c, B)
<1>1. /\ shards \in Nat \ {0} /\ C \in Nat /\ B \in Nat \ {0} /\ n \in Nat /\ n = Area(B, C)
  BY DimsAre
<1>2. DOMAIN lens = 1 .. n /\ lens \in Seq(Nat)
  BY <1>1, RoundedIs DEF Rounded
<1>3. rows \in Seq(J) /\ Len(rows) = B
  BY <1>1, <1>2, ChunkRows
<1>4. Len(chunk) = B /\ \A i \in 1 .. B : chunk[i] = lens[rows[i]]
  <2>1. /\ Len(Chunk(lens, c, B)) = B
        /\ \A i \in 1 .. B : Chunk(lens, c, B)[i] = lens[Chunk(Rows(lens), c, B)[i]]
    BY <1>1, <1>2, ChunkLengths, SMTT(30)
  <2>2. chunk = Chunk(lens, c, B)
    OBVIOUS
  <2> QED
    BY <2>1, <2>2, Zenon
<1>5. chunk \in Seq(Nat)
  <2>1. Chunk(lens, c, B) \in Seq(Nat)
    BY <1>1, <1>2, ChunkLengths
  <2> QED
    BY <2>1
<1>6. DOMAIN chunk = 1 .. B /\ DOMAIN rows = 1 .. B
  BY <1>3, <1>4, <1>5, LenProperties
<1>7. J \in SUBSET (1 .. Len(lens))
  BY <1>1, RowsOfIs
<1>8. TargetCount(Pack(packer, p), shards) <= B
  BY PackedSharding
<1> HIDE DEF rows, J
<1>9. [i \in DOMAIN chunk |-> RoundUp(chunk[i], round)] = p
  <2>1. \A i \in 1 .. B : RoundUp(chunk[i], round) = RoundUp(lens[rows[i]], round)
    BY <1>4
  <2> QED
    BY <1>6, <2>1 DEF Padded
<1>10. Lengths(p, limit) /\ DOMAIN p = 1 .. B /\ Len(p) = B
  BY <1>3, <1>7, PaddedIs
<1> HIDE DEF p
<1>11. Packs(Pack(packer, p), UsedBins(p, limit), 1 .. B)
  <2>1. Packs(Pack(packer, p), UsedBins(p, limit), DOMAIN p)
    BY <1>10, PackPacks
  <2> QED
    BY <1>10, <2>1
<1>12. Len(FlattenSeq(Pack(packer, p))) = B
  BY <1>1, <1>10, <1>11, PackedCount
<1>13. bins = Pack(packer, p)
  BY <1>9
<1>14. TargetCount(bins, shards) \in Int
  <2>1. Len(bins) \in Nat
    BY <1>11, <1>13, LenProperties DEF Packs
  <2> QED
    BY <1>1, <2>1, TargetIs
<1> QED
  BY <1>1, <1>8, <1>12, <1>13, <1>14 DEF EnoughFor
=============================================================================
