------------------------- MODULE ReplayBuffer_proofs -------------------------
(***************************************************************************)
(* Proofs about ReplayBuffer, for every value of its constants: the three  *)
(* lists, chosen from by index and emptied by popping indices, are one     *)
(* store of groups.  The loops over the lists come first, as lemmas about  *)
(* the recursive functions that stand for them.                            *)
(***************************************************************************)
EXTENDS ReplayBuffer, FiniteSetTheorems, SequenceTheorems, WellFoundedInduction,
        TLAPS

-----------------------------------------------------------------------------
(* Induction and recursion up to a number.                                 *)

LEMMA UpTo ==
  ASSUME NEW N \in Nat, NEW S, 0 \in S, \A n \in 1 .. N : n - 1 \in S => n \in S
  PROVE  \A n \in 0 .. N : n \in S
<1> DEFINE T == {n \in 0 .. N : n \notin S}
           R == OpToRel(<, Nat)
<1>1. R = {ss \in Nat \X Nat : ss[1] < ss[2]}
  BY DEF OpToRel
<1>2. IsWellFoundedOn(R, Nat)
  BY NatLessThanWellFounded DEF OpToRel
<1> SUFFICES ASSUME T # {} PROVE FALSE
  OBVIOUS
<1>t. T \subseteq Nat
  OBVIOUS
<1>3. PICK x \in T : \A y \in T : ~(<<y, x>> \in R)
  <2> HIDE DEF R, T
  <2> QED
    BY <1>2, <1>t, WFMin
<1> HIDE DEF R
<1>4. \A y \in T : ~(y < x)
  <2> HIDE DEF T
  <2> QED
    BY <1>1, <1>3, <1>t
<1>5. x \in 1 .. N /\ x \notin S /\ x - 1 \in 0 .. N /\ x - 1 < x
  OBVIOUS
<1>6. x - 1 \in S
  BY <1>4, <1>5
<1> QED
  BY <1>5, <1>6

(* A loop of N turns that starts with a and whose turns are given.         *)
Runs(m, g, a, turn, W) ==
    /\ g = [n \in 0 .. m |-> IF n = 0 THEN a ELSE turn[<<n, g[n - 1]>>]]
    /\ \A n \in 0 .. m : g[n] \in W[n]

LEMMA Iterates ==
  ASSUME NEW N \in Nat, NEW W, NEW turn, NEW a, a \in W[0],
         \A n \in 1 .. N : \A v \in W[n - 1] : turn[<<n, v>>] \in W[n]
  PROVE  \E g : Runs(N, g, a, turn, W)
<1> USE DEF Runs
<1> DEFINE S == {m \in 0 .. N : \E g : Runs(m, g, a, turn, W)}
<1>1. 0 \in S
  <2> DEFINE g == [n \in {0} |-> a]
  <2>1. 0 .. 0 = {0}
    OBVIOUS
  <2>2. g = [n \in 0 .. 0 |-> IF n = 0 THEN a ELSE turn[<<n, g[n - 1]>>]]
    BY <2>1
  <2>3. \A n \in 0 .. 0 : g[n] \in W[n]
    BY <2>1
  <2>4. Runs(0, g, a, turn, W)
    BY <2>2, <2>3
  <2> HIDE DEF Runs, g
  <2> QED
    BY <2>4
<1>2. ASSUME NEW m \in 1 .. N, m - 1 \in S PROVE m \in S
  <2>1. PICK h : Runs(m - 1, h, a, turn, W)
    BY <1>2
  <2> DEFINE g == [n \in 0 .. m |-> IF n < m THEN h[n] ELSE turn[<<m, h[m - 1]>>]]
  <2>2. \A n \in 0 .. m : n < m => g[n] = h[n]
    OBVIOUS
  <2>3. g[m] = turn[<<m, h[m - 1]>>]
    OBVIOUS
  <2>4. \A n \in 0 .. m - 1 :
           h[n] = IF n = 0 THEN a ELSE turn[<<n, h[n - 1]>>]
    BY <2>1
  <2>5. \A n \in 0 .. m : g[n] = IF n = 0 THEN a ELSE turn[<<n, g[n - 1]>>]
    <3> SUFFICES ASSUME NEW n \in 0 .. m
                 PROVE  g[n] = IF n = 0 THEN a ELSE turn[<<n, g[n - 1]>>]
      OBVIOUS
    <3> HIDE DEF g
    <3>1. CASE n = m
      <4>1. n # 0 /\ g[n - 1] = h[m - 1]
        BY <2>2, <3>1
      <4> QED
        BY <2>3, <3>1, <4>1
    <3>2. CASE n < m /\ n # 0
      <4>1. g[n] = h[n] /\ g[n - 1] = h[n - 1] /\ n \in 0 .. m - 1
        BY <2>2, <3>2
      <4> QED
        BY <2>4, <3>2, <4>1
    <3>3. CASE n = 0
      <4>1. g[n] = h[n] /\ n \in 0 .. m - 1
        BY <2>2, <3>3
      <4> QED
        BY <2>4, <3>3, <4>1
    <3> QED
      BY <3>1, <3>2, <3>3
  <2>6. g = [n \in 0 .. m |-> IF n = 0 THEN a ELSE turn[<<n, g[n - 1]>>]]
    <3>1. g = [n \in 0 .. m |-> g[n]]
      OBVIOUS
    <3> HIDE DEF g
    <3> QED
      BY <2>5, <3>1
  <2>7. \A n \in 0 .. m : g[n] \in W[n]
    <3> SUFFICES ASSUME NEW n \in 0 .. m PROVE g[n] \in W[n]
      OBVIOUS
    <3> HIDE DEF g
    <3>1. CASE n < m
      <4>1. n \in 0 .. m - 1 /\ g[n] = h[n]
        BY <2>2, <3>1
      <4> QED
        BY <2>1, <4>1
    <3>2. CASE n = m
      <4>1. h[m - 1] \in W[m - 1]
        BY <2>1
      <4> QED
        BY <2>3, <3>2, <4>1
    <3> QED
      BY <3>1, <3>2
  <2>8. Runs(m, g, a, turn, W)
    BY <2>6, <2>7
  <2> HIDE DEF Runs, g
  <2> QED
    BY <2>8
<1> HIDE DEF S
<1>3. N \in S
  BY <1>1, <1>2, UpTo
<1> QED
  BY <1>3 DEF S

-----------------------------------------------------------------------------
(* The lists that sample() makes of the indices.                           *)

(* The numbers of a set, each once and from the least to the greatest.     *)
IsInOrder(s, S) ==
    /\ s \in Seq(Nat)
    /\ \A i, j \in 1 .. Len(s) : i < j => s[i] < s[j]
    /\ \A i \in 1 .. Len(s) : s[i] \in S
    /\ \A x \in S : \E i \in 1 .. Len(s) : s[i] = x

UpToNow(C, n) == {i \in C : i <= n}

LEMMA OneLess == \A l \in Nat : \A k \in 1 .. l + 1 : k # l + 1 => k \in 1 .. l
  OBVIOUS

LEMMA KeepOne ==
  ASSUME NEW C \in SUBSET Nat, NEW n \in Nat, n # 0, NEW s,
         IsInOrder(s, UpToNow(C, n - 1))
  PROVE  IsInOrder(IF n \in C THEN Append(s, n) ELSE s, UpToNow(C, n))
<1> USE DEF IsInOrder, UpToNow
<1>1. CASE n \notin C
  <2>1. UpToNow(C, n) = UpToNow(C, n - 1)
    <3>1. \A i \in C : i <= n <=> i <= n - 1
      BY <1>1
    <3> QED
      BY <3>1
  <2> QED
    BY <1>1, <2>1
<1>2. CASE n \in C
  <2> DEFINE t == Append(s, n)
  <2>1. /\ t \in Seq(Nat) /\ Len(t) = Len(s) + 1 /\ t[Len(s) + 1] = n
        /\ \A i \in 1 .. Len(s) : t[i] = s[i]
    OBVIOUS
  <2>2. \A i \in 1 .. Len(s) : s[i] \in C /\ s[i] <= n - 1 /\ s[i] < n
    OBVIOUS
  <2>3. Len(s) \in Nat
    OBVIOUS
  <2> HIDE DEF t
  <2>4. \A i, j \in 1 .. Len(t) : i < j => t[i] < t[j]
    <3> SUFFICES ASSUME NEW i \in 1 .. Len(t), NEW j \in 1 .. Len(t), i < j
                 PROVE  t[i] < t[j]
      OBVIOUS
    <3>1. i \in 1 .. Len(s) /\ t[i] = s[i]
      BY <2>1, <2>3
    <3>2. CASE j = Len(s) + 1
      BY <2>1, <2>2, <3>1, <3>2
    <3>3. CASE j # Len(s) + 1
      <4>1. j \in 1 .. Len(s)
        <5>1. j \in 1 .. Len(s) + 1
          BY <2>1
        <5> QED
          BY <2>3, <3>3, <5>1, OneLess
      <4>2. t[j] = s[j]
        BY <2>1, <4>1
      <4> QED
        BY <3>1, <4>1, <4>2
    <3> QED
      BY <3>2, <3>3
  <2>5. \A i \in 1 .. Len(t) : t[i] \in UpToNow(C, n)
    <3> SUFFICES ASSUME NEW i \in 1 .. Len(t) PROVE t[i] \in C /\ t[i] <= n
      OBVIOUS
    <3>1. CASE i = Len(s) + 1
      BY <1>2, <2>1, <3>1
    <3>2. CASE i # Len(s) + 1
      <4>1. i \in 1 .. Len(s)
        BY <2>1, <2>3, <3>2
      <4> QED
        BY <2>1, <2>2, <4>1
    <3> QED
      BY <3>1, <3>2
  <2>6. \A x \in UpToNow(C, n) : \E i \in 1 .. Len(t) : t[i] = x
    <3> SUFFICES ASSUME NEW x \in C, x <= n
                 PROVE  \E i \in 1 .. Len(t) : t[i] = x
      OBVIOUS
    <3>1. CASE x = n
      BY <2>1, <2>3, <3>1
    <3>2. CASE x # n
      <4>1. x \in UpToNow(C, n - 1)
        BY <3>2
      <4>2. PICK i \in 1 .. Len(s) : s[i] = x
        BY <4>1
      <4>3. i \in 1 .. Len(t)
        BY <2>1, <2>3
      <4> QED
        BY <2>1, <4>2, <4>3
    <3> QED
      BY <3>1, <3>2
  <2> QED
    BY <1>2, <2>1, <2>4, <2>5, <2>6 DEF t
<1> QED
  BY <1>1, <1>2

LEMMA InOrderIs ==
  ASSUME NEW N \in Nat, NEW C \in SUBSET (1 .. N)
  PROVE  IsInOrder(InOrder(N, C), C)
<1> DEFINE W == [n \in 0 .. N |-> {s \in Seq(Nat) : IsInOrder(s, UpToNow(C, n))}]
           turn == [p \in (1 .. N) \X Seq(Nat) |->
                       IF p[1] \in C THEN Append(p[2], p[1]) ELSE p[2]]
           Next1(n, k) == IF n = 0 THEN <<>>
                          ELSE IF n \in C THEN Append(k[n - 1], n) ELSE k[n - 1]
           kept == CHOOSE k : k = [n \in 0 .. N |-> Next1(n, k)]
<1>1. IsInOrder(<<>>, UpToNow(C, 0))
  BY DEF IsInOrder, UpToNow
<1>2. ASSUME NEW n \in 1 .. N, NEW s, IsInOrder(s, UpToNow(C, n - 1))
      PROVE  IsInOrder(IF n \in C THEN Append(s, n) ELSE s, UpToNow(C, n))
  BY <1>2, KeepOne
<1>3. \E k : k = [n \in 0 .. N |-> Next1(n, k)]
  <2>1. <<>> \in W[0]
    BY <1>1
  <2>2. ASSUME NEW n \in 1 .. N, NEW s \in W[n - 1]
        PROVE  turn[<<n, s>>] \in W[n] /\ s \in Seq(Nat)
    <3>1. IsInOrder(s, UpToNow(C, n - 1)) /\ s \in Seq(Nat)
      OBVIOUS
    <3>2. turn[<<n, s>>] = IF n \in C THEN Append(s, n) ELSE s
      BY <3>1
    <3>3. IsInOrder(turn[<<n, s>>], UpToNow(C, n))
      BY <1>2, <3>1, <3>2
    <3> HIDE DEF turn
    <3>4. turn[<<n, s>>] \in Seq(Nat) /\ n \in 0 .. N
      BY <3>3 DEF IsInOrder
    <3> QED
      BY <3>1, <3>3, <3>4
  <2> HIDE DEF W, turn
  <2>3. PICK g : Runs(N, g, <<>>, turn, W)
    <3>1. \A n \in 1 .. N : \A s \in W[n - 1] : turn[<<n, s>>] \in W[n]
      BY <2>2
    <3> QED
      BY <2>1, <3>1, Iterates
  <2>4. ASSUME NEW n \in 1 .. N
        PROVE  turn[<<n, g[n - 1]>>] = IF n \in C THEN Append(g[n - 1], n) ELSE g[n - 1]
    <3>1. n - 1 \in 0 .. N
      OBVIOUS
    <3>2. g[n - 1] \in W[n - 1]
      BY <2>3, <3>1 DEF Runs
    <3>3. g[n - 1] \in Seq(Nat)
      BY <2>2, <3>2
    <3> QED
      BY <3>3 DEF turn
  <2>5. g = [n \in 0 .. N |-> Next1(n, g)]
    BY <2>3, <2>4 DEF Runs
  <2> QED
    BY <2>5
<1>4. kept = [n \in 0 .. N |-> Next1(n, kept)]
  <2> HIDE DEF Next1
  <2> QED
    BY <1>3
<1>5. InOrder(N, C) = kept[N]
  BY Zenon DEF InOrder
<1> HIDE DEF kept
<1>6. \A n \in 0 .. N : kept[n] = Next1(n, kept)
  BY <1>4
<1> DEFINE S == {n \in 0 .. N : IsInOrder(kept[n], UpToNow(C, n))}
<1>7. 0 \in S
  BY <1>1, <1>6
<1>8. ASSUME NEW n \in 1 .. N, n - 1 \in S PROVE n \in S
  <2>1. kept[n] = IF n \in C THEN Append(kept[n - 1], n) ELSE kept[n - 1]
    BY <1>6
  <2> QED
    BY <1>2, <1>8, <2>1
<1>9. N \in S
  <2> HIDE DEF S
  <2> QED
    BY <1>7, <1>8, UpTo
<1>10. UpToNow(C, N) = C
  <2>1. \A i \in C : i <= N
    OBVIOUS
  <2> QED
    BY <2>1 DEF UpToNow
<1> QED
  BY <1>5, <1>9, <1>10

-----------------------------------------------------------------------------
(* Popping indices from the last one to the first.                         *)

Without(s, p) == [j \in 1 .. Len(s) - 1 |-> IF j < p THEN s[j] ELSE s[j + 1]]

LEMMA RemovesOne ==
  ASSUME NEW X, NEW s \in Seq(X), NEW p \in 1 .. Len(s)
  PROVE  /\ RemoveAt(s, p) = Without(s, p)
         /\ RemoveAt(s, p) \in Seq(X)
         /\ Len(RemoveAt(s, p)) = Len(s) - 1
<1> DEFINE a == SubSeq(s, 1, p - 1)
           b == SubSeq(s, p + 1, Len(s))
           l == Len(s)
<1>1. l \in Nat /\ p \in 1 .. l
  OBVIOUS
<1>2. /\ a \in Seq(X) /\ Len(a) = p - 1
      /\ \A j \in 1 .. p - 1 : a[j] = s[j]
  <2>1. 1 \in 1 .. l + 1 /\ p - 1 \in 0 .. l
    BY <1>1
  <2> QED
    BY <1>1, <2>1, SubSeqProperties
<1>3. /\ b \in Seq(X) /\ Len(b) = l - p
      /\ \A j \in 1 .. l - p : b[j] = s[p + j]
  <2>1. p + 1 \in 1 .. l + 1 /\ l \in p .. l
    BY <1>1
  <2> QED
    BY <1>1, <2>1, SubSeqProperties
<1> HIDE DEF a, b
<1>4. /\ a \o b \in Seq(X) /\ Len(a \o b) = l - 1
      /\ \A j \in 1 .. l - 1 :
            (a \o b)[j] = IF j < p THEN s[j] ELSE s[j + 1]
  <2>1. a \o b \in Seq(X) /\ Len(a \o b) = l - 1
    <3>1. a \o b \in Seq(X) /\ Len(a \o b) = Len(a) + Len(b)
      BY <1>2, <1>3, ConcatProperties
    <3> QED
      BY <1>1, <1>2, <1>3, <3>1
  <2>2. ASSUME NEW j \in 1 .. l - 1
        PROVE  (a \o b)[j] = IF j < p THEN s[j] ELSE s[j + 1]
    <3>1. (a \o b)[j] = IF j <= Len(a) THEN a[j] ELSE b[j - Len(a)]
      BY <1>1, <1>2, <1>3, <2>1, ConcatProperties
    <3>2. CASE j < p
      BY <1>1, <1>2, <3>1, <3>2
    <3>3. CASE ~(j < p)
      <4>1. j - (p - 1) \in 1 .. l - p /\ p + (j - (p - 1)) = j + 1
        BY <1>1, <3>3
      <4> QED
        BY <1>1, <1>2, <1>3, <3>1, <3>3, <4>1
    <3> QED
      BY <3>2, <3>3
  <2> QED
    BY <2>1, <2>2
<1>5. RemoveAt(s, p) = a \o b
  BY DEF RemoveAt, a, b
<1> DEFINE t == a \o b
<1>6. t = [j \in 1 .. Len(t) |-> t[j]]
  <2>1. t \in Seq(X)
    BY <1>4
  <2> HIDE DEF t
  <2> QED
    BY <2>1, LenProperties
<1> HIDE DEF l
<1>7. t = [j \in 1 .. l - 1 |-> IF j < p THEN s[j] ELSE s[j + 1]]
  BY <1>4, <1>6
<1> QED
  BY <1>4, <1>5, <1>7 DEF Without, l

\* What a list holds at the places of h.
Taken(list, h) == [j \in 1 .. Len(h) |-> list[h[j]]]

LEMMA TakenWithout ==
  ASSUME NEW list, NEW h \in Seq(Nat), NEW p \in 1 .. Len(h)
  PROVE  Without(Taken(list, h), p) = Taken(list, Without(h, p))
<1> DEFINE l == Len(h)
<1>1. l \in Nat /\ p \in 1 .. l
  OBVIOUS
<1>2. Len(Taken(list, h)) = l
  BY <1>1 DEF Taken
<1>3. Len(Without(h, p)) = l - 1
  BY <1>1 DEF Without
<1>4. ASSUME NEW j \in 1 .. l - 1
      PROVE  Without(Taken(list, h), p)[j] = Taken(list, Without(h, p))[j]
  <2>1. j \in 1 .. l /\ j + 1 \in 1 .. l
    BY <1>1
  <2>2. Without(Taken(list, h), p)[j] =
           IF j < p THEN list[h[j]] ELSE list[h[j + 1]]
    BY <1>2, <2>1 DEF Without, Taken
  <2>3. Taken(list, Without(h, p))[j] = list[Without(h, p)[j]]
    BY <1>3 DEF Taken
  <2>4. Without(h, p)[j] = IF j < p THEN h[j] ELSE h[j + 1]
    BY <1>1 DEF Without
  <2> QED
    BY <2>2, <2>3, <2>4
<1>5. Without(Taken(list, h), p) = [j \in 1 .. l - 1 |-> Without(Taken(list, h), p)[j]]
  BY <1>2 DEF Without
<1>6. Taken(list, Without(h, p)) = [j \in 1 .. l - 1 |-> Taken(list, Without(h, p))[j]]
  BY <1>3 DEF Taken
<1> QED
  BY <1>4, <1>5, <1>6

(* The indices to pop, in the order in which they are popped.              *)
Descends(order, N) ==
    /\ order \in Seq(1 .. N)
    /\ \A n \in 2 .. Len(order) : order[n] < order[n - 1]

LeftAfter(order, N, n) == {x \in 1 .. N : \A m \in 1 .. n : order[m] # x}

(* Below the last index that was popped nothing has moved.                 *)
Below(order, N, n) == IF n = 0 THEN N ELSE order[n] - 1

IsLeft(h, order, N, n) ==
    /\ h \in Seq(1 .. N) /\ Len(h) = N - n
    /\ IsInOrder(h, LeftAfter(order, N, n))
    /\ \A i \in 1 .. Below(order, N, n) : i <= Len(h) /\ h[i] = i

LEMMA PopOne ==
  ASSUME NEW N \in Nat, NEW order, Descends(order, N), NEW n \in 1 .. Len(order),
         NEW h, IsLeft(h, order, N, n - 1)
  PROVE  /\ order[n] \in 1 .. Len(h)
         /\ IsLeft(RemoveAt(h, order[n]), order, N, n)
<1> DEFINE p == order[n]
           t == RemoveAt(h, p)
           l == Len(h)
<1>1. p \in 1 .. N /\ p <= Below(order, N, n - 1)
  <2>1. p \in 1 .. N
    BY ElementOfSeq DEF Descends
  <2>2. CASE n = 1
    BY <2>1, <2>2 DEF Below
  <2>3. CASE n # 1
    <3>1. n \in 2 .. Len(order) /\ n - 1 \in 1 .. Len(order) /\ n - 1 # 0
      BY <2>3 DEF Descends
    <3>2. order[n] < order[n - 1] /\ order[n - 1] \in 1 .. N
      BY <3>1, ElementOfSeq DEF Descends
    <3> QED
      BY <2>1, <3>1, <3>2 DEF Below
  <2> QED
    BY <2>2, <2>3
<1>2. Below(order, N, n - 1) \in Nat
  <2>1. n = 1 \/ n - 1 \in 1 .. Len(order)
    BY DEF Descends
  <2>2. n = 1 \/ order[n - 1] \in 1 .. N
    BY <2>1, ElementOfSeq DEF Descends
  <2> QED
    BY <2>2 DEF Below
<1>3. \A i \in 1 .. p : i <= l /\ h[i] = i
  BY <1>1, <1>2 DEF IsLeft
<1>4. l \in Nat /\ l = N - (n - 1) /\ p \in 1 .. l /\ h \in Seq(1 .. N)
  BY <1>1, <1>3 DEF IsLeft
<1>5. /\ t \in Seq(1 .. N) /\ Len(t) = l - 1
      /\ \A j \in 1 .. l - 1 : t[j] = IF j < p THEN h[j] ELSE h[j + 1]
  BY <1>4, RemovesOne DEF Without
<1>6. /\ \A i, j \in 1 .. l : i < j => h[i] < h[j]
      /\ \A i \in 1 .. l : h[i] \in LeftAfter(order, N, n - 1)
      /\ \A x \in LeftAfter(order, N, n - 1) : \E i \in 1 .. l : h[i] = x
  BY DEF IsLeft, IsInOrder
<1>7. \A i \in 1 .. l : h[i] \in 1 .. N
  BY <1>6 DEF LeftAfter
<1>8. LeftAfter(order, N, n) = LeftAfter(order, N, n - 1) \ {p}
  <2>1. \A m \in 1 .. n : m \in 1 .. n - 1 \/ m = n
    BY DEF Descends
  <2>2. \A m \in 1 .. n - 1 : m \in 1 .. n
    BY DEF Descends
  <2>3. n \in 1 .. n
    BY DEF Descends
  <2> QED
    BY <2>1, <2>2, <2>3 DEF LeftAfter
<1> HIDE DEF p, t, l
<1>9. \A i, j \in 1 .. l - 1 : i < j => t[i] < t[j]
  <2> SUFFICES ASSUME NEW i \in 1 .. l - 1, NEW j \in 1 .. l - 1, i < j
               PROVE  t[i] < t[j]
    OBVIOUS
  <2>1. i \in 1 .. l /\ j \in 1 .. l /\ i + 1 \in 1 .. l /\ j + 1 \in 1 .. l
    BY <1>4
  <2>2. h[i] < h[j] /\ h[i] < h[j + 1] /\ h[i + 1] < h[j + 1]
    BY <1>4, <1>6, <2>1
  <2>3. i < p \/ (~(i < p) /\ ~(j < p))
    <3>1. i \in Nat /\ j \in Nat /\ p \in Nat
      BY <1>4
    <3> QED
      BY <3>1
  <2> QED
    BY <1>5, <2>2, <2>3
<1>10. \A j \in 1 .. l - 1 : t[j] \in LeftAfter(order, N, n)
  <2> SUFFICES ASSUME NEW j \in 1 .. l - 1 PROVE t[j] \in LeftAfter(order, N, n)
    OBVIOUS
  <2>1. j \in 1 .. l /\ j + 1 \in 1 .. l /\ p \in 1 .. l /\ h[p] = p
    BY <1>3, <1>4
  <2>2. h[j] \in LeftAfter(order, N, n - 1) /\ h[j + 1] \in LeftAfter(order, N, n - 1)
    BY <1>6, <2>1
  <2>3. j < p => h[j] # p
    BY <1>6, <1>7, <2>1
  <2>4. ~(j < p) => h[j + 1] # p
    <3>1. ~(j < p) => p < j + 1
      BY <1>4
    <3>2. p < j + 1 => h[p] < h[j + 1]
      BY <1>6, <2>1
    <3>3. h[j + 1] \in 1 .. N
      BY <1>7, <2>1
    <3> QED
      BY <2>1, <3>1, <3>2, <3>3
  <2> QED
    BY <1>5, <1>8, <2>2, <2>3, <2>4
<1>11. \A x \in LeftAfter(order, N, n) : \E j \in 1 .. l - 1 : t[j] = x
  <2> SUFFICES ASSUME NEW x \in LeftAfter(order, N, n)
               PROVE  \E j \in 1 .. l - 1 : t[j] = x
    OBVIOUS
  <2>1. PICK i \in 1 .. l : h[i] = x
    BY <1>6, <1>8
  <2>2. i # p
    BY <1>3, <1>4, <1>8, <2>1
  <2>3. CASE i < p
    <3>1. i \in 1 .. l - 1
      BY <1>4, <2>3
    <3> QED
      BY <1>5, <2>1, <2>3, <3>1
  <2>4. CASE p < i
    <3>1. i - 1 \in 1 .. l - 1 /\ ~(i - 1 < p) /\ (i - 1) + 1 = i
      BY <1>4, <2>4
    <3> QED
      BY <1>5, <2>1, <3>1
  <2> QED
    BY <1>4, <2>2, <2>3, <2>4
<1>12. \A i \in 1 .. p - 1 : i <= l - 1 /\ t[i] = i
  <2> SUFFICES ASSUME NEW i \in 1 .. p - 1 PROVE i <= l - 1 /\ t[i] = i
    OBVIOUS
  <2>1. i \in 1 .. l - 1 /\ i \in 1 .. p /\ i < p
    BY <1>4
  <2> QED
    BY <1>3, <1>5, <2>1
<1>13. IsInOrder(t, LeftAfter(order, N, n))
  <2>1. t \in Seq(Nat)
    <3>1. 1 .. N \in SUBSET Nat
      OBVIOUS
    <3> QED
      BY <1>5, <3>1, SeqMonotonic
  <2> QED
    BY <1>5, <1>9, <1>10, <1>11, <2>1 DEF IsInOrder
<1>14. Below(order, N, n) = p - 1
  BY DEF Below, p
<1>15. l - 1 = N - n
  BY <1>4 DEF Descends
<1> QED
  BY <1>4, <1>5, <1>12, <1>13, <1>14, <1>15 DEF IsLeft, p, t, l

Popped(list, order) ==
    CHOOSE popped : popped = [n \in 0 .. Len(order) |->
        IF n = 0 THEN list ELSE RemoveAt(popped[n - 1], order[n])]

Ident(N) == [i \in 1 .. N |-> i]

(* A loop that pops is what its turns make it, whatever it pops from.      *)
LEMMA PopsInTurn ==
  ASSUME NEW X, NEW list \in Seq(X), NEW order, Descends(order, Len(list))
  PROVE  /\ Popped(list, order)[0] = list
         /\ \A n \in 1 .. Len(order) :
               Popped(list, order)[n] = RemoveAt(Popped(list, order)[n - 1], order[n])
         /\ PopAll(list, order) = Popped(list, order)[Len(order)]
<1> DEFINE K == Len(order)
           N == Len(list)
           W == [n \in 0 .. K |-> {s \in Seq(X) : Len(s) = N - n}]
           turn == [p \in (1 .. K) \X Seq(X) |-> RemoveAt(p[2], order[p[1]])]
<1>1. K \in Nat /\ N \in Nat
  BY DEF Descends
<1>2. \A n \in 1 .. K : order[n] \in 1 .. N - (n - 1)
  <2> DEFINE S == {n \in 0 .. K : n = 0 \/ order[n] \in 1 .. N - (n - 1)}
  <2>1. 0 \in S
    BY <1>1
  <2>2. ASSUME NEW n \in 1 .. K, n - 1 \in S PROVE n \in S
    <3>1. order[n] \in 1 .. N
      BY ElementOfSeq DEF Descends
    <3>2. CASE n = 1
      BY <1>1, <3>1, <3>2
    <3>3. CASE n # 1
      <4>1. n \in 2 .. K /\ n - 1 # 0
        BY <1>1, <3>3
      <4>2. order[n] < order[n - 1]
        BY <4>1 DEF Descends
      <4>3. order[n - 1] \in 1 .. N - ((n - 1) - 1)
        BY <2>2, <4>1
      <4> QED
        BY <1>1, <3>1, <4>2, <4>3
    <3> QED
      BY <3>2, <3>3
  <2>3. \A n \in 0 .. K : n \in S
    <3> HIDE DEF S, K
    <3> QED
      BY <1>1, <2>1, <2>2, UpTo
  <2> QED
    BY <1>1, <2>3
<1>3. ASSUME NEW n \in 1 .. K, NEW s \in W[n - 1]
      PROVE  turn[<<n, s>>] \in W[n] /\ turn[<<n, s>>] = RemoveAt(s, order[n])
  <2>1. n - 1 \in 0 .. K /\ n \in 0 .. K
    BY <1>1
  <2>2. s \in Seq(X) /\ Len(s) = N - (n - 1)
    BY <2>1
  <2>3. order[n] \in 1 .. Len(s)
    BY <1>2, <2>2
  <2>4. turn[<<n, s>>] = RemoveAt(s, order[n])
    BY <2>2
  <2>5. RemoveAt(s, order[n]) \in Seq(X) /\ Len(RemoveAt(s, order[n])) = Len(s) - 1
    BY <2>2, <2>3, RemovesOne
  <2>6. Len(s) - 1 = N - n
    BY <1>1, <2>2
  <2> HIDE DEF turn
  <2> QED
    BY <2>1, <2>4, <2>5, <2>6
<1>4. list \in W[0]
  BY <1>1
<1> HIDE DEF W, turn, K
<1>5. PICK g : Runs(K, g, list, turn, W)
  <2>1. \A n \in 1 .. K : \A s \in W[n - 1] : turn[<<n, s>>] \in W[n]
    BY <1>3
  <2> QED
    BY <1>1, <1>4, <2>1, Iterates
<1>6. ASSUME NEW n \in 1 .. K
      PROVE  turn[<<n, g[n - 1]>>] = RemoveAt(g[n - 1], order[n])
  <2>1. n - 1 \in 0 .. K
    BY <1>1
  <2>2. g[n - 1] \in W[n - 1]
    BY <1>5, <2>1 DEF Runs
  <2> QED
    BY <1>3, <2>2
<1>7. g = [n \in 0 .. K |-> IF n = 0 THEN list ELSE RemoveAt(g[n - 1], order[n])]
  <2>1. g = [n \in 0 .. K |-> IF n = 0 THEN list ELSE turn[<<n, g[n - 1]>>]]
    BY <1>5 DEF Runs
  <2>2. \A n \in 0 .. K : n # 0 => turn[<<n, g[n - 1]>>] = RemoveAt(g[n - 1], order[n])
    <3>1. \A n \in 0 .. K : n # 0 => n \in 1 .. K
      BY <1>1
    <3> QED
      BY <1>6, <3>1
  <2> QED
    BY <2>1, <2>2
<1>8. \E p : p = [n \in 0 .. Len(order) |->
                     IF n = 0 THEN list ELSE RemoveAt(p[n - 1], order[n])]
  BY <1>7 DEF K
<1> DEFINE P == Popped(list, order)
<1>9. P = [n \in 0 .. Len(order) |-> IF n = 0 THEN list ELSE RemoveAt(P[n - 1], order[n])]
  BY <1>8 DEF Popped
<1>10. PopAll(list, order) = P[Len(order)]
  BY Zenon DEF PopAll, Popped
<1> HIDE DEF P
<1>11. P[0] = list
  BY <1>1, <1>9 DEF K
<1>12. \A n \in 1 .. Len(order) : P[n] = RemoveAt(P[n - 1], order[n])
  BY <1>1, <1>9 DEF K
<1> QED
  BY <1>10, <1>11, <1>12 DEF P

(* The places that are left, and what a list has left at them.             *)
LEMMA PopsAll ==
  ASSUME NEW X, NEW list \in Seq(X), NEW order, Descends(order, Len(list))
  PROVE  LET h == PopAll(Ident(Len(list)), order)
         IN  /\ IsLeft(h, order, Len(list), Len(order))
             /\ PopAll(list, order) = Taken(list, h)
<1> DEFINE N == Len(list)
           K == Len(order)
           id == Ident(N)
           h == Popped(id, order)
           P == Popped(list, order)
<1>1. K \in Nat /\ N \in Nat
  BY DEF Descends
<1>2. id \in Seq(1 .. N) /\ Len(id) = N
  BY <1>1 DEF Ident
<1>3. /\ h[0] = id
      /\ \A n \in 1 .. K : h[n] = RemoveAt(h[n - 1], order[n])
      /\ PopAll(id, order) = h[K]
  BY <1>2, PopsInTurn
<1>4. /\ P[0] = list
      /\ \A n \in 1 .. K : P[n] = RemoveAt(P[n - 1], order[n])
      /\ PopAll(list, order) = P[K]
  BY PopsInTurn
<1>5. IsLeft(id, order, N, 0)
  <2>1. LeftAfter(order, N, 0) = 1 .. N
    BY DEF LeftAfter
  <2>2. \A i \in 1 .. N : id[i] = i
    BY <1>1 DEF Ident
  <2>3. id \in Seq(Nat)
    BY <1>1 DEF Ident
  <2> HIDE DEF id, N
  <2>4. IsInOrder(id, 1 .. N)
    BY <1>1, <1>2, <2>2, <2>3 DEF IsInOrder
  <2>5. N - 0 = N
    BY <1>1
  <2>6. \A i \in 1 .. N : i <= Len(id)
    BY <1>1, <1>2
  <2> QED
    BY <1>2, <2>1, <2>2, <2>4, <2>5, <2>6 DEF IsLeft, Below
<1>6. list = Taken(list, id)
  <2>1. list = [j \in 1 .. N |-> list[j]]
    BY LenProperties
  <2>2. \A j \in 1 .. N : id[j] = j
    BY DEF Ident
  <2> HIDE DEF id, N
  <2> QED
    BY <1>2, <2>1, <2>2 DEF Taken
<1> DEFINE S == {n \in 0 .. K : IsLeft(h[n], order, N, n) /\ P[n] = Taken(list, h[n])}
<1>7. 0 \in S
  BY <1>1, <1>3, <1>4, <1>5, <1>6
<1>8. ASSUME NEW n \in 1 .. K, n - 1 \in S PROVE n \in S
  <2> DEFINE g == h[n - 1]
             p == order[n]
  <2>1. IsLeft(g, order, N, n - 1) /\ P[n - 1] = Taken(list, g)
    BY <1>8
  <2>2. p \in 1 .. Len(g) /\ IsLeft(RemoveAt(g, p), order, N, n)
    <3> HIDE DEF g
    <3> QED
      BY <1>1, <2>1, PopOne
  <2>3. h[n] = RemoveAt(g, p) /\ P[n] = RemoveAt(Taken(list, g), p)
    BY <1>3, <1>4, <2>1
  <2> HIDE DEF g, p
  <2>4. g \in Seq(1 .. N) /\ g \in Seq(Nat) /\ Len(g) \in Nat
    BY <2>1 DEF IsLeft, IsInOrder
  <2>5. RemoveAt(g, p) = Without(g, p)
    BY <2>2, <2>4, RemovesOne
  <2>6. Taken(list, g) \in Seq(X) /\ Len(Taken(list, g)) = Len(g)
    <3>1. \A j \in 1 .. Len(g) : g[j] \in 1 .. N
      BY <2>4, ElementOfSeq
    <3>2. \A j \in 1 .. Len(g) : list[g[j]] \in X
      BY <3>1, ElementOfSeq
    <3>3. Taken(list, g) \in [1 .. Len(g) -> X]
      BY <3>2 DEF Taken
    <3> QED
      BY <2>4, <3>3
  <2>7. RemoveAt(Taken(list, g), p) = Without(Taken(list, g), p)
    BY <2>2, <2>6, RemovesOne
  <2>8. Without(Taken(list, g), p) = Taken(list, Without(g, p))
    BY <2>2, <2>4, TakenWithout
  <2>9. n \in 0 .. K
    BY <1>1
  <2> QED
    BY <2>2, <2>3, <2>5, <2>7, <2>8, <2>9
<1>9. \A n \in 0 .. K : n \in S
  <2> HIDE DEF S, K
  <2> QED
    BY <1>1, <1>7, <1>8, UpTo
<1>10. K \in S
  BY <1>1, <1>9
<1> QED
  BY <1>3, <1>4, <1>10

-----------------------------------------------------------------------------
(* The three lists as a store of entries.                                  *)

Entry(tr, ver, tgt, i) ==
    [item |-> tr[i], gen |-> ver[i], tgt |-> tgt[i], at |-> tr[i]]

Entries(tr, ver, tgt) == {Entry(tr, ver, tgt, i) : i \in 1 .. Len(tr)}

\* Lists of one length; the groups are numbered in the order of arrival.
InStep(tr, ver, tgt, last) ==
    /\ tr \in Seq(1 .. last) /\ ver \in Seq(Versions) /\ tgt \in Seq(Versions)
    /\ Len(ver) = Len(tr) /\ Len(tgt) = Len(tr)
    /\ \A i, j \in 1 .. Len(tr) : i < j => tr[i] < tr[j]

LEMMA EntryIsOne ==
  ASSUME NEW last \in Nat, NEW tr, NEW ver, NEW tgt, InStep(tr, ver, tgt, last),
         NEW i \in 1 .. Len(tr), NEW j \in 1 .. Len(tr),
         Entry(tr, ver, tgt, i) = Entry(tr, ver, tgt, j)
  PROVE  i = j
<1>1. tr[i] = tr[j]
  BY DEF Entry
<1>2. tr \in Seq(1 .. last) /\ Len(tr) \in Nat
  BY DEF InStep
<1>3. tr[i] \in 1 .. last /\ tr[j] \in 1 .. last
  BY <1>2, ElementOfSeq
<1>4. (i < j => tr[i] < tr[j]) /\ (j < i => tr[j] < tr[i])
  BY DEF InStep
<1> QED
  BY <1>1, <1>2, <1>3, <1>4

(* As many entries as places, for places that are all different.           *)
Chosen(tr, ver, tgt, s, k) == {Entry(tr, ver, tgt, s[i]) : i \in 1 .. k}

Distinct(s, k, N) ==
    /\ \A i \in 1 .. k : s[i] \in 1 .. N
    /\ \A i, j \in 1 .. k : s[i] = s[j] => i = j

LEMMA EntriesCounted ==
  ASSUME NEW last \in Nat, NEW tr, NEW ver, NEW tgt, InStep(tr, ver, tgt, last),
         NEW k \in Nat, NEW s, Distinct(s, k, Len(tr))
  PROVE  Cardinality(Chosen(tr, ver, tgt, s, k)) = k
<1> DEFINE T == {Entry(tr, ver, tgt, s[i]) : i \in 1 .. k}
           f == [i \in 1 .. k |-> Entry(tr, ver, tgt, s[i])]
<1>1. IsFiniteSet(1 .. k) /\ Cardinality(1 .. k) = k
  <2>1. 1 \in Int /\ k \in Int
    OBVIOUS
  <2>2. /\ IsFiniteSet(1 .. k)
        /\ Cardinality(1 .. k) = IF 1 > k THEN 0 ELSE k - 1 + 1
    BY <2>1, FS_Interval
  <2> QED
    BY <2>2
<1>2. \A i, j \in 1 .. k : f[i] = f[j] => i = j
  BY EntryIsOne DEF Distinct
<1>3. f \in [1 .. k -> T] /\ \A t \in T : \E i \in 1 .. k : f[i] = t
  OBVIOUS
<1> HIDE DEF f, T
<1>4. f \in Bijection(1 .. k, T)
  BY <1>2, <1>3 DEF Bijection, Injection, Surjection, IsInjective
<1>5. ExistsBijection(1 .. k, T)
  BY <1>4 DEF ExistsBijection
<1>6. IsFiniteSet(T) /\ Cardinality(T) = Cardinality(1 .. k)
  BY <1>1, <1>5, FS_Bijection
<1> QED
  BY <1>1, <1>6 DEF T, Chosen

LEMMA StartsInStep == InStep(<<>>, <<>>, <<>>, 0) /\ Entries(<<>>, <<>>, <<>>) = {}
  BY DEF InStep, Entries

LEMMA EmptyInStep ==
  ASSUME NEW last \in Nat
  PROVE  InStep(<<>>, <<>>, <<>>, last) /\ Entries(<<>>, <<>>, <<>>) = {}
  BY DEF InStep, Entries

LEMMA Appended ==
  ASSUME NEW X, NEW s \in Seq(X), NEW x \in X
  PROVE  /\ Append(s, x) \in Seq(X) /\ Len(Append(s, x)) = Len(s) + 1
         /\ \A i \in 1 .. Len(s) : Append(s, x)[i] = s[i]
         /\ Append(s, x)[Len(s) + 1] = x
  OBVIOUS

LEMMA PushedInStep ==
  ASSUME NEW last \in Nat, NEW tr, NEW ver, NEW tgt, InStep(tr, ver, tgt, last),
         NEW g \in Versions, NEW t \in Versions
  PROVE  LET tr1 == Append(tr, last + 1)
             ver1 == Append(ver, g)
             tgt1 == Append(tgt, t)
         IN  /\ InStep(tr1, ver1, tgt1, last + 1)
             /\ Entries(tr1, ver1, tgt1) = Entries(tr, ver, tgt) \cup
                   {[item |-> last + 1, gen |-> g, tgt |-> t, at |-> last + 1]}
<1> DEFINE tr1 == Append(tr, last + 1)
           ver1 == Append(ver, g)
           tgt1 == Append(tgt, t)
           n == Len(tr)
<1>1. /\ tr \in Seq(1 .. last) /\ ver \in Seq(Versions) /\ tgt \in Seq(Versions)
      /\ n \in Nat /\ Len(ver) = n /\ Len(tgt) = n
      /\ \A i, j \in 1 .. n : i < j => tr[i] < tr[j]
  BY DEF InStep
<1>2. tr \in Seq(1 .. last + 1)
  <2>1. 1 .. last \in SUBSET (1 .. last + 1)
    OBVIOUS
  <2> QED
    BY <1>1, <2>1, SeqMonotonic
<1>3. /\ tr1 \in Seq(1 .. last + 1) /\ Len(tr1) = n + 1 /\ tr1[n + 1] = last + 1
      /\ \A i \in 1 .. n : tr1[i] = tr[i]
  BY <1>2, Appended
<1>4. /\ ver1 \in Seq(Versions) /\ Len(ver1) = n + 1 /\ ver1[n + 1] = g
      /\ \A i \in 1 .. n : ver1[i] = ver[i]
  BY <1>1, Appended
<1>5. /\ tgt1 \in Seq(Versions) /\ Len(tgt1) = n + 1 /\ tgt1[n + 1] = t
      /\ \A i \in 1 .. n : tgt1[i] = tgt[i]
  BY <1>1, Appended
<1>6. \A i \in 1 .. n : tr[i] \in 1 .. last
  BY <1>1, ElementOfSeq
<1> HIDE DEF tr1, ver1, tgt1, n
<1>7. \A i, j \in 1 .. n + 1 : i < j => tr1[i] < tr1[j]
  <2> SUFFICES ASSUME NEW i \in 1 .. n + 1, NEW j \in 1 .. n + 1, i < j
               PROVE  tr1[i] < tr1[j]
    OBVIOUS
  <2>1. i \in 1 .. n /\ tr1[i] = tr[i] /\ tr[i] \in 1 .. last
    BY <1>1, <1>3, <1>6
  <2>2. CASE j = n + 1
    BY <1>3, <2>1, <2>2
  <2>3. CASE j # n + 1
    <3>1. j \in 1 .. n
      BY <1>1, <2>3
    <3> QED
      BY <1>1, <1>3, <2>1, <3>1
  <2> QED
    BY <2>2, <2>3
<1>8. InStep(tr1, ver1, tgt1, last + 1)
  BY <1>3, <1>4, <1>5, <1>7 DEF InStep
<1> DEFINE new == [item |-> last + 1, gen |-> g, tgt |-> t, at |-> last + 1]
<1>9. Entry(tr1, ver1, tgt1, n + 1) = new
  BY <1>3, <1>4, <1>5 DEF Entry
<1>10. \A i \in 1 .. n : Entry(tr1, ver1, tgt1, i) = Entry(tr, ver, tgt, i)
  BY <1>3, <1>4, <1>5 DEF Entry
<1>11. 1 .. n + 1 = (1 .. n) \cup {n + 1}
  BY <1>1
<1> HIDE DEF new
<1>12. Entries(tr1, ver1, tgt1) = Entries(tr, ver, tgt) \cup {new}
  <2>1. Entries(tr1, ver1, tgt1) = {Entry(tr1, ver1, tgt1, i) : i \in 1 .. n + 1}
    BY <1>3 DEF Entries
  <2>2. Entries(tr, ver, tgt) = {Entry(tr, ver, tgt, i) : i \in 1 .. n}
    BY DEF Entries, n
  <2> HIDE DEF Entries
  <2> QED
    BY <1>9, <1>10, <1>11, <2>1, <2>2
<1> QED
  BY <1>8, <1>12 DEF tr1, ver1, tgt1, new

-----------------------------------------------------------------------------
(* What one sample() does to the store.                                    *)

\* The places of a list in order say the same as the set of its places.
LEMMA PlacesOf ==
  ASSUME NEW s, NEW S, IsInOrder(s, S)
  PROVE  ToSet(s) = S
  BY ElementOfSeq DEF IsInOrder, ToSet

LEMMA NoPlaces ==
  ASSUME NEW s, NEW S, IsInOrder(s, S)
  PROVE  s = <<>> <=> S = {}
<1>1. s \in Seq(Nat) /\ Len(s) \in Nat /\ (s = <<>> <=> Len(s) = 0)
  BY EmptySeq, LenProperties DEF IsInOrder
<1>2. ASSUME S # {} PROVE Len(s) # 0
  BY <1>1, <1>2 DEF IsInOrder
<1>3. ASSUME Len(s) # 0 PROVE S # {}
  <2>1. 1 \in 1 .. Len(s)
    BY <1>1, <1>3
  <2> QED
    BY <2>1 DEF IsInOrder
<1> QED
  BY <1>1, <1>2, <1>3

(* The first k indices, popped from the last to the first.                 *)
PopsFirst(order, idx, k, N) ==
    /\ Descends(order, N) /\ Len(order) = k
    /\ \A m \in 1 .. k : order[m] = idx[k - m + 1]

LEMMA PopsDescend ==
  ASSUME NEW N \in Nat, NEW C \in SUBSET (1 .. N), NEW idx, IsInOrder(idx, C),
         NEW k \in Nat, k <= Len(idx)
  PROVE  PopsFirst(PopOrder(SubSeq(idx, 1, k)), idx, k, N)
<1> DEFINE sel == SubSeq(idx, 1, k)
           order == PopOrder(sel)
<1>1. /\ idx \in Seq(Nat) /\ Len(idx) \in Nat
      /\ \A i, j \in 1 .. Len(idx) : i < j => idx[i] < idx[j]
      /\ \A i \in 1 .. Len(idx) : idx[i] \in 1 .. N
  BY LenProperties DEF IsInOrder
<1>2. Len(sel) = k /\ \A i \in 1 .. k : sel[i] = idx[i]
  BY <1>1, SubSeqProperties
<1> HIDE DEF sel
<1>3. order = [m \in 1 .. k |-> sel[k - m + 1]]
  BY <1>2 DEF PopOrder, Reverse
<1>4. \A m \in 1 .. k : k - m + 1 \in 1 .. k /\ k - m + 1 \in 1 .. Len(idx)
  BY <1>1
<1> HIDE DEF order
<1>5. \A m \in 1 .. k : order[m] = idx[k - m + 1] /\ order[m] \in 1 .. N
  BY <1>1, <1>2, <1>3, <1>4
<1>6. order \in Seq(1 .. N) /\ Len(order) = k
  BY <1>3, <1>5
<1>7. ASSUME NEW n \in 2 .. k PROVE order[n] < order[n - 1]
  <2>1. /\ n \in 1 .. k /\ n - 1 \in 1 .. k
        /\ k - n + 1 < k - (n - 1) + 1
    OBVIOUS
  <2> DEFINE a == k - n + 1
             b == k - (n - 1) + 1
  <2>2. a \in 1 .. Len(idx) /\ b \in 1 .. Len(idx) /\ order[n] = idx[a] /\ order[n - 1] = idx[b]
    BY <1>4, <1>5, <2>1
  <2>3. a < b
    BY <2>1
  <2> HIDE DEF a, b
  <2> QED
    BY <1>1, <2>2, <2>3
<1> QED
  BY <1>5, <1>6, <1>7 DEF PopsFirst, Descends, order, sel

(* The lists stay in step when the same places leave each of them.         *)
LEMMA PoppedInStep ==
  ASSUME NEW last \in Nat, NEW tr, NEW ver, NEW tgt, InStep(tr, ver, tgt, last),
         NEW order, Descends(order, Len(tr))
  PROVE  LET tr1 == PopAll(tr, order)
             ver1 == PopAll(ver, order)
             tgt1 == PopAll(tgt, order)
         IN  /\ InStep(tr1, ver1, tgt1, last)
             /\ Entries(tr1, ver1, tgt1) =
                   {Entry(tr, ver, tgt, i) : i \in LeftAfter(order, Len(tr), Len(order))}
             /\ ToSet(tr1) = {tr[i] : i \in LeftAfter(order, Len(tr), Len(order))}
<1> DEFINE tr1 == PopAll(tr, order)
           ver1 == PopAll(ver, order)
           tgt1 == PopAll(tgt, order)
           N == Len(tr)
           h == PopAll(Ident(N), order)
           L == LeftAfter(order, N, Len(order))
<1>1. /\ tr \in Seq(1 .. last) /\ ver \in Seq(Versions) /\ tgt \in Seq(Versions)
      /\ N \in Nat /\ Len(ver) = N /\ Len(tgt) = N
      /\ \A i, j \in 1 .. N : i < j => tr[i] < tr[j]
  BY DEF InStep
<1>2. IsLeft(h, order, N, Len(order)) /\ tr1 = Taken(tr, h)
  BY <1>1, PopsAll
<1>3. ver1 = Taken(ver, h) /\ tgt1 = Taken(tgt, h)
  <2>1. Descends(order, Len(ver)) /\ Descends(order, Len(tgt))
    BY <1>1
  <2>2. PopAll(ver, order) = Taken(ver, PopAll(Ident(Len(ver)), order))
    BY <1>1, <2>1, PopsAll
  <2>3. PopAll(tgt, order) = Taken(tgt, PopAll(Ident(Len(tgt)), order))
    BY <1>1, <2>1, PopsAll
  <2> QED
    BY <1>1, <2>2, <2>3
<1> HIDE DEF tr1, ver1, tgt1, N, h, L
<1>4. h \in Seq(1 .. N) /\ IsInOrder(h, L)
  BY <1>2 DEF IsLeft, L
<1>5. /\ Len(h) \in Nat
      /\ \A i, j \in 1 .. Len(h) : i < j => h[i] < h[j]
      /\ \A i \in 1 .. Len(h) : h[i] \in L /\ h[i] \in 1 .. N
      /\ \A x \in L : \E i \in 1 .. Len(h) : h[i] = x
  <2>1. \A i \in 1 .. Len(h) : h[i] \in 1 .. N
    BY <1>4, ElementOfSeq
  <2> QED
    BY <1>4, <2>1, LenProperties DEF IsInOrder
<1>6. \A i \in 1 .. N : tr[i] \in 1 .. last /\ ver[i] \in Versions /\ tgt[i] \in Versions
  <2>1. \A i \in 1 .. N : tr[i] \in 1 .. last
    BY <1>1, ElementOfSeq DEF N
  <2>2. \A i \in 1 .. Len(ver) : ver[i] \in Versions
    BY <1>1, ElementOfSeq
  <2>3. \A i \in 1 .. Len(tgt) : tgt[i] \in Versions
    BY <1>1, ElementOfSeq
  <2> QED
    BY <1>1, <2>1, <2>2, <2>3
<1>7. /\ tr1 = [j \in 1 .. Len(h) |-> tr[h[j]]]
      /\ ver1 = [j \in 1 .. Len(h) |-> ver[h[j]]]
      /\ tgt1 = [j \in 1 .. Len(h) |-> tgt[h[j]]]
  BY <1>2, <1>3 DEF Taken
<1>8. /\ tr1 \in Seq(1 .. last) /\ ver1 \in Seq(Versions) /\ tgt1 \in Seq(Versions)
      /\ Len(tr1) = Len(h) /\ Len(ver1) = Len(h) /\ Len(tgt1) = Len(h)
  BY <1>5, <1>6, <1>7
<1>9. \A i, j \in 1 .. Len(h) : i < j => tr1[i] < tr1[j]
  BY <1>1, <1>5, <1>7
<1>10. InStep(tr1, ver1, tgt1, last)
  BY <1>8, <1>9 DEF InStep
<1>11. \A j \in 1 .. Len(h) : Entry(tr1, ver1, tgt1, j) = Entry(tr, ver, tgt, h[j])
  BY <1>7 DEF Entry
<1>12. Entries(tr1, ver1, tgt1) = {Entry(tr, ver, tgt, i) : i \in L}
  <2>1. Entries(tr1, ver1, tgt1) = {Entry(tr1, ver1, tgt1, j) : j \in 1 .. Len(h)}
    BY <1>8 DEF Entries
  <2> HIDE DEF Entries
  <2> QED
    BY <1>5, <1>11, <2>1
<1>13. ToSet(tr1) = {tr[i] : i \in L}
  <2>1. ToSet(tr1) = {tr[h[j]] : j \in 1 .. Len(h)}
    BY <1>7 DEF ToSet
  <2> QED
    BY <1>5, <2>1
<1> QED
  BY <1>10, <1>12, <1>13 DEF tr1, ver1, tgt1, N, L

(* What is sampled: the places that the loops choose, in the order of      *)
(* arrival.                                                                *)
Wanted(tr, ver, tgt, C) == {Entry(tr, ver, tgt, i) : i \in C}

LEMMA SampleStep ==
  ASSUME NEW last \in Nat, NEW tr, NEW ver, NEW tgt, InStep(tr, ver, tgt, last),
         NEW C \in SUBSET (1 .. Len(tr)), NEW idx, IsInOrder(idx, C),
         NEW k \in Nat, k <= Len(idx)
  PROVE  LET order == PopOrder(SubSeq(idx, 1, k))
             tr1 == PopAll(tr, order)
             ver1 == PopAll(ver, order)
             tgt1 == PopAll(tgt, order)
             T == Chosen(tr, ver, tgt, idx, k)
             S == Wanted(tr, ver, tgt, C)
         IN  /\ InStep(tr1, ver1, tgt1, last)
             /\ Entries(tr1, ver1, tgt1) = Entries(tr, ver, tgt) \ T
             /\ ToSet(tr1) = ToSet(tr) \ {tr[idx[i]] : i \in 1 .. k}
             /\ {tr[idx[i]] : i \in 1 .. k} \in SUBSET ToSet(tr)
             /\ T \in SUBSET S
             /\ Cardinality(T) = k /\ Cardinality(S) = Len(idx)
             /\ \A x \in T, y \in S \ T : x.at < y.at
<1> DEFINE order == PopOrder(SubSeq(idx, 1, k))
           tr1 == PopAll(tr, order)
           ver1 == PopAll(ver, order)
           tgt1 == PopAll(tgt, order)
           T == Chosen(tr, ver, tgt, idx, k)
           S == Wanted(tr, ver, tgt, C)
           N == Len(tr)
           L == LeftAfter(order, N, Len(order))
<1>1. /\ tr \in Seq(1 .. last) /\ N \in Nat /\ N = Len(tr)
      /\ \A i, j \in 1 .. N : i < j => tr[i] < tr[j]
  BY DEF InStep
<1>2. /\ idx \in Seq(Nat) /\ Len(idx) \in Nat
      /\ \A i, j \in 1 .. Len(idx) : i < j => idx[i] < idx[j]
      /\ \A i \in 1 .. Len(idx) : idx[i] \in C /\ idx[i] \in 1 .. N
      /\ \A x \in C : \E i \in 1 .. Len(idx) : idx[i] = x
  BY LenProperties DEF IsInOrder
<1>3. /\ Descends(order, N) /\ Len(order) = k
      /\ \A m \in 1 .. k : order[m] = idx[k - m + 1]
  <2>1. /\ N \in Nat /\ C \in SUBSET (1 .. N) /\ IsInOrder(idx, C)
        /\ k \in Nat /\ k <= Len(idx)
    BY <1>1
  <2> HIDE DEF N
  <2>2. PopsFirst(PopOrder(SubSeq(idx, 1, k)), idx, k, N)
    BY <2>1, PopsDescend
  <2> QED
    BY <2>2 DEF PopsFirst
<1>4. /\ InStep(tr1, ver1, tgt1, last)
      /\ Entries(tr1, ver1, tgt1) = {Entry(tr, ver, tgt, i) : i \in L}
      /\ ToSet(tr1) = {tr[i] : i \in L}
  BY <1>3, PoppedInStep
<1> HIDE DEF order, tr1, ver1, tgt1
<1>5. L = {x \in 1 .. N : \A i \in 1 .. k : idx[i] # x}
  <2>1. \A i \in 1 .. k : k - i + 1 \in 1 .. k /\ k - (k - i + 1) + 1 = i
    OBVIOUS
  <2>2. \A i \in 1 .. k : order[k - i + 1] = idx[i]
    BY <1>3, <2>1
  <2>3. \A x : (\A m \in 1 .. k : order[m] # x) <=> (\A i \in 1 .. k : idx[i] # x)
    BY <1>3, <2>1, <2>2
  <2> QED
    BY <1>3, <2>3 DEF LeftAfter
<1>6. \A i \in 1 .. k : i \in 1 .. Len(idx)
  BY <1>2
<1>7. \A i, j \in 1 .. Len(idx) : idx[i] = idx[j] => i = j
  BY <1>2
<1>8. \A i, j \in 1 .. N : Entry(tr, ver, tgt, i) = Entry(tr, ver, tgt, j) => i = j
  BY EntryIsOne
<1>9. Entries(tr, ver, tgt) = {Entry(tr, ver, tgt, i) : i \in 1 .. N}
  BY DEF Entries
<1>10. T = {Entry(tr, ver, tgt, idx[i]) : i \in 1 .. k}
  BY DEF Chosen
<1>11. S = {Entry(tr, ver, tgt, i) : i \in C}
  BY DEF Wanted
<1> HIDE DEF L, T, S, N
<1>12. {Entry(tr, ver, tgt, i) : i \in L} = Entries(tr, ver, tgt) \ T
  <2>1. ASSUME NEW i \in L PROVE Entry(tr, ver, tgt, i) \in Entries(tr, ver, tgt) \ T
    <3>1. i \in 1 .. N /\ \A j \in 1 .. k : idx[j] # i
      BY <1>5
    <3>2. Entry(tr, ver, tgt, i) \notin T
      BY <1>2, <1>6, <1>8, <1>10, <3>1
    <3> QED
      BY <1>9, <3>1, <3>2
  <2>2. ASSUME NEW e \in Entries(tr, ver, tgt) \ T
        PROVE  \E i \in L : e = Entry(tr, ver, tgt, i)
    <3>1. PICK i \in 1 .. N : e = Entry(tr, ver, tgt, i)
      BY <1>9
    <3>2. \A j \in 1 .. k : idx[j] # i
      BY <1>10, <3>1
    <3> QED
      BY <1>5, <3>1, <3>2
  <2> QED
    BY <2>1, <2>2
<1>13. ToSet(tr) = {tr[i] : i \in 1 .. N}
  <2>1. DOMAIN tr = 1 .. N
    BY <1>1, LenProperties
  <2> QED
    BY <2>1 DEF ToSet
<1>14. \A i, j \in 1 .. N : tr[i] = tr[j] => i = j
  <2>1. \A i \in 1 .. N : tr[i] \in 1 .. last
    BY <1>1, ElementOfSeq
  <2> QED
    BY <1>1, <2>1
<1>15. ToSet(tr1) = ToSet(tr) \ {tr[idx[i]] : i \in 1 .. k}
  <2>1. ASSUME NEW i \in L PROVE tr[i] \in ToSet(tr) /\ \A j \in 1 .. k : tr[idx[j]] # tr[i]
    <3>1. i \in 1 .. N /\ \A j \in 1 .. k : idx[j] # i
      BY <1>5
    <3>2. \A j \in 1 .. k : tr[idx[j]] # tr[i]
      BY <1>2, <1>6, <1>14, <3>1
    <3> QED
      BY <1>13, <3>1, <3>2
  <2>2. ASSUME NEW e \in ToSet(tr), \A j \in 1 .. k : e # tr[idx[j]]
        PROVE  \E i \in L : e = tr[i]
    <3>1. PICK i \in 1 .. N : e = tr[i]
      BY <1>13
    <3>2. \A j \in 1 .. k : idx[j] # i
      BY <2>2, <3>1
    <3> QED
      BY <1>5, <3>1, <3>2
  <2> QED
    BY <1>4, <2>1, <2>2
<1>16. {tr[idx[i]] : i \in 1 .. k} \in SUBSET ToSet(tr)
  BY <1>2, <1>6, <1>13
<1>17. T \in SUBSET S
  BY <1>2, <1>6, <1>10, <1>11
<1>18. Cardinality(T) = k
  <2>1. Distinct(idx, k, Len(tr))
    BY <1>1, <1>2, <1>6, <1>7 DEF Distinct
  <2> QED
    BY <2>1, EntriesCounted DEF T
<1>19. Cardinality(S) = Len(idx)
  <2>1. Distinct(idx, Len(idx), Len(tr))
    BY <1>1, <1>2, <1>7 DEF Distinct
  <2>2. S = Chosen(tr, ver, tgt, idx, Len(idx))
    BY <1>2, <1>11 DEF Chosen
  <2> QED
    BY <1>2, <2>1, <2>2, EntriesCounted
<1>20. ASSUME NEW x \in T, NEW y \in S \ T PROVE x.at < y.at
  <2>1. PICK i \in 1 .. k : x = Entry(tr, ver, tgt, idx[i])
    BY <1>10
  <2>2. PICK c \in C : y = Entry(tr, ver, tgt, c)
    BY <1>11
  <2>3. PICK j \in 1 .. Len(idx) : idx[j] = c
    BY <1>2
  <2>4. j \notin 1 .. k
    BY <1>10, <2>2, <2>3
  <2>5. i < j
    BY <1>2, <2>3, <2>4
  <2>6. idx[i] < idx[j] /\ idx[i] \in 1 .. N /\ idx[j] \in 1 .. N
    BY <1>2, <1>6, <2>5
  <2>7. tr[idx[i]] < tr[idx[j]]
    BY <1>1, <2>6
  <2>8. x.at = tr[idx[i]] /\ y.at = tr[idx[j]]
    BY <2>1, <2>2, <2>3 DEF Entry
  <2> QED
    BY <2>7, <2>8
<1> QED
  BY <1>4, <1>12, <1>15, <1>16, <1>17, <1>18, <1>19, <1>20
     DEF T, S, tr1, ver1, tgt1, order, L

-----------------------------------------------------------------------------
(* The three lists stay one list of entries in the order of arrival.  This *)
(* is what makes the indices of one list good for the other two, and the   *)
(* first of the chosen indices the oldest of the groups.                   *)
BufInv ==
    /\ pushed \in Nat /\ lastTarget \in Int
    /\ InStep(trajectories, trajectoryVersions, targetWeightVersions, pushed)

held == Entries(trajectories, trajectoryVersions, targetWeightVersions)

\* The places that hold a group for the step cur that is not too old.
ForStep(cur) ==
    {i \in 1 .. Size : /\ MinValid(cur) <= trajectoryVersions[i]
                       /\ trajectoryVersions[i] <= cur
                       /\ targetWeightVersions[i] = cur}

LEMMA HeldCounted ==
  ASSUME BufInv
  PROVE  Cardinality(held) = Size
<1> DEFINE N == Len(trajectories)
<1>1. N \in Nat
  BY LenProperties DEF BufInv, InStep
<1>2. Distinct(Ident(N), N, N)
  BY <1>1 DEF Distinct, Ident
<1>3. Cardinality(Chosen(trajectories, trajectoryVersions, targetWeightVersions,
                         Ident(N), N)) = N
  BY <1>1, <1>2, EntriesCounted DEF BufInv
<1>4. held = Chosen(trajectories, trajectoryVersions, targetWeightVersions,
                    Ident(N), N)
  BY <1>1 DEF held, Entries, Chosen, Ident
<1> QED
  BY <1>3, <1>4 DEF Size

LEMMA IndicesOfStep ==
  ASSUME BufInv, NEW cur \in Versions
  PROVE  IsInOrder(IntendedIndices(cur), ForStep(cur))
<1> DEFINE V == {i \in 1 .. Size : /\ MinValid(cur) <= trajectoryVersions[i]
                                   /\ trajectoryVersions[i] <= cur}
           I == {i \in ToSet(ValidIndices(cur)) : targetWeightVersions[i] = cur}
<1>1. Size \in Nat
  BY LenProperties DEF BufInv, InStep, Size
<1>2. IsInOrder(ValidIndices(cur), V)
  <2>1. V \in SUBSET (1 .. Size) /\ ValidIndices(cur) = InOrder(Size, V)
    BY DEF ValidIndices
  <2> HIDE DEF V
  <2> QED
    BY <1>1, <2>1, InOrderIs
<1>3. I = ForStep(cur)
  <2> HIDE DEF V
  <2>1. ToSet(ValidIndices(cur)) = V
    BY <1>2, PlacesOf
  <2> QED
    BY <2>1 DEF V, ForStep
<1>4. I \in SUBSET (1 .. Size) /\ IntendedIndices(cur) = InOrder(Size, I)
  BY <1>3 DEF ForStep, IntendedIndices
<1> HIDE DEF I
<1> QED
  BY <1>1, <1>3, <1>4, InOrderIs

LEMMA NothingOld ==
  ASSUME BufInv, NEW cur \in Versions, OldIndices(cur) = <<>>
  PROVE  \A i \in 1 .. Size : ~(trajectoryVersions[i] < MinValid(cur))
<1> DEFINE O == {i \in 1 .. Size : trajectoryVersions[i] < MinValid(cur)}
<1>1. Size \in Nat
  BY LenProperties DEF BufInv, InStep, Size
<1>2. O \in SUBSET (1 .. Size) /\ OldIndices(cur) = InOrder(Size, O)
  BY DEF OldIndices
<1> HIDE DEF O
<1>3. IsInOrder(OldIndices(cur), O)
  BY <1>1, <1>2, InOrderIs
<1>4. O = {}
  BY <1>3, NoPlaces
<1> QED
  BY <1>4 DEF O

\* The batch follows the word "batch".
LEMMA Answered ==
  ASSUME NEW n \in Nat, NEW f
  PROVE  LET a == <<"batch">> \o [k \in 1 .. n |-> f[k]]
         IN  a[1] = "batch" /\ ToSet(Tail(a)) = {f[k] : k \in 1 .. n}
<1> DEFINE X == {"batch"} \cup {f[k] : k \in 1 .. n}
           s == [k \in 1 .. n |-> f[k]]
           a == <<"batch">> \o s
<1>1. <<"batch">> \in Seq(X) /\ s \in Seq(X) /\ Len(s) = n /\ Len(<<"batch">>) = 1
  OBVIOUS
<1>2. \A k \in 1 .. n : s[k] = f[k]
  OBVIOUS
<1> HIDE DEF s, X
<1>3. /\ a \in Seq(X) /\ Len(a) = n + 1 /\ a[1] = <<"batch">>[1]
      /\ \A k \in 1 .. n : a[k + 1] = s[k]
  <2>1. a \in Seq(X) /\ Len(a) = 1 + n
    BY <1>1, ConcatProperties
  <2>2. \A i \in 1 .. n + 1 : a[i] = IF i <= 1 THEN <<"batch">>[i] ELSE s[i - 1]
    BY <1>1, ConcatProperties
  <2>3. a[1] = <<"batch">>[1]
    BY <2>2
  <2>4. ASSUME NEW k \in 1 .. n PROVE a[k + 1] = s[k]
    <3> DEFINE j == k + 1
    <3>1. j \in 1 .. n + 1 /\ ~(j <= 1) /\ j - 1 = k
      OBVIOUS
    <3> HIDE DEF j
    <3>2. a[j] = s[j - 1]
      BY <2>2, <3>1
    <3> QED
      BY <3>1, <3>2 DEF j
  <2> QED
    BY <2>1, <2>3, <2>4
<1> HIDE DEF a
<1>4. Len(Tail(a)) = n /\ \A k \in 1 .. n : Tail(a)[k] = a[k + 1]
  <2>1. a # <<>>
    BY <1>3
  <2> QED
    BY <1>3, <2>1, HeadTailProperties
<1>5. DOMAIN Tail(a) = 1 .. n
  <2>1. Tail(a) \in Seq(X)
    BY <1>3, HeadTailProperties
  <2> QED
    BY <1>4, <2>1, LenProperties
<1>6. ToSet(Tail(a)) = {f[k] : k \in 1 .. n}
  <2>1. ToSet(Tail(a)) = {Tail(a)[k] : k \in 1 .. n}
    BY <1>5 DEF ToSet
  <2>2. \A k \in 1 .. n : Tail(a)[k] = f[k]
    BY <1>2, <1>3, <1>4
  <2> QED
    BY <2>1, <2>2
<1> QED
  BY <1>3, <1>6 DEF a, s

(* A sample that answers with a batch: the oldest groups for the step      *)
(* leave the three lists together, and are the answer.                     *)
SampledAct ==
    answer'[1] = "batch" =>
       /\ ToSet(trajectories) = ToSet(trajectories') \union ToSet(Tail(answer'))
       /\ ToSet(trajectories') \intersect ToSet(Tail(answer')) = {}

IsOldest(T, cur) ==
    /\ T \in SUBSET {e \in held : /\ MinValid(cur) <= e.gen
                                  /\ e.gen <= cur
                                  /\ e.tgt = cur}
    /\ Cardinality(T) = NumPrompts
    /\ \A x \in T, y \in {e \in held : /\ MinValid(cur) <= e.gen
                                       /\ e.gen <= cur
                                       /\ e.tgt = cur} \ T : x.at < y.at

LEMMA BatchStep ==
  ASSUME BufInv, NEW cur \in Versions, SampleBatch(cur)
  PROVE  /\ BufInv'
         /\ SampledAct
         /\ ~ \E e \in held : e.gen < MinValid(cur)
         /\ Cardinality({e \in held : /\ MinValid(cur) <= e.gen
                                      /\ e.gen <= cur
                                      /\ e.tgt = cur}) >= NumPrompts
         /\ \E T : IsOldest(T, cur) /\ held' = held \ T
<1> DEFINE tr == trajectories
           ver == trajectoryVersions
           tgt == targetWeightVersions
           C == ForStep(cur)
           idx == IntendedIndices(cur)
           k == NumPrompts
           T == Chosen(tr, ver, tgt, idx, k)
           S == Wanted(tr, ver, tgt, C)
           sel == SubSeq(idx, 1, k)
           order == PopOrder(sel)
<1>1. /\ pushed \in Nat /\ lastTarget \in Int /\ InStep(tr, ver, tgt, pushed)
      /\ C \in SUBSET (1 .. Len(tr))
  BY DEF BufInv, ForStep, Size
<1>2. IsInOrder(idx, C)
  BY IndicesOfStep
<1>3. /\ OldIndices(cur) = <<>> /\ Len(idx) >= k
      /\ answer' = <<"batch">> \o [i \in 1 .. k |-> tr[sel[i]]]
      /\ tr' = PopAll(tr, order)
      /\ ver' = PopAll(ver, order)
      /\ tgt' = PopAll(tgt, order)
      /\ lastTarget' = lastTarget /\ pushed' = pushed
  BY DEF SampleBatch
<1>4. k \in Nat /\ Len(idx) \in Nat /\ k <= Len(idx) /\ idx \in Seq(Nat)
  BY <1>2, <1>3, BufferAssumption, LenProperties DEF IsInOrder
<1>5. /\ InStep(tr', ver', tgt', pushed)
      /\ Entries(tr', ver', tgt') = Entries(tr, ver, tgt) \ T
      /\ ToSet(tr') = ToSet(tr) \ {tr[idx[i]] : i \in 1 .. k}
      /\ {tr[idx[i]] : i \in 1 .. k} \in SUBSET ToSet(tr)
      /\ T \in SUBSET S
      /\ Cardinality(T) = k /\ Cardinality(S) = Len(idx)
      /\ \A x \in T, y \in S \ T : x.at < y.at
  <2> HIDE DEF C, idx, k
  <2>1. LET o == PopOrder(SubSeq(idx, 1, k))
            tr1 == PopAll(tr, o)
            ver1 == PopAll(ver, o)
            tgt1 == PopAll(tgt, o)
        IN  /\ InStep(tr1, ver1, tgt1, pushed)
            /\ Entries(tr1, ver1, tgt1) = Entries(tr, ver, tgt) \ T
            /\ ToSet(tr1) = ToSet(tr) \ {tr[idx[i]] : i \in 1 .. k}
            /\ {tr[idx[i]] : i \in 1 .. k} \in SUBSET ToSet(tr)
            /\ T \in SUBSET S
            /\ Cardinality(T) = k /\ Cardinality(S) = Len(idx)
            /\ \A x \in T, y \in S \ T : x.at < y.at
    BY <1>1, <1>2, <1>4, SampleStep, Zenon
  <2> QED
    BY <1>3, <2>1, Zenon
<1>6. \A i \in 1 .. k : sel[i] = idx[i]
  <2> HIDE DEF C, idx, k
  <2>1. Len(SubSeq(idx, 1, k)) = k /\ \A i \in 1 .. k : SubSeq(idx, 1, k)[i] = idx[i]
    BY <1>4, SubSeqProperties
  <2> QED
    BY <2>1
<1>7. answer'[1] = "batch" /\ ToSet(Tail(answer')) = {tr[idx[i]] : i \in 1 .. k}
  <2> DEFINE f == [i \in 1 .. k |-> tr[sel[i]]]
             g == [i \in 1 .. k |-> f[i]]
  <2>1. f = g
    OBVIOUS
  <2> HIDE DEF sel, idx, k
  <2>2. answer' = <<"batch">> \o f
    BY <1>3
  <2> HIDE DEF f
  <2>3. answer'[1] = "batch" /\ ToSet(Tail(answer')) = {f[i] : i \in 1 .. k}
    BY <1>4, <2>1, <2>2, Answered
  <2>4. {f[i] : i \in 1 .. k} = {tr[idx[i]] : i \in 1 .. k}
    BY <1>6 DEF f
  <2> QED
    BY <2>3, <2>4
<1>8. BufInv'
  BY <1>1, <1>3, <1>5 DEF BufInv
<1>9. SampledAct
  <2> HIDE DEF k, idx
  <2> QED
    BY <1>5, <1>7 DEF SampledAct
<1>10. held = {Entry(tr, ver, tgt, i) : i \in 1 .. Size}
  BY DEF held, Entries, Size
<1>11. S = {e \in held : /\ MinValid(cur) <= e.gen
                         /\ e.gen <= cur
                         /\ e.tgt = cur}
  <2>1. \A i \in 1 .. Size : /\ Entry(tr, ver, tgt, i).gen = ver[i]
                             /\ Entry(tr, ver, tgt, i).tgt = tgt[i]
    BY DEF Entry
  <2>2. S = {Entry(tr, ver, tgt, i) : i \in C}
    BY DEF Wanted
  <2> QED
    BY <1>10, <2>1, <2>2 DEF ForStep
<1>12. ~ \E e \in held : e.gen < MinValid(cur)
  <2>1. \A i \in 1 .. Size : Entry(tr, ver, tgt, i).gen = ver[i]
    BY DEF Entry
  <2>2. \A i \in 1 .. Size : ~(ver[i] < MinValid(cur))
    BY <1>3, NothingOld
  <2> QED
    BY <1>10, <2>1, <2>2
<1>13. IsOldest(T, cur)
  <2> HIDE DEF S, T
  <2> QED
    BY <1>5, <1>11 DEF IsOldest
<1>14. held' = held \ T
  <2> HIDE DEF T
  <2> QED
    BY <1>5 DEF held
<1>15. Cardinality(S) >= NumPrompts
  BY <1>3, <1>5
<1> HIDE DEF T, S
<1> QED
  BY <1>8, <1>9, <1>11, <1>12, <1>13, <1>14, <1>15

-----------------------------------------------------------------------------
(* The store that the lists stand for.                                     *)
stored ==
    {[item |-> trajectories[i], gen |-> trajectoryVersions[i],
      tgt |-> targetWeightVersions[i], at |-> trajectories[i]] : i \in 1 .. Size}

LEMMA SameStore == stored = held
  BY DEF stored, held, Entries, Entry, Size

LEMMA SameCardinality == \A S : Store!Cardinality(S) = Cardinality(S)
  BY DEF Store!Cardinality, Cardinality, Store!IsFiniteSet, IsFiniteSet

LEMMA PushStep ==
  ASSUME BufInv, NEW g \in Versions, NEW t \in Versions, PushSuccess(g, t)
  PROVE  BufInv' /\ SampledAct /\ Store!Push(pushed + 1, g, t)
<1>1. /\ Size < MaxSize
      /\ trajectories' = Append(trajectories, pushed + 1)
      /\ trajectoryVersions' = Append(trajectoryVersions, g)
      /\ targetWeightVersions' = Append(targetWeightVersions, t)
      /\ lastTarget' = (IF t > lastTarget THEN t ELSE lastTarget)
      /\ pushed' = pushed + 1
      /\ answer' = <<"success">>
  BY DEF PushSuccess, Highest
<1>2. /\ pushed \in Nat /\ lastTarget \in Int
      /\ InStep(trajectories, trajectoryVersions, targetWeightVersions, pushed)
  BY DEF BufInv
<1>3. /\ InStep(trajectories', trajectoryVersions', targetWeightVersions', pushed')
      /\ held' = held \cup {[item |-> pushed + 1, gen |-> g, tgt |-> t,
                             at |-> pushed + 1]}
  <2> DEFINE tr1 == Append(trajectories, pushed + 1)
             ver1 == Append(trajectoryVersions, g)
             tgt1 == Append(targetWeightVersions, t)
             new == [item |-> pushed + 1, gen |-> g, tgt |-> t, at |-> pushed + 1]
  <2>1. InStep(tr1, ver1, tgt1, pushed + 1) /\ Entries(tr1, ver1, tgt1) = held \cup {new}
    BY <1>2, PushedInStep DEF held
  <2> HIDE DEF new
  <2>2. held' = Entries(trajectories', trajectoryVersions', targetWeightVersions')
    BY DEF held
  <2>3. held' = held \cup {new}
    BY <1>1, <2>1, <2>2, Zenon
  <2>4. InStep(trajectories', trajectoryVersions', targetWeightVersions', pushed')
    BY <1>1, <2>1, Zenon
  <2> QED
    BY <2>3, <2>4 DEF new
<1>4. BufInv'
  BY <1>1, <1>2, <1>3, BufferAssumption DEF BufInv
<1>5. SampledAct
  BY <1>1 DEF SampledAct
<1>6. ~Store!Full
  <2>1. Size \in Nat /\ MaxSize \in Nat
    BY <1>2, BufferAssumption, LenProperties DEF InStep, Size
  <2>2. Cardinality(stored) = Size
    BY HeldCounted, SameStore
  <2>3. Store!Full <=> Store!Cardinality(stored) >= MaxSize
    BY DEF Store!Full, stored
  <2>4. Store!Full <=> Size >= MaxSize
    BY <2>2, <2>3, SameCardinality
  <2> QED
    BY <1>1, <2>1, <2>4
<1>7. stored' = stored \cup {[item |-> pushed + 1, gen |-> g, tgt |-> t,
                              at |-> pushed + 1]}
  <2>1. stored' = held'
    BY DEF stored, held, Entries, Entry, Size
  <2> QED
    BY <1>3, <2>1, SameStore
<1>8. Store!Push(pushed + 1, g, t)
  BY <1>1, <1>6, <1>7, Zenon DEF Store!Push, stored
<1> QED
  BY <1>4, <1>5, <1>8

LEMMA SampleIsOfStore ==
  ASSUME BufInv, NEW cur \in Versions, SampleBatch(cur)
  PROVE  \E T \in SUBSET Store!Intended(cur) : Store!Sample(cur, T)
<1>1. /\ ~ \E e \in held : e.gen < MinValid(cur)
      /\ Cardinality({e \in held : /\ MinValid(cur) <= e.gen
                                   /\ e.gen <= cur
                                   /\ e.tgt = cur}) >= NumPrompts
      /\ \E T : IsOldest(T, cur) /\ held' = held \ T
  BY BatchStep
<1>2. PICK T : IsOldest(T, cur) /\ held' = held \ T
  BY <1>1
<1>3. Store!MinValidVersion(cur) = MinValid(cur)
  BY DEF Store!MinValidVersion, MinValid
<1>4. Store!Intended(cur) = {e \in held : /\ MinValid(cur) <= e.gen
                                          /\ e.gen <= cur
                                          /\ e.tgt = cur}
  <2>1. Store!Intended(cur) = {e \in stored : /\ MinValid(cur) <= e.gen
                                              /\ e.gen <= cur
                                              /\ e.tgt = cur}
    BY <1>3 DEF Store!Intended, stored
  <2> QED
    BY <2>1, SameStore
<1>5. ~Store!Expired(cur)
  <2>1. Store!Expired(cur) <=> \E e \in stored : e.gen < MinValid(cur)
    BY <1>3 DEF Store!Expired, stored
  <2> QED
    BY <1>1, <2>1, SameStore
<1>6. Store!CanSample(cur)
  BY <1>1, <1>4, <1>5, SameCardinality DEF Store!CanSample
<1>7. T \in SUBSET Store!Intended(cur)
  BY <1>2, <1>4 DEF IsOldest
<1>8. Store!FirstOf(T, Store!Intended(cur))
  <2>1. Store!Cardinality(T) = NumPrompts
    BY <1>2, SameCardinality DEF IsOldest
  <2>2. \A x \in T, y \in Store!Intended(cur) \ T : x.at < y.at
    BY <1>2, <1>4 DEF IsOldest
  <2> QED
    BY <2>1, <2>2 DEF Store!FirstOf
<1>9. stored' = stored \ T
  <2>1. stored' = held'
    BY DEF stored, held, Entries, Entry, Size
  <2> QED
    BY <1>2, <2>1, SameStore
<1>10. pushed' = pushed /\ lastTarget' = lastTarget
  BY DEF SampleBatch
<1>11. Store!Sample(cur, T)
  BY <1>6, <1>7, <1>8, <1>9, <1>10, Zenon DEF Store!Sample, stored
<1> QED
  BY <1>7, <1>11

LEMMA ClearStep ==
  ASSUME BufInv, Clear
  PROVE  BufInv' /\ SampledAct /\ Store!Clear
<1>1. /\ trajectories' = <<>> /\ trajectoryVersions' = <<>>
      /\ targetWeightVersions' = <<>> /\ answer' = <<"cleared">>
      /\ lastTarget' = lastTarget /\ pushed' = pushed
  BY DEF Clear
<1>2. BufInv' /\ SampledAct
  BY <1>1, EmptyInStep DEF BufInv, SampledAct
<1>3. stored' = {}
  <2>1. stored' = held'
    BY DEF stored, held, Entries, Entry, Size
  <2>2. held' = {}
    BY <1>1, EmptyInStep DEF BufInv, held
  <2> QED
    BY <2>1, <2>2
<1>4. Store!Clear
  BY <1>1, <1>3, Zenon DEF Store!Clear, stored
<1> QED
  BY <1>2, <1>4

\* A call that is refused changes nothing of the buffer.
LEMMA RefusedStep ==
  ASSUME BufInv,
         \/ PushFull
         \/ \E cur \in Versions : SampleRaises(cur) \/ SampleNone(cur)
  PROVE  BufInv' /\ SampledAct /\ UNCHANGED <<stored, pushed, lastTarget>>
<1> DEFINE idles == /\ trajectories' = trajectories
                    /\ trajectoryVersions' = trajectoryVersions
                    /\ targetWeightVersions' = targetWeightVersions
                    /\ lastTarget' = lastTarget /\ pushed' = pushed
                    /\ answer'[1] # "batch"
<1>1. idles
  <2>1. CASE PushFull
    BY <2>1 DEF PushFull, lists
  <2>2. ASSUME NEW cur \in Versions, SampleRaises(cur) PROVE idles
    BY <2>2 DEF SampleRaises, lists
  <2>3. ASSUME NEW cur \in Versions, SampleNone(cur) PROVE idles
    BY <2>3 DEF SampleNone, lists
  <2> QED
    BY <2>1, <2>2, <2>3
<1> QED
  BY <1>1 DEF BufInv, SampledAct, stored, Size

LEMMA StoreIdles ==
  ASSUME UNCHANGED <<stored, pushed, lastTarget>>
  PROVE  UNCHANGED Store!storeVars
  BY Zenon DEF Store!storeVars, stored

(* What every step does, to the lists and to the store.                    *)
LEMMA NextStep ==
  ASSUME BufInv, [Next]_vars
  PROVE  BufInv' /\ [SampledAct]_vars /\ [Store!StoreNext]_(Store!storeVars)
<1>1. ASSUME NEW g \in Versions, NEW t \in Versions, PushSuccess(g, t)
      PROVE  BufInv' /\ SampledAct /\ Store!StoreNext
  BY <1>1, PushStep DEF Store!StoreNext
<1>2. ASSUME \/ PushFull
             \/ \E cur \in Versions : SampleRaises(cur) \/ SampleNone(cur)
      PROVE  BufInv' /\ SampledAct /\ UNCHANGED Store!storeVars
  BY <1>2, RefusedStep, StoreIdles
<1>3. ASSUME NEW cur \in Versions, SampleBatch(cur)
      PROVE  BufInv' /\ SampledAct /\ Store!StoreNext
  BY <1>3, BatchStep, SampleIsOfStore DEF Store!StoreNext
<1>4. ASSUME Clear PROVE BufInv' /\ SampledAct /\ Store!StoreNext
  BY <1>4, ClearStep DEF Store!StoreNext
<1>5. ASSUME UNCHANGED vars
      PROVE  BufInv' /\ UNCHANGED vars /\ UNCHANGED Store!storeVars
  <2>1. UNCHANGED <<stored, pushed, lastTarget>> /\ BufInv'
    BY <1>5 DEF vars, lists, stored, Size, BufInv
  <2> QED
    BY <1>5, <2>1, StoreIdles
<1> QED
  BY <1>1, <1>2, <1>3, <1>4, <1>5 DEF Next

LEMMA InitHolds == Init => BufInv /\ Store!StoreInit
<1> SUFFICES ASSUME Init PROVE BufInv /\ Store!StoreInit
  OBVIOUS
<1>1. BufInv
  BY StartsInStep DEF Init, BufInv
<1>2. stored = {}
  <2>1. held = {}
    BY StartsInStep DEF Init, held
  <2> QED
    BY <2>1, SameStore
<1>3. Store!StoreInit
  BY <1>2, Zenon DEF Init, Store!StoreInit, stored
<1> QED
  BY <1>1, <1>3

(* A batch handed out is gone from the buffer and no other entry is, for   *)
(* every capacity, step size and age limit: popping by index from three    *)
(* lists never takes a neighbour, leaves a group that was handed out or    *)
(* loses one that was not.                                                 *)
THEOREM SampledGroupsLeave == Spec => SampledLeave
<1>1. Init => BufInv
  BY InitHolds
<1>2. BufInv /\ [Next]_vars => BufInv' /\ [SampledAct]_vars
  BY NextStep
<1> QED
  BY <1>1, <1>2, PTL DEF Spec, SampledLeave, SampledAct

(* The three lists implement the store of ReplayStore: every call is one   *)
(* step of the store or changes nothing in it, so what AsyncGRPO takes the *)
(* buffer for is what the actor does.                                      *)
THEOREM ListsAreAStore == Spec => ImplementsStore
<1>1. Init => BufInv /\ Store!StoreInit
  BY InitHolds
<1>2. BufInv /\ [Next]_vars => BufInv' /\ [Store!StoreNext]_(Store!storeVars)
  BY NextStep
<1> QED
  BY <1>1, <1>2, PTL DEF Spec, ImplementsStore, Store!StoreSpec
=============================================================================
