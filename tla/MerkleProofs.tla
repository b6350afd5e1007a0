---------------------------- MODULE MerkleProofs ----------------------------
(***************************************************************************)
(* The Merkle tree, for ledgers of every size over any payloads.           *)
(***************************************************************************)
EXTENDS Merkle, SequenceTheorems, WellFoundedInduction, TLAPS

-----------------------------------------------------------------------------
(***************************************************************************)
(* Induction over the naturals, about the set where a statement holds.     *)
(***************************************************************************)

\* A non-empty set of naturals has a least element.
LEMMA LeastNatural ==
    ASSUME NEW T, T \subseteq Nat, T # {}
    PROVE  \E i \in T : \A j \in T : i <= j
<1>1. PICK i \in T : \A j \in T : ~(<<j, i>> \in OpToRel(<, Nat))
  BY NatLessThanWellFounded, WFMin
<1>2. \A j \in T : ~(j < i)
  BY <1>1 DEF OpToRel
<1>3. QED
  BY <1>2

\* A set that contains n when it contains everything below n is Nat.
LEMMA StrongInduction ==
    ASSUME NEW T,
           \A n \in Nat : (\A m \in Nat : m < n => m \in T) => n \in T
    PROVE  \A n \in Nat : n \in T
<1> SUFFICES ASSUME NEW n \in Nat, n \notin T PROVE FALSE
  OBVIOUS
<1> DEFINE U == {i \in Nat : i \notin T}
<1>1. U # {} /\ U \subseteq Nat
  OBVIOUS
<1>2. PICK i \in U : \A j \in U : i <= j
  BY <1>1, LeastNatural
<1>3. \A m \in Nat : m < i => m \in T
  BY <1>2
<1>4. QED
  BY <1>2, <1>3

\* A set with 0 and with the successor of each of its elements is Nat.
LEMMA Induction ==
    ASSUME NEW T, 0 \in T, \A n \in Nat : n \in T => n + 1 \in T
    PROVE  \A n \in Nat : n \in T
<1>1. ASSUME NEW n \in Nat, \A m \in Nat : m < n => m \in T
      PROVE  n \in T
  <2>1. CASE n = 0
    BY <2>1
  <2>2. CASE n > 0
    <3>1. n - 1 \in Nat /\ n - 1 < n /\ (n - 1) + 1 = n
      BY <2>2
    <3>2. QED
      BY <1>1, <3>1
  <2>3. QED
    BY <2>1, <2>2
<1>2. QED
  BY <1>1, StrongInduction

-----------------------------------------------------------------------------
(***************************************************************************)
(* Powers of two.                                                          *)
(***************************************************************************)

\* A function on 0..n that doubles from 1 on.
Doubles(f, n) == f = [j \in 0..n |-> IF j = 0 THEN 1 ELSE 2 * f[j - 1]]

LEMMA DoublesExists == \A n \in Nat : \E f : Doubles(f, n)
<1> DEFINE T == {n \in Nat : \E f : Doubles(f, n)}
<1>1. 0 \in T
  <2>1. Doubles([j \in 0..0 |-> 1], 0)
    BY DEF Doubles
  <2>2. QED
    BY <2>1
<1>2. ASSUME NEW n \in Nat, n \in T PROVE n + 1 \in T
  <2>1. PICK f : Doubles(f, n)
    BY <1>2
  <2> DEFINE g == [j \in 0..(n + 1) |-> IF j = n + 1 THEN 2 * f[n] ELSE f[j]]
  <2>2. \A j \in 0..n : f[j] = IF j = 0 THEN 1 ELSE 2 * f[j - 1]
    BY <2>1 DEF Doubles
  <2>3. ASSUME NEW j \in 0..(n + 1)
        PROVE  g[j] = IF j = 0 THEN 1 ELSE 2 * g[j - 1]
    BY <2>2
  <2>4. g = [j \in 0..(n + 1) |-> IF j = 0 THEN 1 ELSE 2 * g[j - 1]]
    BY <2>3, Zenon
  <2> HIDE DEF g
  <2>5. Doubles(g, n + 1)
    BY <2>4 DEF Doubles
  <2>6. QED
    BY <2>5
<1> HIDE DEF T
<1>3. \A n \in Nat : n \in T
  BY <1>1, <1>2, Induction
<1>4. QED
  BY <1>3 DEF T

LEMMA DoublesUnique ==
    ASSUME NEW m \in Nat, NEW n \in Nat, NEW f, NEW g, Doubles(f, m), Doubles(g, n)
    PROVE  \A j \in 0..m : j <= n => f[j] = g[j]
<1> DEFINE T == {j \in Nat : j <= m /\ j <= n => f[j] = g[j]}
<1>1. \A j \in 0..m : f[j] = IF j = 0 THEN 1 ELSE 2 * f[j - 1]
  BY DEF Doubles
<1>2. \A j \in 0..n : g[j] = IF j = 0 THEN 1 ELSE 2 * g[j - 1]
  BY DEF Doubles
<1>3. 0 \in T
  BY <1>1, <1>2
<1>4. \A j \in Nat : j \in T => j + 1 \in T
  BY <1>1, <1>2
<1> HIDE DEF T
<1>5. \A j \in Nat : j \in T
  BY <1>3, <1>4, Induction
<1>6. QED
  BY <1>5 DEF T

\* The defining equation of Pow2, and the facts everything below rests on.
LEMMA Pow2Def == \A j \in Nat : Pow2[j] = IF j = 0 THEN 1 ELSE 2 * Pow2[j - 1]
<1> DEFINE f(n) == CHOOSE f : Doubles(f, n)
           p == [n \in Nat |-> f(n)[n]]
<1>1. \A n \in Nat : Doubles(f(n), n)
  BY DoublesExists
<1>2. \A n \in Nat : \A j \in 0..n : f(n)[j] = p[j]
  <2> SUFFICES ASSUME NEW n \in Nat, NEW j \in 0..n PROVE f(n)[j] = f(j)[j]
    OBVIOUS
  <2> HIDE DEF f
  <2>1. QED
    BY <1>1, DoublesUnique
<1> HIDE DEF f
<1>3. ASSUME NEW n \in Nat PROVE p[n] = IF n = 0 THEN 1 ELSE 2 * p[n - 1]
  <2>1. f(n)[n] = IF n = 0 THEN 1 ELSE 2 * f(n)[n - 1]
    BY <1>1 DEF Doubles
  <2>2. f(n)[n] = p[n] /\ (n > 0 => f(n)[n - 1] = p[n - 1])
    BY <1>2
  <2>3. QED
    BY <2>1, <2>2
<1>4. p = [n \in Nat |-> IF n = 0 THEN 1 ELSE 2 * p[n - 1]]
  BY <1>3, Zenon
<1> HIDE DEF p
<1>5. Pow2 = [n \in Nat |-> IF n = 0 THEN 1 ELSE 2 * Pow2[n - 1]]
  BY <1>4, Zenon DEF Pow2
<1>6. QED
  BY <1>5

LEMMA Pow2Facts ==
    \A j \in Nat : /\ Pow2[j] \in Nat
                   /\ Pow2[j] > j
                   /\ Pow2[j + 1] = 2 * Pow2[j]
<1> DEFINE T == {j \in Nat : Pow2[j] \in Nat /\ Pow2[j] > j}
<1>1. Pow2[0] = 1
  BY Pow2Def
<1>2. \A j \in Nat : Pow2[j + 1] = 2 * Pow2[j]
  <2> SUFFICES ASSUME NEW j \in Nat PROVE Pow2[j + 1] = 2 * Pow2[j]
    OBVIOUS
  <2>1. j + 1 \in Nat /\ j + 1 # 0 /\ (j + 1) - 1 = j
    OBVIOUS
  <2>2. QED
    BY <2>1, Pow2Def
<1>3. 0 \in T
  BY <1>1
<1>4. \A j \in Nat : j \in T => j + 1 \in T
  BY <1>2
<1> HIDE DEF T
<1>5. \A j \in Nat : j \in T
  BY <1>3, <1>4, Induction
<1>6. QED
  BY <1>2, <1>5 DEF T

LEMMA Pow2Zero == Pow2[0] = 1
BY Pow2Def

LEMMA Pow2Positive == \A j \in Nat : Pow2[j] \in Nat /\ Pow2[j] > 0
<1>1. \A j \in Nat : Pow2[j] \in Nat /\ Pow2[j] > j
  BY Pow2Facts, Zenon
<1>2. QED
  BY <1>1

\* A smaller power of two goes at least twice into a larger one.
LEMMA Pow2Grows ==
    ASSUME NEW i \in Nat, NEW j \in Nat, i < j
    PROVE  2 * Pow2[i] <= Pow2[j]
<1> DEFINE T == {d \in Nat : 2 * Pow2[i] <= Pow2[i + 1 + d]}
<1>1. 0 \in T
  BY Pow2Facts
<1>2. ASSUME NEW d \in Nat, d \in T PROVE d + 1 \in T
  <2>1. i + 1 + d \in Nat /\ i + 1 + (d + 1) = (i + 1 + d) + 1
    OBVIOUS
  <2>2. Pow2[i + 1 + (d + 1)] = 2 * Pow2[i + 1 + d] /\ Pow2[i + 1 + d] \in Nat /\ Pow2[i] \in Nat
    BY <2>1, Pow2Facts
  <2>3. QED
    BY <1>2, <2>2
<1> HIDE DEF T
<1>3. \A d \in Nat : d \in T
  BY <1>1, <1>2, Induction
<1>4. j - i - 1 \in Nat /\ i + 1 + (j - i - 1) = j
  OBVIOUS
<1>5. QED
  BY <1>3, <1>4 DEF T

\* Between n / 2 and n there is a power of two, for n >= 2.
LEMMA SplitExists ==
    ASSUME NEW n \in Nat, n >= 2
    PROVE  \E j \in Nat : Pow2[j] < n /\ n <= 2 * Pow2[j]
<1> DEFINE T == {j \in Nat : n <= 2 * Pow2[j]}
<1>1. n \in T
  BY Pow2Facts
<1>2. PICK j \in T : \A i \in T : j <= i
  BY <1>1, LeastNatural
<1>3. CASE j = 0
  BY <1>2, <1>3, Pow2Zero
<1>4. CASE j > 0
  <2>1. j - 1 \in Nat /\ j - 1 \notin T
    BY <1>2, <1>4
  <2>2. Pow2[j] = 2 * Pow2[j - 1] /\ Pow2[j - 1] \in Nat
    BY <2>1, <1>4, Pow2Def, Pow2Facts
  <2>3. QED
    BY <1>2, <2>1, <2>2
<1>5. QED
  BY <1>2, <1>3, <1>4

\* The split of a tree of n leaves is that power of two.
LEMMA LargestPowerIs ==
    ASSUME NEW n \in Nat, NEW j \in Nat, Pow2[j] < n, n <= 2 * Pow2[j]
    PROVE  LargestPowerOfTwo(n) = Pow2[j]
<1>1. Pow2[j] \in Nat /\ Pow2[j] > j
  BY Pow2Facts
<1>2. Pow2[j] \in 1..(n - 1) /\ IsPowerOfTwo(Pow2[j])
  BY <1>1 DEF IsPowerOfTwo
<1>3. ASSUME NEW k \in 1..(n - 1), IsPowerOfTwo(k), 2 * k >= n
      PROVE  k = Pow2[j]
  <2>1. PICK i \in 0..k : k = Pow2[i]
    BY <1>3 DEF IsPowerOfTwo
  <2>2. i \in Nat
    OBVIOUS
  <2>3. ~(i < j) /\ ~(j < i)
    BY <1>1, <1>3, <2>1, <2>2, Pow2Grows
  <2>4. QED
    BY <2>1, <2>2, <2>3
<1>4. QED
  BY <1>1, <1>2, <1>3 DEF LargestPowerOfTwo

LEMMA SplitFacts ==
    ASSUME NEW n \in Nat, n >= 2
    PROVE  /\ LargestPowerOfTwo(n) \in Nat
           /\ LargestPowerOfTwo(n) > 0
           /\ LargestPowerOfTwo(n) < n
<1>1. PICK j \in Nat : Pow2[j] < n /\ n <= 2 * Pow2[j]
  BY SplitExists
<1>2. QED
  BY <1>1, LargestPowerIs, Pow2Facts

-----------------------------------------------------------------------------
(***************************************************************************)
(* The recursive functions of the model are well defined: each satisfies   *)
(* its defining equation.  A value depends on the values of shorter slices *)
(* (earlier rounds) alone, so that a function on lengths up to n that      *)
(* satisfies the equation extends to n + 1.                                *)
(***************************************************************************)

RootBody(h, f, len) ==
    [start \in 0..(Len(h) - len) |->
        IF len = 1
        THEN h[start + 1]
        ELSE LET k == LargestPowerOfTwo(len)
             IN  NodeHash(f[k][start], f[len - k][start + k])]

LEMMA RootBodyLocal ==
    ASSUME NEW h, NEW len \in Nat, len >= 1, NEW f, NEW g,
           \A l \in Nat : 1 <= l /\ l < len => f[l] = g[l]
    PROVE  RootBody(h, f, len) = RootBody(h, g, len)
<1>1. CASE len = 1
  BY <1>1 DEF RootBody
<1>2. CASE len >= 2
  <2> DEFINE k == LargestPowerOfTwo(len)
  <2>1. k \in Nat /\ k >= 1 /\ k < len
    BY <1>2, SplitFacts
  <2> HIDE DEF k
  <2>2. f[k] = g[k] /\ f[len - k] = g[len - k]
    BY <2>1
  <2>3. QED
    BY <1>2, <2>2, Zenon DEF RootBody, k
<1>3. QED
  BY <1>1, <1>2

LEMMA SliceRootsExist ==
    ASSUME NEW h
    PROVE  \A n \in Nat : \E f : f = [len \in 1..n |-> RootBody(h, f, len)]
<1> DEFINE T == {n \in Nat : \E f : f = [len \in 1..n |-> RootBody(h, f, len)]}
<1>1. 0 \in T
  <2> DEFINE e == [len \in 1..0 |-> 0]
  <2>1. e = [len \in 1..0 |-> RootBody(h, e, len)]
    OBVIOUS
  <2>2. QED
    BY <2>1, Zenon
<1>2. ASSUME NEW n \in Nat, n \in T PROVE n + 1 \in T
  <2>1. PICK f : f = [len \in 1..n |-> RootBody(h, f, len)]
    BY <1>2
  <2> DEFINE g == [len \in 1..(n + 1) |-> RootBody(h, f, len)]
  <2>2. \A l \in Nat : 1 <= l /\ l < n + 1 => f[l] = g[l]
    <3>1. ASSUME NEW l \in 1..n PROVE f[l] = g[l]
      <4>1. f[l] = RootBody(h, f, l)
        BY <2>1, Zenon
      <4>2. QED
        BY <4>1
    <3> HIDE DEF g, T
    <3>2. QED
      BY <3>1
  <2> HIDE DEF g
  <2>3. ASSUME NEW len \in 1..(n + 1) PROVE RootBody(h, f, len) = RootBody(h, g, len)
    BY <2>2, RootBodyLocal
  <2>4. g = [len \in 1..(n + 1) |-> RootBody(h, g, len)]
    BY <2>3, Zenon DEF g
  <2>5. n + 1 \in Nat
    OBVIOUS
  <2>6. QED
    BY <2>4, <2>5, Zenon
<1> HIDE DEF T
<1>3. \A n \in Nat : n \in T
  BY <1>1, <1>2, Induction
<1>4. QED
  BY <1>3 DEF T

\* The recursion of root_of_hashes.
LEMMA SliceRootsDef ==
    ASSUME NEW h, Len(h) \in Nat,
           NEW len \in Nat, NEW start \in Nat, len >= 1, start + len <= Len(h)
    PROVE  /\ len = 1 => SliceRoots(h)[len][start] = h[start + 1]
           /\ len >= 2 => LET k == LargestPowerOfTwo(len)
                          IN  SliceRoots(h)[len][start] =
                                NodeHash(SliceRoots(h)[k][start],
                                         SliceRoots(h)[len - k][start + k])
<1> DEFINE R == SliceRoots(h)
<1>1. R = CHOOSE f : f = [l \in 1..Len(h) |-> RootBody(h, f, l)]
  BY Zenon DEF SliceRoots, RootBody
<1>2. R = [l \in 1..Len(h) |-> RootBody(h, R, l)]
  BY <1>1, SliceRootsExist, Zenon
<1> HIDE DEF R
<1>3. R[len] = RootBody(h, R, len)
  <2>1. len \in 1..Len(h)
    OBVIOUS
  <2>2. QED
    BY <1>2, <2>1, Zenon
<1>4. start \in 0..(Len(h) - len)
  OBVIOUS
<1>5. len = 1 => R[len][start] = h[start + 1]
  BY <1>3, <1>4 DEF RootBody
<1>6. ASSUME len >= 2
      PROVE  LET k == LargestPowerOfTwo(len)
             IN  R[len][start] = NodeHash(R[k][start], R[len - k][start + k])
  <2>1. len # 1
    BY <1>6
  <2>2. QED
    BY <1>3, <1>4, <2>1, Zenon DEF RootBody
<1>7. QED
  BY <1>5, <1>6 DEF R

-----------------------------------------------------------------------------
(***************************************************************************)
(* Roots of slices.                                                        *)
(***************************************************************************)

\* The leaves of two slices of one length are the same.
SameLeaves(a, p, b, q, len) == \A i \in Nat : i < len => a[p + i + 1] = b[q + i + 1]

\* The root of a slice is a matter of its leaves, wherever they stand.
LEMMA RootsLocal ==
    ASSUME NEW a, NEW b, Len(a) \in Nat, Len(b) \in Nat
    PROVE  \A len, p, q \in Nat :
             /\ len >= 1 /\ p + len <= Len(a) /\ q + len <= Len(b)
             /\ SameLeaves(a, p, b, q, len)
             => SliceRoots(a)[len][p] = SliceRoots(b)[len][q]
<1> DEFINE A == SliceRoots(a)
           B == SliceRoots(b)
           T == {len \in Nat : \A p, q \in Nat :
                    len >= 1 /\ p + len <= Len(a) /\ q + len <= Len(b) /\ SameLeaves(a, p, b, q, len)
                    => A[len][p] = B[len][q]}
<1>1. ASSUME NEW len \in Nat, \A m \in Nat : m < len => m \in T
      PROVE  len \in T
  <2> SUFFICES ASSUME NEW p \in Nat, NEW q \in Nat, len >= 1,
                      p + len <= Len(a), q + len <= Len(b), SameLeaves(a, p, b, q, len)
               PROVE  A[len][p] = B[len][q]
    OBVIOUS
  <2>1. CASE len = 1
    <3>1. A[len][p] = a[p + 1] /\ B[len][q] = b[q + 1]
      BY <2>1, SliceRootsDef
    <3>2. a[p + 0 + 1] = b[q + 0 + 1] /\ p + 0 + 1 = p + 1 /\ q + 0 + 1 = q + 1
      BY <2>1 DEF SameLeaves
    <3>3. QED
      BY <3>1, <3>2
  <2>2. CASE len >= 2
    <3> DEFINE k == LargestPowerOfTwo(len)
    <3>1. k \in Nat /\ k >= 1 /\ k < len
      BY <2>2, SplitFacts
    <3>2. /\ A[len][p] = NodeHash(A[k][p], A[len - k][p + k])
          /\ B[len][q] = NodeHash(B[k][q], B[len - k][q + k])
      BY <2>2, SliceRootsDef
    <3> HIDE DEF k, A, B, T
    <3>3. SameLeaves(a, p, b, q, k)
      BY <3>1 DEF SameLeaves
    <3>4. ASSUME NEW x \in Nat, x < len - k PROVE a[(p + k) + x + 1] = b[(q + k) + x + 1]
      <4>1. k + x \in Nat /\ k + x < len
        BY <3>1, <3>4
      <4>2. a[p + (k + x) + 1] = b[q + (k + x) + 1]
        BY <4>1 DEF SameLeaves
      <4>3. p + (k + x) + 1 = (p + k) + x + 1 /\ q + (k + x) + 1 = (q + k) + x + 1
        BY <3>1
      <4>4. QED
        BY <4>2, <4>3
    <3>5. SameLeaves(a, p + k, b, q + k, len - k)
      BY <3>4 DEF SameLeaves
    <3>6. /\ len - k \in Nat /\ len - k < len /\ len - k >= 1
          /\ p + k \in Nat /\ q + k \in Nat /\ p + k <= Len(a) /\ q + k <= Len(b)
          /\ (p + k) + (len - k) <= Len(a) /\ (q + k) + (len - k) <= Len(b)
      BY <3>1
    <3>7. k \in T /\ len - k \in T
      BY <1>1, <3>1, <3>6
    <3>8. A[k][p] = B[k][q]
      BY <3>1, <3>3, <3>6, <3>7 DEF T
    <3>9. A[len - k][p + k] = B[len - k][q + k]
      BY <3>5, <3>6, <3>7 DEF T
    <3>10. QED
      BY <3>2, <3>8, <3>9
  <2>3. QED
    BY <2>1, <2>2
<1> HIDE DEF T
<1>2. \A len \in Nat : len \in T
  BY <1>1, StrongInduction
<1>3. QED
  BY <1>2 DEF T

\* Slices of one length with one root have the same leaves.
LEMMA RootsInjective ==
    ASSUME NEW a, NEW b, Len(a) \in Nat, Len(b) \in Nat
    PROVE  \A len, p, q \in Nat :
             /\ len >= 1 /\ p + len <= Len(a) /\ q + len <= Len(b)
             /\ SliceRoots(a)[len][p] = SliceRoots(b)[len][q]
             => SameLeaves(a, p, b, q, len)
<1> DEFINE A == SliceRoots(a)
           B == SliceRoots(b)
           T == {len \in Nat : \A p, q \in Nat :
                    len >= 1 /\ p + len <= Len(a) /\ q + len <= Len(b) /\ A[len][p] = B[len][q]
                    => SameLeaves(a, p, b, q, len)}
<1>1. ASSUME NEW len \in Nat, \A m \in Nat : m < len => m \in T
      PROVE  len \in T
  <2> SUFFICES ASSUME NEW p \in Nat, NEW q \in Nat, len >= 1,
                      p + len <= Len(a), q + len <= Len(b), A[len][p] = B[len][q],
                      NEW i \in Nat, i < len
               PROVE  a[p + i + 1] = b[q + i + 1]
    BY DEF SameLeaves
  <2>1. CASE len = 1
    <3>1. A[len][p] = a[p + 1] /\ B[len][q] = b[q + 1]
      BY <2>1, SliceRootsDef
    <3>2. i = 0 /\ p + i + 1 = p + 1 /\ q + i + 1 = q + 1
      BY <2>1
    <3>3. QED
      BY <3>1, <3>2
  <2>2. CASE len >= 2
    <3> DEFINE k == LargestPowerOfTwo(len)
    <3>1. k \in Nat /\ k >= 1 /\ k < len
      BY <2>2, SplitFacts
    <3>2. /\ A[len][p] = NodeHash(A[k][p], A[len - k][p + k])
          /\ B[len][q] = NodeHash(B[k][q], B[len - k][q + k])
      BY <2>2, SliceRootsDef
    <3> HIDE DEF k, A, B, T
    <3>3. A[k][p] = B[k][q] /\ A[len - k][p + k] = B[len - k][q + k]
      <4>1. NodeHash(A[k][p], A[len - k][p + k]) = NodeHash(B[k][q], B[len - k][q + k])
        BY <3>2, Zenon
      <4>2. QED
        BY <4>1 DEF NodeHash
    <3>4. CASE i < k
      <4>1. k \in T /\ p + k <= Len(a) /\ q + k <= Len(b)
        BY <1>1, <3>1
      <4>2. QED
        BY <3>1, <3>3, <3>4, <4>1 DEF T, SameLeaves
    <3>5. CASE i >= k
      <4>1. /\ len - k \in Nat /\ len - k < len /\ len - k >= 1
            /\ p + k \in Nat /\ q + k \in Nat /\ i - k \in Nat /\ i - k < len - k
            /\ p + k + (len - k) <= Len(a) /\ q + k + (len - k) <= Len(b)
        BY <3>1, <3>5
      <4> len - k \in T
        BY <1>1, <4>1
      <4>2. a[(p + k) + (i - k) + 1] = b[(q + k) + (i - k) + 1]
        <5>1. \A x \in Nat : x < len - k => a[(p + k) + x + 1] = b[(q + k) + x + 1]
          BY <3>3, <4>1 DEF T, SameLeaves
        <5>2. QED
          BY <4>1, <5>1
      <4>3. (p + k) + (i - k) + 1 = p + i + 1 /\ (q + k) + (i - k) + 1 = q + i + 1
        BY <3>1
      <4>4. QED
        BY <4>2, <4>3
    <3>6. QED
      BY <3>1, <3>4, <3>5
  <2>3. QED
    BY <2>1, <2>2
<1> HIDE DEF T
<1>2. \A len \in Nat : len \in T
  BY <1>1, StrongInduction
<1>3. QED
  BY <1>2 DEF T

-----------------------------------------------------------------------------
(***************************************************************************)
(* The tree seen from its rows.                                            *)
(***************************************************************************)

\* What the provers need to know of X = c * P.
Spans(c, P, X) ==
    /\ X \in Nat
    /\ (2 * c) * P = 2 * X
    /\ (2 * c + 1) * P = 2 * X + P
    /\ (2 * c + 1 + 1) * P = 2 * X + 2 * P
    /\ c * (2 * P) = 2 * X
    /\ (c + 1) * (2 * P) = 2 * X + 2 * P

LEMMA Multiples ==
    ASSUME NEW c \in Nat, NEW P \in Nat
    PROVE  \E X \in Nat : X = c * P /\ Spans(c, P, X)
<1>1. c * P \in Nat
  OBVIOUS
<1>2. /\ (2 * c) * P = 2 * (c * P)
      /\ (2 * c + 1) * P = 2 * (c * P) + P
      /\ (2 * c + 1 + 1) * P = 2 * (c * P) + 2 * P
      /\ c * (2 * P) = 2 * (c * P)
      /\ (c + 1) * (2 * P) = 2 * (c * P) + 2 * P
  OBVIOUS
<1>3. QED
  BY <1>1, <1>2, Zenon DEF Spans

\* A node with two children is their hash.
LEMMA NodeSplit ==
    ASSUME NEW h, NEW n \in Nat, Len(h) = n,
           NEW j \in Nat, NEW P \in Nat, Pow2[j] = P,
           NEW c \in Nat, NEW X \in Nat, Spans(c, P, X), 2 * X + P < n
    PROVE  NodeAt(h, 2 * P, c) = NodeHash(NodeAt(h, P, 2 * c), NodeAt(h, P, 2 * c + 1))
<1> DEFINE len == IF 2 * X + 2 * P <= n THEN 2 * P ELSE n - 2 * X
<1>1. P > 0
  BY Pow2Positive
<1>2. len \in Nat /\ P < len /\ len <= 2 * P /\ 2 * X + len <= n /\ len >= 2
  BY <1>1
<1>3. NodeAt(h, 2 * P, c) = SliceRoots(h)[len][2 * X]
  BY Zenon DEF NodeAt, Spans
<1>4. NodeAt(h, P, 2 * c) = SliceRoots(h)[P][2 * X]
  <2>1. 2 * X + P <= n
    BY <1>1
  <2>2. QED
    BY <2>1, Zenon DEF NodeAt, Spans
<1>5. NodeAt(h, P, 2 * c + 1) = SliceRoots(h)[len - P][2 * X + P]
  <2>1. (IF 2 * X + 2 * P <= n THEN P ELSE n - (2 * X + P)) = len - P
    BY <1>1
  <2>2. QED
    BY <2>1, Zenon DEF NodeAt, Spans
<1> HIDE DEF len
<1>6. LargestPowerOfTwo(len) = P
  BY <1>2, LargestPowerIs
<1>7. SliceRoots(h)[len][2 * X] = NodeHash(SliceRoots(h)[P][2 * X], SliceRoots(h)[len - P][2 * X + P])
  <2>1. 2 * X \in Nat /\ Len(h) \in Nat /\ 2 * X + len <= Len(h) /\ len >= 1
    BY <1>2
  <2>2. LET k == LargestPowerOfTwo(len)
        IN  SliceRoots(h)[len][2 * X] =
              NodeHash(SliceRoots(h)[k][2 * X], SliceRoots(h)[len - k][2 * X + k])
    BY <1>2, <2>1, SliceRootsDef
  <2>3. QED
    BY <1>6, <2>2, Zenon
<1>8. QED
  BY <1>3, <1>4, <1>5, <1>7

\* A node with a left child alone is that child.
LEMMA NodeSkip ==
    ASSUME NEW h, NEW n \in Nat, Len(h) = n, NEW P \in Nat, P > 0,
           NEW c \in Nat, NEW X \in Nat, Spans(c, P, X), 2 * X < n, n <= 2 * X + P
    PROVE  NodeAt(h, 2 * P, c) = NodeAt(h, P, 2 * c)
<1>1. (IF 2 * X + P <= n THEN P ELSE n - 2 * X) = n - 2 * X
  OBVIOUS
<1>2. (IF 2 * X + 2 * P <= n THEN 2 * P ELSE n - 2 * X) = n - 2 * X
  OBVIOUS
<1>3. NodeAt(h, P, 2 * c) = SliceRoots(h)[n - 2 * X][2 * X]
  BY <1>1, Zenon DEF NodeAt, Spans
<1>4. NodeAt(h, 2 * P, c) = SliceRoots(h)[n - 2 * X][2 * X]
  BY <1>2, Zenon DEF NodeAt, Spans
<1>5. QED
  BY <1>3, <1>4

\* Halving the index of a node, and of the last node of its row.
LEMMA Halves ==
    ASSUME NEW i \in Nat
    PROVE  /\ i \div 2 \in Nat
           /\ i % 2 = 1 => i = 2 * (i \div 2) + 1 /\ i - 1 = 2 * (i \div 2)
           /\ i % 2 # 1 => i % 2 = 0 /\ i = 2 * (i \div 2) /\ i + 1 = 2 * (i \div 2) + 1
OBVIOUS

LEMMA LastSpans ==
    ASSUME NEW last, NEW P \in Nat, NEW n \in Nat, LastOf(last, P, n)
    PROVE  \E X \in Nat : /\ Spans(last \div 2, P, X)
                          /\ last % 2 = 1 => 2 * X + P < n /\ n <= 2 * X + 2 * P
                          /\ last % 2 # 1 => 2 * X < n /\ n <= 2 * X + P
<1> DEFINE c == last \div 2
<1>1. last \in Nat
  BY DEF LastOf
<1>2. /\ c \in Nat
      /\ last % 2 = 1 => last = 2 * c + 1
      /\ last % 2 # 1 => last = 2 * c
  BY <1>1, Halves
<1> HIDE DEF c
<1>3. PICK X \in Nat : Spans(c, P, X)
  BY <1>2, Multiples
<1>4. CASE last % 2 = 1
  <2>1. 2 * X + P < n /\ n <= 2 * X + 2 * P
    BY <1>2, <1>3, <1>4, Zenon DEF LastOf, Spans
  <2>2. QED
    BY <1>3, <1>4, <2>1 DEF c
<1>5. CASE last % 2 # 1
  <2>1. 2 * X < n /\ n <= 2 * X + P
    BY <1>2, <1>3, <1>5, Zenon DEF LastOf, Spans
  <2>2. QED
    BY <1>3, <1>5, <2>1 DEF c
<1>6. QED
  BY <1>4, <1>5

LEMMA LastHalves ==
    ASSUME NEW last, NEW P \in Nat, NEW n \in Nat, LastOf(last, P, n)
    PROVE  LastOf(last \div 2, 2 * P, n)
<1> DEFINE c == last \div 2
<1>1. c \in Nat
  BY Halves DEF LastOf
<1>2. PICK X \in Nat : /\ Spans(c, P, X)
                       /\ last % 2 = 1 => 2 * X + P < n /\ n <= 2 * X + 2 * P
                       /\ last % 2 # 1 => 2 * X < n /\ n <= 2 * X + P
  BY LastSpans
<1> HIDE DEF c
<1>3. 2 * X < n /\ n <= 2 * X + 2 * P
  BY <1>2
<1>4. c * (2 * P) = 2 * X /\ (c + 1) * (2 * P) = 2 * X + 2 * P
  BY <1>2 DEF Spans
<1>5. LastOf(c, 2 * P, n)
  BY <1>1, <1>3, <1>4, Zenon DEF LastOf
<1>6. QED
  BY <1>5 DEF c

\* The row of a width has one last node.
LEMMA LastUnique ==
    ASSUME NEW a, NEW b, NEW P \in Nat, NEW n \in Nat, LastOf(a, P, n), LastOf(b, P, n)
    PROVE  a = b
<1>1. ASSUME NEW x \in Nat, NEW y \in Nat, LastOf(x, P, n), LastOf(y, P, n), x < y
      PROVE  FALSE
  <2>1. PICK d \in Nat : y = x + 1 + d
    <3>1. y - x - 1 \in Nat /\ y = x + 1 + (y - x - 1)
      BY <1>1
    <3>2. QED
      BY <3>1
  <2>2. y * P = (x + 1) * P + d * P /\ d * P \in Nat /\ (x + 1) * P \in Nat
    BY <2>1
  <2>3. y * P < n /\ n <= (x + 1) * P
    BY <1>1 DEF LastOf
  <2> DEFINE Y == y * P
             Z == (x + 1) * P
             W == d * P
  <2>4. Y = Z + W /\ W \in Nat /\ Z \in Nat /\ Y < n /\ n <= Z
    BY <2>2, <2>3
  <2> HIDE DEF Y, Z, W
  <2>5. QED
    BY <2>4
<1>2. a \in Nat /\ b \in Nat
  BY DEF LastOf
<1>3. QED
  BY <1>1, <1>2

\* The last node of the row is complete.
Full(q, P, n) == q \in Nat /\ (q + 1) * P = n

LEMMA FullLast ==
    ASSUME NEW q, NEW P \in Nat, P > 0, NEW n \in Nat, Full(q, P, n)
    PROVE  LastOf(q, P, n)
<1>1. q \in Nat /\ (q + 1) * P = n
  BY DEF Full
<1>2. (q + 1) * P = q * P + P /\ q * P \in Nat
  BY <1>1
<1>3. q * P < n /\ n <= (q + 1) * P
  BY <1>1, <1>2
<1>4. QED
  BY <1>1, <1>3 DEF LastOf

LEMMA FullUp ==
    ASSUME NEW c \in Nat, NEW P \in Nat, NEW n \in Nat
    PROVE  Full(c, 2 * P, n) <=> Full(2 * c + 1, P, n)
<1>1. 2 * c + 1 \in Nat
  OBVIOUS
<1>2. PICK X \in Nat : Spans(c, P, X)
  BY Multiples
<1>3. QED
  BY <1>1, <1>2, Zenon DEF Full, Spans

\* A further leaf.
LEMMA LastNext ==
    ASSUME NEW q, NEW P \in Nat, P > 0, NEW n \in Nat, LastOf(q, P, n)
    PROVE  LastOf(IF Full(q, P, n) THEN q + 1 ELSE q, P, n + 1)
<1>1. q \in Nat /\ q * P < n /\ n <= (q + 1) * P
  BY DEF LastOf
<1>2. (q + 1) * P = q * P + P /\ (q + 1 + 1) * P = q * P + 2 * P /\ q * P \in Nat
  BY <1>1
<1>3. CASE Full(q, P, n)
  <2>1. (q + 1) * P < n + 1 /\ n + 1 <= (q + 1 + 1) * P
    BY <1>2, <1>3 DEF Full
  <2>2. QED
    BY <1>1, <1>3, <2>1 DEF LastOf
<1>4. CASE ~Full(q, P, n)
  <2>1. (q + 1) * P # n
    BY <1>1, <1>4 DEF Full
  <2>2. q * P < n + 1 /\ n + 1 <= (q + 1) * P
    BY <1>1, <1>2, <2>1
  <2>3. QED
    BY <1>1, <1>4, <2>2 DEF LastOf
<1>5. QED
  BY <1>3, <1>4

\* Two ledgers have the same first k leaves.
Agree(a, b, k) ==
    /\ Len(a) \in Nat /\ Len(b) \in Nat /\ k \in Nat /\ k <= Len(a) /\ k <= Len(b)
    /\ \A i \in Nat : i < k => a[i + 1] = b[i + 1]

\* The slices that two ledgers share at the start have the same roots.
LEMMA PrefixRoots ==
    ASSUME NEW a, NEW b, NEW k, Agree(a, b, k),
           NEW len \in Nat, NEW s \in Nat, len >= 1, s + len <= k
    PROVE  SliceRoots(a)[len][s] = SliceRoots(b)[len][s]
<1>1. Len(a) \in Nat /\ Len(b) \in Nat /\ s + len <= Len(a) /\ s + len <= Len(b)
  BY DEF Agree
<1>2. SameLeaves(a, s, b, s, len)
  <2> SUFFICES ASSUME NEW x \in Nat, x < len PROVE a[s + x + 1] = b[s + x + 1]
    BY DEF SameLeaves
  <2>1. s + x \in Nat /\ s + x < k
    BY DEF Agree
  <2>2. QED
    BY <2>1 DEF Agree
<1>3. QED
  BY <1>1, <1>2, RootsLocal

\* The first leaf and the end of a node.
Bounds(i, P, s, e) == s \in Nat /\ e \in Nat /\ s = i * P /\ e = (i + 1) * P /\ e = s + P

LEMMA BoundsExist ==
    ASSUME NEW i \in Nat, NEW P \in Nat
    PROVE  \E s, e \in Nat : Bounds(i, P, s, e)
<1>1. i * P \in Nat /\ (i + 1) * P \in Nat /\ (i + 1) * P = i * P + P
  OBVIOUS
<1>2. QED
  BY <1>1, Zenon DEF Bounds

\* A complete node is the root of P leaves.
LEMMA NodeComplete ==
    ASSUME NEW h, NEW P, NEW i, NEW s, NEW e, Bounds(i, P, s, e), e <= Len(h)
    PROVE  NodeAt(h, P, i) = SliceRoots(h)[P][s]
BY Zenon DEF NodeAt, Bounds

\* A complete node of a ledger is one of every longer ledger.
LEMMA NodeShared ==
    ASSUME NEW a, NEW b, NEW k, Agree(a, b, k),
           NEW P \in Nat, P > 0, NEW i \in Nat, NEW s, NEW e, Bounds(i, P, s, e), e <= k
    PROVE  NodeAt(a, P, i) = NodeAt(b, P, i)
<1>1. s \in Nat /\ e \in Nat /\ e = s + P
  BY DEF Bounds
<1>2. e <= Len(a) /\ e <= Len(b)
  BY <1>1 DEF Agree
<1>3. NodeAt(a, P, i) = SliceRoots(a)[P][s] /\ NodeAt(b, P, i) = SliceRoots(b)[P][s]
  BY <1>2, NodeComplete
<1>4. P >= 1 /\ s + P <= k
  BY <1>1 DEF Agree
<1>5. SliceRoots(a)[P][s] = SliceRoots(b)[P][s]
  BY <1>1, <1>4, PrefixRoots
<1>6. QED
  BY <1>3, <1>5

-----------------------------------------------------------------------------
(***************************************************************************)
(* push keeps the rows in step with the ledger.                            *)
(***************************************************************************)

CarryBody(lv, x, f, l) == IF l = 0 THEN x ELSE NodeHash(lv[l][Len(lv[l])], f[l - 1])

LEMMA CarriesExist ==
    ASSUME NEW lv, NEW x
    PROVE  \A n \in Nat : \E f : f = [l \in 0..n |-> CarryBody(lv, x, f, l)]
<1> DEFINE T == {n \in Nat : \E f : f = [l \in 0..n |-> CarryBody(lv, x, f, l)]}
<1>1. 0 \in T
  <2> DEFINE e == [l \in 0..0 |-> x]
  <2>1. e = [l \in 0..0 |-> CarryBody(lv, x, e, l)]
    BY DEF CarryBody
  <2>2. QED
    BY <2>1
<1>2. ASSUME NEW n \in Nat, n \in T PROVE n + 1 \in T
  <2>1. PICK f : f = [l \in 0..n |-> CarryBody(lv, x, f, l)]
    BY <1>2
  <2> DEFINE g == [l \in 0..(n + 1) |-> CarryBody(lv, x, f, l)]
  <2>2. \A l \in 0..n : f[l] = g[l]
    <3> SUFFICES ASSUME NEW l \in 0..n PROVE f[l] = g[l]
      OBVIOUS
    <3>1. f[l] = CarryBody(lv, x, f, l)
      BY <2>1, Zenon
    <3>2. QED
      BY <3>1
  <2> HIDE DEF g
  <2>3. ASSUME NEW l \in 0..(n + 1) PROVE CarryBody(lv, x, f, l) = CarryBody(lv, x, g, l)
    <3>1. l # 0 => f[l - 1] = g[l - 1]
      BY <2>2
    <3>2. QED
      BY <3>1, Zenon DEF CarryBody
  <2>4. g = [l \in 0..(n + 1) |-> CarryBody(lv, x, g, l)]
    BY <2>3, Zenon DEF g
  <2>5. n + 1 \in Nat
    OBVIOUS
  <2>6. QED
    BY <2>4, <2>5, Zenon
<1> HIDE DEF T
<1>3. \A n \in Nat : n \in T
  BY <1>1, <1>2, Induction
<1>4. QED
  BY <1>3 DEF T

LEMMA CarriesDef ==
    ASSUME NEW lv, NEW x, Len(lv) \in Nat, NEW l \in 0..Len(lv)
    PROVE  Carries(lv, x)[l] = IF l = 0 THEN x
                               ELSE NodeHash(lv[l][Len(lv[l])], Carries(lv, x)[l - 1])
<1> DEFINE C == Carries(lv, x)
<1>1. C = CHOOSE f : f = [i \in 0..Len(lv) |-> CarryBody(lv, x, f, i)]
  BY Zenon DEF Carries, CarryBody
<1>2. C = [i \in 0..Len(lv) |-> CarryBody(lv, x, C, i)]
  BY <1>1, CarriesExist, Zenon
<1> HIDE DEF C
<1>3. C[l] = CarryBody(lv, x, C, l)
  BY <1>2, Zenon
<1>4. QED
  BY <1>3, Zenon DEF CarryBody, C

LEMMA RowFacts ==
    ASSUME NEW lv, NEW h, NEW n \in Nat, Len(h) = n, Len(lv) \in Nat, RowsOf(lv, h),
           NEW j \in Nat, j < Len(lv), NEW P \in Nat, Pow2[j] = P
    PROVE  /\ LastOf(Len(lv[j + 1]), P, n + 1)
           /\ \A i \in 1..Len(lv[j + 1]) : lv[j + 1][i] = NodeAt(h, P, i - 1)
<1>1. j + 1 \in 1..Len(lv) /\ (j + 1) - 1 = j
  OBVIOUS
<1>2. QED
  BY <1>1, Zenon DEF RowsOf

\* The loop of push reaches row j exactly when the new leaf completes a node
\* of its width, and that node is what it carries.
CarryIs(lv, h, x, n, j) ==
    /\ Reached(lv, j + 1) <=> \E q : Full(q, Pow2[j], n + 1)
    /\ \A q : Full(q, Pow2[j], n + 1) => Carries(lv, x)[j] = NodeAt(Append(h, x), Pow2[j], q)

LEMMA Carried ==
    ASSUME NEW S, NEW h \in Seq(S), NEW x \in S, NEW n \in Nat, Len(h) = n,
           NEW lv, Len(lv) \in Nat, RowsOf(lv, h)
    PROVE  \A j \in Nat : j <= Len(lv) => CarryIs(lv, h, x, n, j)
<1> DEFINE N == n + 1
           g == Append(h, x)
           C == Carries(lv, x)
           T == {j \in Nat : j <= Len(lv) =>
                    /\ Reached(lv, j + 1) <=> \E q : Full(q, Pow2[j], N)
                    /\ \A q : Full(q, Pow2[j], N) => C[j] = NodeAt(g, Pow2[j], q)}
<1>1. N \in Nat /\ Len(g) = N /\ g[N] = x /\ Agree(h, g, n)
  BY DEF Agree
<1>2. C[0] = x /\ \A j \in Nat : j < Len(lv) => C[j + 1] = NodeHash(lv[j + 1][Len(lv[j + 1])], C[j])
  <2>1. C[0] = x
    <3>1. 0 \in 0..Len(lv)
      OBVIOUS
    <3>2. QED
      BY <3>1, CarriesDef, Zenon
  <2>2. ASSUME NEW j \in Nat, j < Len(lv)
        PROVE  C[j + 1] = NodeHash(lv[j + 1][Len(lv[j + 1])], C[j])
    <3>1. j + 1 \in 0..Len(lv) /\ j + 1 # 0 /\ (j + 1) - 1 = j
      BY <2>2
    <3>2. QED
      BY <3>1, CarriesDef
  <2>3. QED
    BY <2>1, <2>2
<1> HIDE DEF N, g, C
<1>3. 0 \in T
  <2>1. Reached(lv, 1)
    BY DEF Reached
  <2>2. Full(n, 1, N) /\ \A q : Full(q, 1, N) => q = n
    BY DEF Full, N
  <2>3. NodeAt(g, 1, n) = x
    <3>1. NodeAt(g, 1, n) = SliceRoots(g)[1][n]
      BY <1>1 DEF NodeAt, N
    <3>2. SliceRoots(g)[1][n] = g[n + 1]
      <4>1. Len(g) \in Nat /\ 1 \in Nat /\ 1 >= 1 /\ n + 1 <= Len(g)
        BY <1>1 DEF N
      <4>2. 1 = 1 => SliceRoots(g)[1][n] = g[n + 1]
        BY <4>1, SliceRootsDef, Zenon
      <4>3. QED
        BY <4>2
    <3>3. QED
      BY <1>1, <3>1, <3>2 DEF N
  <2>4. 0 + 1 = 1 /\ Pow2[0] = 1
    BY Pow2Zero
  <2>5. QED
    BY <1>2, <2>1, <2>2, <2>3, <2>4, Zenon
<1>4. ASSUME NEW j \in Nat, j \in T PROVE j + 1 \in T
  <2> SUFFICES ASSUME j + 1 <= Len(lv)
               PROVE  /\ Reached(lv, (j + 1) + 1) <=> \E q : Full(q, Pow2[j + 1], N)
                      /\ \A q : Full(q, Pow2[j + 1], N) => C[j + 1] = NodeAt(g, Pow2[j + 1], q)
    OBVIOUS
  <2>1. PICK P \in Nat : P = Pow2[j] /\ P > 0 /\ Pow2[j + 1] = 2 * P
    BY Pow2Facts, Pow2Positive
  <2> DEFINE row == lv[j + 1]
  <2>2. /\ LastOf(Len(row), P, N)
        /\ \A i \in 1..Len(row) : row[i] = NodeAt(h, P, i - 1)
    BY <2>1, RowFacts DEF N
  <2>3. Reached(lv, (j + 1) + 1) <=> Reached(lv, j + 1) /\ Len(row) % 2 = 1
    <3>1. \A m : m \in 1..((j + 1) + 1 - 1) <=> m \in 1..((j + 1) - 1) \/ m = j + 1
      OBVIOUS
    <3>2. Reached(lv, (j + 1) + 1) <=> \A m \in 1..((j + 1) + 1 - 1) : Len(lv[m]) % 2 = 1
      BY DEF Reached
    <3>3. Reached(lv, j + 1) <=> \A m \in 1..((j + 1) - 1) : Len(lv[m]) % 2 = 1
      BY Zenon DEF Reached
    <3>4. QED
      BY <3>1, <3>2, <3>3, Zenon DEF row
  <2>4. /\ Reached(lv, j + 1) <=> \E q : Full(q, P, N)
        /\ \A q : Full(q, P, N) => C[j] = NodeAt(g, P, q)
    BY <1>4, <2>1
  <2>5. \A q : Full(q, P, N) => q = Len(row)
    BY <1>1, <2>1, <2>2, FullLast, LastUnique
  <2>6. C[j + 1] = NodeHash(row[Len(row)], C[j])
    BY <1>2
  <2> HIDE DEF row, T
  <2>7. ASSUME Reached(lv, (j + 1) + 1) PROVE \E q : Full(q, 2 * P, N)
    <3>1. PICK q : Full(q, P, N)
      BY <2>3, <2>4, <2>7
    <3>2. q = Len(row) /\ q \in Nat
      BY <2>5, <3>1 DEF Full
    <3>3. q \div 2 \in Nat /\ q = 2 * (q \div 2) + 1
      BY <2>3, <2>7, <3>2, Halves
    <3>4. Full(q \div 2, 2 * P, N)
      BY <1>1, <3>1, <3>3, FullUp
    <3>5. QED
      BY <3>4
  <2>8. ASSUME NEW c, Full(c, 2 * P, N)
        PROVE  Reached(lv, (j + 1) + 1) /\ C[j + 1] = NodeAt(g, 2 * P, c)
    <3>1. c \in Nat
      BY <2>8 DEF Full
    <3>2. Full(2 * c + 1, P, N)
      BY <1>1, <2>8, <3>1, FullUp
    <3>3. Len(row) = 2 * c + 1
      BY <2>5, <3>2
    <3>4. Len(row) % 2 = 1
      BY <3>1, <3>3
    <3>5. C[j] = NodeAt(g, P, 2 * c + 1)
      BY <2>4, <3>2
    <3>6. row[Len(row)] = NodeAt(h, P, 2 * c)
      <4>1. Len(row) \in 1..Len(row) /\ Len(row) - 1 = 2 * c
        BY <3>1, <3>3
      <4>2. QED
        BY <2>2, <4>1
    <3>7. PICK X \in Nat : Spans(c, P, X)
      BY <3>1, Multiples
    <3>8. 2 * X + 2 * P = N
      BY <3>2, <3>7, Zenon DEF Full, Spans
    <3>9. 2 * X + P < N /\ 2 * X + P <= n
      BY <2>1, <3>8 DEF N
    <3>10. NodeAt(g, 2 * P, c) = NodeHash(NodeAt(g, P, 2 * c), NodeAt(g, P, 2 * c + 1))
      BY <1>1, <2>1, <3>1, <3>7, <3>9, NodeSplit
    <3>11. NodeAt(h, P, 2 * c) = NodeAt(g, P, 2 * c)
      <4>1. 2 * c \in Nat
        BY <3>1
      <4>2. PICK s, e \in Nat : Bounds(2 * c, P, s, e)
        BY <4>1, BoundsExist
      <4>3. e = 2 * X + P
        BY <3>7, <4>2, Zenon DEF Spans, Bounds
      <4>4. e <= n
        BY <3>9, <4>3
      <4>5. QED
        BY <1>1, <2>1, <4>1, <4>2, <4>4, NodeShared
    <3>12. QED
      BY <2>3, <2>4, <2>6, <3>2, <3>4, <3>5, <3>6, <3>10, <3>11
  <2>9. QED
    BY <2>1, <2>7, <2>8
<1> HIDE DEF T
<1>5. \A j \in Nat : j \in T
  BY <1>3, <1>4, Induction
<1>6. QED
  BY <1>5, Zenon DEF T, N, g, C, CarryIs

\* The nodes before the last one are complete.
LEMMA BeforeLast ==
    ASSUME NEW last, NEW P \in Nat, NEW n \in Nat, LastOf(last, P, n),
           NEW i \in Nat, i < last, NEW s, NEW e, Bounds(i, P, s, e)
    PROVE  e < n
<1>1. last \in Nat /\ last * P < n
  BY DEF LastOf
<1>2. PICK d \in Nat : last = i + 1 + d
  <2>1. last - i - 1 \in Nat /\ last = i + 1 + (last - i - 1)
    BY <1>1
  <2>2. QED
    BY <2>1
<1>3. last * P = (i + 1) * P + d * P /\ d * P \in Nat
  BY <1>2
<1>4. e \in Nat /\ e = (i + 1) * P
  BY DEF Bounds
<1>5. PICK y, z \in Nat : y = last * P /\ z = d * P
  BY <1>1, <1>3
<1>6. y = e + z /\ y < n
  BY <1>1, <1>3, <1>4, <1>5, Zenon
<1>7. QED
  BY <1>4, <1>6

\* What a row holds it holds for the longer ledger too.
LEMMA RowShared ==
    ASSUME NEW lv, NEW h, NEW g, NEW n \in Nat, Len(h) = n, Agree(h, g, n),
           Len(lv) \in Nat, RowsOf(lv, h),
           NEW j \in Nat, j < Len(lv), NEW P \in Nat, Pow2[j] = P
    PROVE  \A i \in 1..Len(lv[j + 1]) : lv[j + 1][i] = NodeAt(g, P, i - 1)
<1> SUFFICES ASSUME NEW i \in 1..Len(lv[j + 1])
             PROVE  lv[j + 1][i] = NodeAt(g, P, i - 1)
  OBVIOUS
<1>1. /\ LastOf(Len(lv[j + 1]), P, n + 1)
      /\ lv[j + 1][i] = NodeAt(h, P, i - 1)
  BY RowFacts
<1>2. Len(lv[j + 1]) \in Nat /\ i - 1 \in Nat /\ i - 1 < Len(lv[j + 1]) /\ P > 0
  BY <1>1, Pow2Positive DEF LastOf
<1>3. PICK s, e \in Nat : Bounds(i - 1, P, s, e)
  BY <1>2, BoundsExist
<1>4. e < n + 1
  BY <1>1, <1>2, <1>3, BeforeLast
<1>5. e <= n
  BY <1>4
<1>6. NodeAt(h, P, i - 1) = NodeAt(g, P, i - 1)
  BY <1>2, <1>3, <1>5, NodeShared
<1>7. QED
  BY <1>1, <1>6

LEMMA PushedRows ==
    ASSUME NEW S, NEW h \in Seq(S), NEW x \in S, NEW n \in Nat, Len(h) = n,
           NEW U, NEW lv \in Seq(Seq(U)), RowsOf(lv, h)
    PROVE  /\ RowsOf(Pushed(lv, x), Append(h, x))
           /\ \E V : Pushed(lv, x) \in Seq(Seq(V))
<1> DEFINE N == n + 1
           g == Append(h, x)
           C == Carries(lv, x)
           D == Pushed(lv, x)
           L == Len(lv)
           rows == IF Reached(lv, L + 1) THEN L + 1 ELSE L
           V == U \cup {C[j] : j \in 0..L}
<1>1. N \in Nat /\ Len(g) = N /\ Agree(h, g, n) /\ L \in Nat
  BY DEF Agree
<1>2. \A j \in Nat : j <= L =>
        /\ Reached(lv, j + 1) <=> \E q : Full(q, Pow2[j], N)
        /\ \A q : Full(q, Pow2[j], N) => C[j] = NodeAt(g, Pow2[j], q)
  <2>1. Len(lv) \in Nat
    OBVIOUS
  <2>2. \A j \in Nat : j <= Len(lv) => CarryIs(lv, h, x, n, j)
    BY <2>1, Carried
  <2>3. QED
    BY <2>2, Zenon DEF CarryIs
<1>3. D = [l \in 1..rows |-> IF l > L THEN <<C[l - 1]>>
                             ELSE IF Reached(lv, l) THEN Append(lv[l], C[l - 1])
                             ELSE lv[l]]
  BY DEF Pushed
<1>4. rows \in Nat /\ L <= rows /\ rows <= L + 1 /\ (rows = L + 1 <=> Reached(lv, L + 1))
  BY <1>1
<1>5. U \subseteq V /\ \A j \in 0..L : C[j] \in V
  OBVIOUS
<1> HIDE DEF N, g, C, D, rows, V
<1>6. D \in Seq(Seq(V)) /\ Len(D) = rows
  <2>1. ASSUME NEW l \in 1..rows PROVE D[l] \in Seq(V)
    <3>1. CASE l > L
      <4>1. l - 1 \in 0..L
        BY <1>1, <1>4
      <4>2. D[l] = <<C[l - 1]>>
        BY <1>3, <3>1
      <4>3. QED
        BY <1>5, <4>1, <4>2
    <3>2. CASE ~(l > L)
      <4>1. l - 1 \in 0..L /\ l \in 1..L
        BY <1>1, <1>4, <3>2
      <4>2. lv[l] \in Seq(V) /\ C[l - 1] \in V
        BY <1>5, <4>1
      <4>3. D[l] = Append(lv[l], C[l - 1]) \/ D[l] = lv[l]
        BY <1>3, <3>2
      <4>4. Append(lv[l], C[l - 1]) \in Seq(V)
        BY <4>2
      <4>5. QED
        BY <4>2, <4>3, <4>4, Zenon
    <3>3. QED
      BY <3>1, <3>2
  <2>2. QED
    BY <1>3, <1>4, <2>1
<1>7. ASSUME NEW j \in Nat, j < rows
      PROVE  /\ LastOf(Len(D[j + 1]), Pow2[j], N + 1)
             /\ \A i \in 1..Len(D[j + 1]) : D[j + 1][i] = NodeAt(g, Pow2[j], i - 1)
  <2>1. PICK P \in Nat : P = Pow2[j] /\ P > 0
    BY Pow2Positive
  <2>2. j <= L /\ j + 1 \in 1..rows /\ (j + 1) - 1 = j
    BY <1>1, <1>4, <1>7
  <2>3. /\ Reached(lv, j + 1) <=> \E q : Full(q, P, N)
        /\ \A q : Full(q, P, N) => C[j] = NodeAt(g, P, q)
    BY <1>2, <2>1, <2>2
  <2>4. CASE j = L
    <3>1. D[j + 1] = <<C[j]>>
      BY <1>1, <1>3, <2>2, <2>4
    <3>2. PICK q : Full(q, P, N)
      BY <1>1, <1>4, <1>7, <2>3, <2>4
    <3>3. n < P
      BY <2>1, <2>4 DEF RowsOf
    <3>4. q = 0
      <4>1. LastOf(q, P, N)
        BY <1>1, <2>1, <3>2, FullLast
      <4>2. LastOf(0, P, N)
        BY <3>3 DEF LastOf, N
      <4>3. QED
        BY <1>1, <4>1, <4>2, LastUnique
    <3>5. LastOf(1, P, N + 1)
      <4>1. LastOf(0, P, N) /\ Full(0, P, N)
        BY <1>1, <2>1, <3>2, <3>4, FullLast
      <4>2. LastOf(IF Full(0, P, N) THEN 0 + 1 ELSE 0, P, N + 1)
        BY <1>1, <2>1, <4>1, LastNext
      <4>3. QED
        BY <4>1, <4>2
    <3>6. C[j] = NodeAt(g, P, 0)
      BY <2>3, <3>2, <3>4
    <3>7. QED
      BY <2>1, <3>1, <3>5, <3>6
  <2>5. CASE j < L
    <3> DEFINE row == lv[j + 1]
    <3>1. row \in Seq(U) /\ LastOf(Len(row), P, N)
      BY <1>1, <2>1, <2>5, RowFacts DEF N
    <3>2. \A i \in 1..Len(row) : row[i] = NodeAt(g, P, i - 1)
      BY <1>1, <2>1, <2>5, RowShared
    <3>3. D[j + 1] = IF Reached(lv, j + 1) THEN Append(row, C[j]) ELSE row
      BY <1>1, <1>3, <2>2, <2>5
    <3>4. LastOf(IF Full(Len(row), P, N) THEN Len(row) + 1 ELSE Len(row), P, N + 1)
      BY <1>1, <2>1, <3>1, LastNext
    <3>5. \A q : Full(q, P, N) => q = Len(row)
      BY <1>1, <2>1, <3>1, FullLast, LastUnique
    <3> HIDE DEF row
    <3>6. CASE Reached(lv, j + 1)
      <4>1. Full(Len(row), P, N) /\ C[j] = NodeAt(g, P, Len(row))
        BY <2>3, <3>5, <3>6
      <4>2. Len(D[j + 1]) = Len(row) + 1 /\ LastOf(Len(row) + 1, P, N + 1)
        BY <3>1, <3>3, <3>4, <3>6, <4>1
      <4>3. ASSUME NEW i \in 1..(Len(row) + 1)
            PROVE  D[j + 1][i] = NodeAt(g, P, i - 1)
        <5>1. D[j + 1] = Append(row, C[j])
          BY <3>3, <3>6
        <5>2. CASE i \in 1..Len(row)
          BY <3>1, <3>2, <5>1, <5>2
        <5>3. CASE i = Len(row) + 1
          <6>1. D[j + 1][i] = C[j] /\ i - 1 = Len(row)
            BY <3>1, <5>1, <5>3
          <6>2. QED
            BY <4>1, <6>1
        <5>4. QED
          BY <3>1, <5>2, <5>3
      <4>4. QED
        BY <2>1, <4>2, <4>3
    <3>7. CASE ~Reached(lv, j + 1)
      BY <2>1, <2>3, <3>2, <3>3, <3>4, <3>7
    <3>8. QED
      BY <3>6, <3>7
  <2>6. QED
    BY <1>1, <2>2, <2>4, <2>5
<1>8. N < Pow2[rows]
  <2>1. PICK P \in Nat : P = Pow2[L] /\ P > 0 /\ Pow2[L + 1] = 2 * P
    BY <1>1, Pow2Facts, Pow2Positive
  <2>2. n < P
    BY <2>1 DEF RowsOf
  <2>3. CASE Reached(lv, L + 1)
    BY <1>1, <1>4, <2>1, <2>2, <2>3 DEF N
  <2>4. CASE ~Reached(lv, L + 1)
    <3>1. ~Full(0, P, N)
      <4>1. L \in Nat /\ L <= L
        BY <1>1
      <4>2. QED
        BY <1>2, <2>1, <2>4, <4>1, Zenon
    <3>2. N # P
      BY <2>1, <3>1 DEF Full
    <3>3. rows = L
      BY <1>1, <1>4, <2>4
    <3>4. QED
      BY <2>1, <2>2, <3>2, <3>3 DEF N
  <2>5. QED
    BY <2>3, <2>4
<1>9. RowsOf(D, g)
  <2>1. ASSUME NEW l \in 1..Len(D)
        PROVE  /\ LastOf(Len(D[l]), Pow2[l - 1], Len(g) + 1)
               /\ \A i \in 1..Len(D[l]) : D[l][i] = NodeAt(g, Pow2[l - 1], i - 1)
    <3>1. l - 1 \in Nat /\ l - 1 < rows /\ (l - 1) + 1 = l
      BY <1>4, <1>6
    <3>2. QED
      BY <1>1, <1>7, <3>1
  <2>2. QED
    BY <1>1, <1>6, <1>8, <2>1 DEF RowsOf
<1>10. QED
  BY <1>6, <1>9 DEF D, g

LEMMA PushedTree ==
    ASSUME TreeInv, NEW U, levels \in Seq(Seq(U)), NEW p \in Payload, Push(p)
    PROVE  TreeInv' /\ \E V : levels' \in Seq(Seq(V))
<1> DEFINE x == LeafHash(p)
<1>1. ledger \in Seq(Hashes) /\ RowsOf(levels, ledger) /\ x \in Hashes
  BY DEF TreeInv, Hashes
<1>2. ledger' = Append(ledger, x) /\ levels' = Pushed(levels, x)
  BY DEF Push
<1> HIDE DEF x
<1>3. ledger' \in Seq(Hashes)
  BY <1>1, <1>2
<1>4. PICK n \in Nat : Len(ledger) = n
  BY <1>1
<1>5. RowsOf(Pushed(levels, x), Append(ledger, x)) /\ \E V : Pushed(levels, x) \in Seq(Seq(V))
  BY <1>1, <1>4, PushedRows
<1>6. QED
  BY <1>2, <1>3, <1>5 DEF TreeInv

\* The rows of the tree and the ledger agree in every reachable state.
THEOREM TreeInvariant == Spec => [](TreeInv /\ \E U : levels \in Seq(Seq(U)))
<1> DEFINE Inv == TreeInv /\ \E U : levels \in Seq(Seq(U))
<1>1. Init => Inv
  <2> SUFFICES ASSUME Init PROVE Inv
    OBVIOUS
  <2>1. ledger = <<>> /\ levels = <<>>
    BY DEF Init
  <2>2. Len(levels) = 0 /\ Len(ledger) = 0 /\ ledger \in Seq(Hashes) /\ levels \in Seq(Seq({}))
    BY <2>1
  <2>3. RowsOf(levels, ledger)
    BY <2>2, Pow2Zero DEF RowsOf
  <2>4. QED
    BY <2>2, <2>3 DEF TreeInv
<1>2. Inv /\ [Next]_vars => Inv'
  <2> SUFFICES ASSUME Inv, [Next]_vars PROVE Inv'
    OBVIOUS
  <2>1. ASSUME NEW p \in Payload, Push(p) PROVE Inv'
    BY <2>1, PushedTree
  <2>2. CASE UNCHANGED vars
    BY <2>2 DEF vars, TreeInv
  <2>3. QED
    BY <2>1, <2>2 DEF Next
<1>3. QED
  BY <1>1, <1>2, PTL DEF Spec

-----------------------------------------------------------------------------
(***************************************************************************)
(* subtree_root answers every range with the root of the slice.            *)
(***************************************************************************)

LEMMA Quotient ==
    ASSUME NEW a \in Nat, NEW b \in Nat, b > 0, a % b = 0
    PROVE  a \div b \in Nat /\ \E e \in Nat : Bounds(a \div b, b, a, e)
<1>1. a \div b \in Nat /\ a = (a \div b) * b
  OBVIOUS
<1>2. QED
  BY <1>1, BoundsExist DEF Bounds

SubtreeBody(lv, f, len) ==
    [start \in 0..(TreeSize(lv) - len) |->
        IF Aligned(start, len)
        THEN lv[TrailingZeros(len) + 1][start \div len + 1]
        ELSE LET k == LargestPowerOfTwo(len)
             IN  NodeHash(f[k][start], f[len - k][start + k])]

LEMMA OneAligned == \A start \in Nat : Aligned(start, 1)
<1>1. IsPowerOfTwo(1)
  BY Pow2Zero DEF IsPowerOfTwo
<1>2. QED
  BY <1>1 DEF Aligned

LEMMA SubtreeBodyLocal ==
    ASSUME NEW lv, NEW len \in Nat, len >= 1, NEW f, NEW g, TreeSize(lv) \in Nat,
           \A l \in Nat : 1 <= l /\ l < len => f[l] = g[l]
    PROVE  SubtreeBody(lv, f, len) = SubtreeBody(lv, g, len)
<1>1. CASE len = 1
  <2>1. \A start \in 0..(TreeSize(lv) - len) : Aligned(start, len)
    BY <1>1, OneAligned
  <2>2. QED
    BY <2>1, Zenon DEF SubtreeBody
<1>2. CASE len >= 2
  <2> DEFINE k == LargestPowerOfTwo(len)
  <2>1. k \in Nat /\ k >= 1 /\ k < len
    BY <1>2, SplitFacts
  <2> HIDE DEF k
  <2>2. f[k] = g[k] /\ f[len - k] = g[len - k]
    BY <2>1
  <2>3. QED
    BY <2>2, Zenon DEF SubtreeBody, k
<1>3. QED
  BY <1>1, <1>2

LEMMA SubtreeRootsExist ==
    ASSUME NEW lv, TreeSize(lv) \in Nat
    PROVE  \A n \in Nat : \E f : f = [len \in 1..n |-> SubtreeBody(lv, f, len)]
<1> DEFINE T == {n \in Nat : \E f : f = [len \in 1..n |-> SubtreeBody(lv, f, len)]}
<1>1. 0 \in T
  <2> DEFINE e == [len \in 1..0 |-> 0]
  <2>1. e = [len \in 1..0 |-> SubtreeBody(lv, e, len)]
    OBVIOUS
  <2>2. QED
    BY <2>1, Zenon
<1>2. ASSUME NEW n \in Nat, n \in T PROVE n + 1 \in T
  <2>1. PICK f : f = [len \in 1..n |-> SubtreeBody(lv, f, len)]
    BY <1>2
  <2> DEFINE g == [len \in 1..(n + 1) |-> SubtreeBody(lv, f, len)]
  <2>2. \A l \in Nat : 1 <= l /\ l < n + 1 => f[l] = g[l]
    <3>1. ASSUME NEW l \in 1..n PROVE f[l] = g[l]
      <4>1. f[l] = SubtreeBody(lv, f, l)
        BY <2>1, Zenon
      <4>2. QED
        BY <4>1
    <3> HIDE DEF g, T
    <3>2. QED
      BY <3>1
  <2> HIDE DEF g
  <2>3. ASSUME NEW len \in 1..(n + 1) PROVE SubtreeBody(lv, f, len) = SubtreeBody(lv, g, len)
    BY <2>2, SubtreeBodyLocal
  <2>4. g = [len \in 1..(n + 1) |-> SubtreeBody(lv, g, len)]
    BY <2>3, Zenon DEF g
  <2>5. n + 1 \in Nat
    OBVIOUS
  <2>6. QED
    BY <2>4, <2>5, Zenon
<1> HIDE DEF T
<1>3. \A n \in Nat : n \in T
  BY <1>1, <1>2, Induction
<1>4. QED
  BY <1>3 DEF T

\* The recursion of subtree_root.
LEMMA SubtreeRootsDef ==
    ASSUME NEW lv, TreeSize(lv) \in Nat,
           NEW len \in Nat, NEW start \in Nat, len >= 1, start + len <= TreeSize(lv)
    PROVE  /\ Aligned(start, len) =>
                SubtreeRoots(lv)[len][start] = lv[TrailingZeros(len) + 1][start \div len + 1]
           /\ ~Aligned(start, len) =>
                LET k == LargestPowerOfTwo(len)
                IN  SubtreeRoots(lv)[len][start] =
                      NodeHash(SubtreeRoots(lv)[k][start], SubtreeRoots(lv)[len - k][start + k])
<1> DEFINE R == SubtreeRoots(lv)
<1>1. R = CHOOSE f : f = [l \in 1..TreeSize(lv) |-> SubtreeBody(lv, f, l)]
  BY Zenon DEF SubtreeRoots, SubtreeBody
<1>2. R = [l \in 1..TreeSize(lv) |-> SubtreeBody(lv, R, l)]
  BY <1>1, SubtreeRootsExist, Zenon
<1> HIDE DEF R
<1>3. R[len] = SubtreeBody(lv, R, len)
  <2>1. len \in 1..TreeSize(lv)
    OBVIOUS
  <2>2. QED
    BY <1>2, <2>1, Zenon
<1>4. start \in 0..(TreeSize(lv) - len)
  OBVIOUS
<1>5. QED
  BY <1>3, <1>4, Zenon DEF SubtreeBody, R

\* HashTree::len is the size of the ledger.
LEMMA TreeSizeIs ==
    ASSUME NEW U, NEW lv \in Seq(Seq(U)), NEW h, NEW n \in Nat, Len(h) = n, RowsOf(lv, h)
    PROVE  TreeSize(lv) = n
<1>1. CASE lv = <<>>
  <2>1. n < 1
    BY <1>1, Pow2Zero DEF RowsOf
  <2>2. QED
    BY <1>1, <2>1 DEF TreeSize
<1>2. CASE lv # <<>>
  <2>1. Len(lv) \in Nat /\ 0 < Len(lv) /\ 0 + 1 = 1
    BY <1>2
  <2>2. LastOf(Len(lv[1]), 1, n + 1)
    BY <2>1, Pow2Zero, RowFacts
  <2>3. Len(lv[1]) = n
    BY <2>2 DEF LastOf
  <2>4. QED
    BY <1>2, <2>3 DEF TreeSize
<1>3. QED
  BY <1>1, <1>2

\* A complete node comes before the last node of the next size.
LEMMA CompleteBefore ==
    ASSUME NEW last, NEW P \in Nat, NEW n \in Nat, LastOf(last, P, n + 1),
           NEW i \in Nat, NEW s, NEW e, Bounds(i, P, s, e), e <= n
    PROVE  i < last
<1>1. last \in Nat /\ n + 1 <= (last + 1) * P
  BY DEF LastOf
<1>2. SUFFICES ASSUME last <= i PROVE FALSE
  BY <1>1
<1>3. PICK d \in Nat : i = last + d
  <2>1. i - last \in Nat /\ i = last + (i - last)
    BY <1>1, <1>2
  <2>2. QED
    BY <2>1
<1>4. (i + 1) * P = (last + 1) * P + d * P /\ d * P \in Nat /\ (last + 1) * P \in Nat
  BY <1>1, <1>3
<1>5. e \in Nat /\ e = (i + 1) * P
  BY DEF Bounds
<1>6. PICK y, z \in Nat : y = (last + 1) * P /\ z = d * P
  BY <1>4
<1>7. e = y + z /\ n + 1 <= y
  BY <1>1, <1>4, <1>5, <1>6, Zenon
<1>8. QED
  BY <1>5, <1>7

LEMMA SubtreeRootsAre ==
    ASSUME NEW U, NEW lv \in Seq(Seq(U)), NEW h, NEW n \in Nat, Len(h) = n, RowsOf(lv, h)
    PROVE  \A len, start \in Nat :
             len >= 1 /\ start + len <= n => SubtreeRoots(lv)[len][start] = SliceRoots(h)[len][start]
<1> DEFINE Sub == SubtreeRoots(lv)
           R == SliceRoots(h)
           T == {len \in Nat : \A start \in Nat :
                    len >= 1 /\ start + len <= n => Sub[len][start] = R[len][start]}
<1>1. TreeSize(lv) = n /\ Len(lv) \in Nat
  BY TreeSizeIs
<1>2. ASSUME NEW len \in Nat, \A m \in Nat : m < len => m \in T
      PROVE  len \in T
  <2> SUFFICES ASSUME NEW start \in Nat, len >= 1, start + len <= n
               PROVE  Sub[len][start] = R[len][start]
    OBVIOUS
  <2>1. CASE Aligned(start, len)
    <3> DEFINE j == TrailingZeros(len)
               i == start \div len
    <3>1. Sub[len][start] = lv[j + 1][i + 1]
      BY <1>1, <2>1, SubtreeRootsDef
    <3>2. j \in Nat /\ Pow2[j] = len
      <4>1. \E m \in 0..len : Pow2[m] = len
        BY <2>1 DEF Aligned, IsPowerOfTwo
      <4>2. j \in 0..len /\ Pow2[j] = len
        BY <4>1 DEF TrailingZeros
      <4>3. QED
        BY <4>2
    <3>3. i \in Nat /\ \E e \in Nat : Bounds(i, len, start, e)
      <4>1. start % len = 0 /\ len > 0
        BY <2>1 DEF Aligned
      <4>2. QED
        BY <4>1, Quotient, Zenon
    <3>4. PICK e \in Nat : Bounds(i, len, start, e)
      BY <3>3
    <3> HIDE DEF Sub, R, T, j, i
    <3>5. e <= n
      BY <3>4 DEF Bounds
    <3>6. j < Len(lv)
      <4>1. n < Pow2[Len(lv)] /\ Pow2[Len(lv)] \in Nat
        BY <1>1, Pow2Positive DEF RowsOf
      <4>2. Len(lv) < j => 2 * Pow2[Len(lv)] <= Pow2[j]
        BY <1>1, <3>2, Pow2Grows
      <4>3. Len(lv) # j
        BY <3>2, <4>1
      <4>4. QED
        BY <1>1, <3>2, <4>1, <4>2, <4>3
    <3>7. /\ LastOf(Len(lv[j + 1]), len, n + 1)
          /\ \A m \in 1..Len(lv[j + 1]) : lv[j + 1][m] = NodeAt(h, len, m - 1)
      BY <1>1, <3>2, <3>6, RowFacts
    <3>8. i < Len(lv[j + 1]) /\ Len(lv[j + 1]) \in Nat
      BY <3>3, <3>4, <3>5, <3>7, CompleteBefore DEF LastOf
    <3>9. lv[j + 1][i + 1] = NodeAt(h, len, i)
      <4>1. i + 1 \in 1..Len(lv[j + 1]) /\ (i + 1) - 1 = i
        BY <3>3, <3>8
      <4>2. QED
        BY <3>7, <4>1
    <3>10. NodeAt(h, len, i) = R[len][start]
      BY <3>4, <3>5, NodeComplete DEF R
    <3>11. QED
      BY <3>1, <3>9, <3>10
  <2>2. CASE ~Aligned(start, len)
    <3> DEFINE k == LargestPowerOfTwo(len)
    <3>1. len >= 2
      BY <2>2, OneAligned
    <3>2. k \in Nat /\ k >= 1 /\ k < len
      BY <3>1, SplitFacts
    <3>3. Sub[len][start] = NodeHash(Sub[k][start], Sub[len - k][start + k])
      BY <1>1, <2>2, SubtreeRootsDef
    <3>4. R[len][start] = NodeHash(R[k][start], R[len - k][start + k])
      <4>1. start + len <= Len(h) /\ Len(h) \in Nat
        OBVIOUS
      <4>2. QED
        BY <3>1, <4>1, SliceRootsDef
    <3> HIDE DEF Sub, R, T, k
    <3>5. Sub[k][start] = R[k][start]
      <4>1. k \in T /\ start + k <= n
        BY <1>2, <3>2
      <4>2. QED
        BY <3>2, <4>1 DEF T
    <3>6. Sub[len - k][start + k] = R[len - k][start + k]
      <4>1. /\ len - k \in Nat /\ len - k < len /\ len - k >= 1 /\ start + k \in Nat
            /\ start + k + (len - k) <= n
        BY <3>2
      <4>2. len - k \in T
        BY <1>2, <4>1
      <4>3. QED
        BY <4>1, <4>2 DEF T
    <3>7. QED
      BY <3>3, <3>4, <3>5, <3>6
  <2>3. QED
    BY <2>1, <2>2
<1> HIDE DEF T
<1>3. \A len \in Nat : len \in T
  BY <1>2, StrongInduction
<1>4. QED
  BY <1>3 DEF T

\* A slice hashed on its own has the root it has within the ledger.
LEMMA RootOfSlice ==
    ASSUME NEW S, NEW h \in Seq(S), NEW start \in Nat, NEW len \in Nat,
           len >= 1, start + len <= Len(h)
    PROVE  RootOfHashes(SubSeq(h, start + 1, start + len)) = SliceRoots(h)[len][start]
<1> DEFINE b == SubSeq(h, start + 1, start + len)
<1>1. Len(b) = len /\ Len(h) \in Nat
  OBVIOUS
<1>2. \A i \in Nat : i < len => b[i + 1] = h[start + i + 1]
  OBVIOUS
<1>3. SameLeaves(b, 0, h, start, len)
  <2> SUFFICES ASSUME NEW i \in Nat, i < len PROVE b[0 + i + 1] = h[start + i + 1]
    BY DEF SameLeaves
  <2>1. 0 + i + 1 = i + 1
    OBVIOUS
  <2>2. QED
    BY <1>2, <2>1
<1> HIDE DEF b
<1>4. Len(b) \in Nat /\ 0 + len <= Len(b)
  BY <1>1
<1>5. SliceRoots(b)[len][0] = SliceRoots(h)[len][start]
  BY <1>1, <1>3, <1>4, RootsLocal
<1>6. QED
  BY <1>1, <1>5 DEF RootOfHashes, b

\* The incremental tree of the log gives every range the root that hashing
\* its leaves from scratch gives, however the ledger grew.
THEOREM HashTreeCorrect == Spec => []HashTreeMatchesSlices
<1>1. TreeInv /\ (\E U : levels \in Seq(Seq(U))) => HashTreeMatchesSlices
  <2> SUFFICES ASSUME TreeInv, NEW U, levels \in Seq(Seq(U)),
                      NEW start \in 0..(Size - 1), NEW len \in 1..(Size - start)
               PROVE  SubtreeRoots(levels)[len][start] =
                        RootOfHashes(SubSeq(ledger, start + 1, start + len))
    BY DEF HashTreeMatchesSlices
  <2>1. ledger \in Seq(Hashes) /\ RowsOf(levels, ledger)
    BY DEF TreeInv
  <2>2. PICK n \in Nat : Len(ledger) = n
    BY <2>1
  <2>3. start \in Nat /\ len \in Nat /\ len >= 1 /\ start + len <= n
    BY <2>2 DEF Size
  <2>4. SubtreeRoots(levels)[len][start] = SliceRoots(ledger)[len][start]
    BY <2>1, <2>2, <2>3, SubtreeRootsAre
  <2>5. RootOfHashes(SubSeq(ledger, start + 1, start + len)) = SliceRoots(ledger)[len][start]
    BY <2>1, <2>2, <2>3, RootOfSlice
  <2>6. QED
    BY <2>4, <2>5
<1>2. QED
  BY <1>1, TreeInvariant, PTL
-----------------------------------------------------------------------------
(***************************************************************************)
(* The verifiers climb row by row.                                         *)
(***************************************************************************)

\* subtree_root and root_of_hashes are one function of ranges.
LEMMA OneSourceOfRoots ==
    ASSUME NEW U, NEW lv \in Seq(Seq(U)), NEW h, NEW n \in Nat, Len(h) = n, RowsOf(lv, h)
    PROVE  SubtreeRoots(lv) = SliceRoots(h)
<1> DEFINE Sub == SubtreeRoots(lv)
           R == SliceRoots(h)
<1>1. TreeSize(lv) = n
  BY TreeSizeIs
<1>2. Sub = [l \in 1..n |-> SubtreeBody(lv, Sub, l)]
  <2>1. Sub = CHOOSE f : f = [l \in 1..n |-> SubtreeBody(lv, f, l)]
    BY <1>1, Zenon DEF SubtreeRoots, SubtreeBody
  <2>2. QED
    BY <1>1, <2>1, SubtreeRootsExist, Zenon
<1>3. R = [l \in 1..n |-> RootBody(h, R, l)]
  <2>1. R = CHOOSE f : f = [l \in 1..n |-> RootBody(h, f, l)]
    BY Zenon DEF SliceRoots, RootBody
  <2>2. QED
    BY <2>1, SliceRootsExist, Zenon
<1>4. \A len, start \in Nat : len >= 1 /\ start + len <= n => Sub[len][start] = R[len][start]
  BY SubtreeRootsAre
<1> HIDE DEF Sub, R
<1>5. ASSUME NEW len \in 1..n PROVE SubtreeBody(lv, Sub, len) = RootBody(h, R, len)
  <2>1. Sub[len] = SubtreeBody(lv, Sub, len)
    BY <1>2, Zenon
  <2>2. R[len] = RootBody(h, R, len)
    BY <1>3, Zenon
  <2>3. ASSUME NEW start \in 0..(n - len)
        PROVE  SubtreeBody(lv, Sub, len)[start] = RootBody(h, R, len)[start]
    BY <1>4, <2>1, <2>2
  <2>4. SubtreeBody(lv, Sub, len) = [start \in 0..(n - len) |-> SubtreeBody(lv, Sub, len)[start]]
    BY <1>1 DEF SubtreeBody
  <2>5. RootBody(h, R, len) = [start \in 0..(n - len) |-> RootBody(h, R, len)[start]]
    BY DEF RootBody
  <2>6. QED
    BY <2>3, <2>4, <2>5
<1>6. Sub = R
  <2>1. [l \in 1..n |-> SubtreeBody(lv, Sub, l)] = [l \in 1..n |-> RootBody(h, R, l)]
    BY <1>5
  <2>2. QED
    BY <1>2, <1>3, <2>1, Zenon
<1>7. QED
  BY <1>6 DEF Sub, R

\* "The proof produced is byte-identical to build_consistency_proof over the
\* same leaves" (merkle.rs:383): whatever the sizes, the proof read from the
\* cached tree is the proof computed from the leaves.
THEOREM TreeProofsAreSliceProofs ==
    Spec => [](\A from, to : TreeProof(levels, from, to) = SliceProof(ledger, from, to))
<1>1. TreeInv /\ (\E U : levels \in Seq(Seq(U)))
        => \A from, to : TreeProof(levels, from, to) = SliceProof(ledger, from, to)
  <2> SUFFICES ASSUME TreeInv, NEW U, levels \in Seq(Seq(U)), NEW from, NEW to
               PROVE  TreeProof(levels, from, to) = SliceProof(ledger, from, to)
    OBVIOUS
  <2>1. RowsOf(levels, ledger) /\ Len(ledger) \in Nat
    BY DEF TreeInv
  <2>2. SubtreeRoots(levels) = SliceRoots(ledger)
    BY <2>1, OneSourceOfRoots
  <2>3. QED
    BY <2>2, Zenon DEF TreeProof, SliceProof
<1>2. QED
  BY <1>1, TreeInvariant, PTL

LEMMA UpToLast ==
    ASSUME NEW last, NEW P \in Nat, NEW n \in Nat, LastOf(last, P, n), NEW i \in Nat, i <= last
    PROVE  i * P < n
<1>1. last \in Nat /\ last * P < n
  BY DEF LastOf
<1>2. PICK d \in Nat : last = i + d
  <2>1. last - i \in Nat /\ last = i + (last - i)
    BY <1>1
  <2>2. QED
    BY <2>1
<1>3. last * P = i * P + d * P /\ d * P \in Nat /\ i * P \in Nat
  BY <1>2
<1>4. PICK w, y, z \in Nat : w = i * P /\ y = last * P /\ z = d * P
  BY <1>1, <1>3
<1>5. y = w + z /\ y < n
  BY <1>1, <1>3, <1>4, Zenon
<1>6. w < n
  BY <1>5
<1>7. QED
  BY <1>4, <1>6

\* The parent of a node, by the position of the node in its row.
LEMMA NodeUp ==
    ASSUME NEW h, NEW n \in Nat, Len(h) = n, NEW j \in Nat, NEW P \in Nat, Pow2[j] = P,
           NEW last, LastOf(last, P, n), NEW i \in Nat, i <= last
    PROVE  /\ i % 2 = 1 => NodeAt(h, 2 * P, i \div 2) = NodeHash(NodeAt(h, P, i - 1), NodeAt(h, P, i))
           /\ i % 2 # 1 /\ i < last =>
                NodeAt(h, 2 * P, i \div 2) = NodeHash(NodeAt(h, P, i), NodeAt(h, P, i + 1))
           /\ i % 2 # 1 /\ ~(i < last) => NodeAt(h, 2 * P, i \div 2) = NodeAt(h, P, i)
<1> DEFINE c == i \div 2
<1>1. /\ c \in Nat
      /\ i % 2 = 1 => i = 2 * c + 1 /\ i - 1 = 2 * c
      /\ i % 2 # 1 => i = 2 * c /\ i + 1 = 2 * c + 1
  BY Halves
<1> HIDE DEF c
<1>2. PICK X \in Nat : Spans(c, P, X)
  BY <1>1, Multiples
<1>3. P > 0 /\ last \in Nat
  BY Pow2Positive DEF LastOf
<1>4. ASSUME 2 * c + 1 <= last
      PROVE  NodeAt(h, 2 * P, c) = NodeHash(NodeAt(h, P, 2 * c), NodeAt(h, P, 2 * c + 1))
  <2>1. 2 * c + 1 \in Nat
    BY <1>1
  <2>2. (2 * c + 1) * P < n
    BY <1>4, <2>1, UpToLast
  <2>3. 2 * X + P < n
    BY <1>2, <2>2, Zenon DEF Spans
  <2>4. QED
    BY <1>1, <1>2, <2>3, NodeSplit
<1>5. CASE i % 2 = 1
  BY <1>1, <1>4, <1>5 DEF c
<1>6. CASE i % 2 # 1 /\ i < last
  BY <1>1, <1>3, <1>4, <1>6 DEF c
<1>7. CASE i % 2 # 1 /\ ~(i < last)
  <2>1. last = 2 * c /\ i = 2 * c
    BY <1>1, <1>3, <1>7
  <2>2. 2 * X < n /\ n <= 2 * X + P
    BY <1>2, <2>1, Zenon DEF Spans, LastOf
  <2>3. NodeAt(h, 2 * P, c) = NodeAt(h, P, 2 * c)
    BY <1>1, <1>2, <1>3, <2>2, NodeSkip
  <2>4. QED
    BY <1>7, <2>1, <2>3 DEF c
<1>8. QED
  BY <1>5, <1>6, <1>7

OnRow(s, n, j) == s.node \in Nat /\ LastOf(s.last, Pow2[j], n) /\ s.node <= s.last

HasSibling(s) == s.node % 2 = 1 \/ s.node < s.last

\* The sibling a round takes from the path, and the one that it is meant to.
Sibling(s, path) == IF s.used < Len(path) THEN path[s.used + 1] ELSE Exhausted

SiblingAt(h, P, s) == NodeAt(h, P, IF s.node % 2 = 1 THEN s.node - 1 ELSE s.node + 1)

\* The round finds the sibling it is meant to.
Guided(h, j, s, path) == HasSibling(s) => Sibling(s, path) = SiblingAt(h, Pow2[j], s)

LEMMA RoundIs ==
    ASSUME NEW s, NEW path
    PROVE  LET r == Round(s, path)
           IN  /\ r.node = s.node \div 2
               /\ r.last = s.last \div 2
               /\ r.fr = IF s.node % 2 = 1 THEN NodeHash(Sibling(s, path), s.fr) ELSE s.fr
               /\ r.tr = IF s.node % 2 = 1 THEN NodeHash(Sibling(s, path), s.tr)
                         ELSE IF s.node < s.last THEN NodeHash(s.tr, Sibling(s, path))
                         ELSE s.tr
               /\ r.used = IF HasSibling(s) THEN s.used + 1 ELSE s.used
BY DEF Round, Sibling, HasSibling

LEMMA RowUp ==
    ASSUME NEW s, NEW path, NEW n \in Nat, NEW j \in Nat, OnRow(s, n, j)
    PROVE  OnRow(Round(s, path), n, j + 1)
<1>1. PICK P \in Nat : P = Pow2[j] /\ Pow2[j + 1] = 2 * P
  BY Pow2Facts
<1>2. s.node \in Nat /\ LastOf(s.last, P, n) /\ s.node <= s.last /\ s.last \in Nat
  BY <1>1 DEF OnRow, LastOf
<1>3. LastOf(s.last \div 2, 2 * P, n)
  BY <1>2, LastHalves
<1>4. s.node \div 2 \in Nat /\ s.node \div 2 <= s.last \div 2
  BY <1>2
<1>5. QED
  BY <1>1, <1>3, <1>4, RoundIs DEF OnRow

\* A round that finds the sibling it is meant to computes the parent.
LEMMA StepUp ==
    ASSUME NEW h, NEW n \in Nat, Len(h) = n, NEW s, NEW path, NEW j \in Nat, OnRow(s, n, j),
           s.tr = NodeAt(h, Pow2[j], s.node),
           Guided(h, j, s, path)
    PROVE  Round(s, path).tr = NodeAt(h, Pow2[j + 1], Round(s, path).node)
<1>1. PICK P \in Nat : P = Pow2[j] /\ Pow2[j + 1] = 2 * P
  BY Pow2Facts
<1>2. s.node \in Nat /\ LastOf(s.last, P, n) /\ s.node <= s.last
  BY <1>1 DEF OnRow
<1>3. /\ s.node % 2 = 1 =>
            NodeAt(h, 2 * P, s.node \div 2) = NodeHash(NodeAt(h, P, s.node - 1), NodeAt(h, P, s.node))
      /\ s.node % 2 # 1 /\ s.node < s.last =>
            NodeAt(h, 2 * P, s.node \div 2) = NodeHash(NodeAt(h, P, s.node), NodeAt(h, P, s.node + 1))
      /\ s.node % 2 # 1 /\ ~(s.node < s.last) =>
            NodeAt(h, 2 * P, s.node \div 2) = NodeAt(h, P, s.node)
  BY <1>1, <1>2, NodeUp
<1>4. HasSibling(s) => Sibling(s, path) = SiblingAt(h, P, s)
  BY <1>1 DEF Guided
<1>5. s.tr = NodeAt(h, P, s.node)
  BY <1>1
<1>6. Round(s, path).tr = NodeAt(h, 2 * P, s.node \div 2)
  <2>1. CASE s.node % 2 = 1
    <3>1. Sibling(s, path) = NodeAt(h, P, s.node - 1)
      BY <1>4, <2>1, Zenon DEF HasSibling, SiblingAt
    <3>2. Round(s, path).tr = NodeHash(Sibling(s, path), s.tr)
      BY <2>1, RoundIs, Zenon
    <3>3. QED
      BY <1>3, <1>5, <2>1, <3>1, <3>2, Zenon
  <2>2. CASE s.node % 2 # 1 /\ s.node < s.last
    <3>1. Sibling(s, path) = NodeAt(h, P, s.node + 1)
      BY <1>4, <2>2, Zenon DEF HasSibling, SiblingAt
    <3>2. Round(s, path).tr = NodeHash(s.tr, Sibling(s, path))
      BY <2>2, RoundIs, Zenon
    <3>3. QED
      BY <1>3, <1>5, <2>2, <3>1, <3>2, Zenon
  <2>3. CASE s.node % 2 # 1 /\ ~(s.node < s.last)
    <3>1. Round(s, path).tr = s.tr
      BY <2>3, RoundIs, Zenon
    <3>2. QED
      BY <1>3, <1>5, <2>3, <3>1, Zenon
  <2>4. QED
    BY <2>1, <2>2, <2>3
<1>7. QED
  BY <1>1, <1>6, RoundIs

\* A round that computes the parent started from the node and found the
\* sibling it is meant to.
LEMMA StepDown ==
    ASSUME NEW h, NEW n \in Nat, Len(h) = n, NEW s, NEW path, NEW j \in Nat, OnRow(s, n, j),
           Round(s, path).tr = NodeAt(h, Pow2[j + 1], Round(s, path).node)
    PROVE  s.tr = NodeAt(h, Pow2[j], s.node) /\ Guided(h, j, s, path)
<1>1. PICK P \in Nat : P = Pow2[j] /\ Pow2[j + 1] = 2 * P
  BY Pow2Facts
<1>2. s.node \in Nat /\ LastOf(s.last, P, n) /\ s.node <= s.last
  BY <1>1 DEF OnRow
<1>3. /\ s.node % 2 = 1 =>
            NodeAt(h, 2 * P, s.node \div 2) = NodeHash(NodeAt(h, P, s.node - 1), NodeAt(h, P, s.node))
      /\ s.node % 2 # 1 /\ s.node < s.last =>
            NodeAt(h, 2 * P, s.node \div 2) = NodeHash(NodeAt(h, P, s.node), NodeAt(h, P, s.node + 1))
      /\ s.node % 2 # 1 /\ ~(s.node < s.last) =>
            NodeAt(h, 2 * P, s.node \div 2) = NodeAt(h, P, s.node)
  BY <1>1, <1>2, NodeUp
<1>4. Round(s, path).tr = NodeAt(h, 2 * P, s.node \div 2)
  BY <1>1, RoundIs
<1>5. CASE s.node % 2 = 1
  <2>1. NodeHash(Sibling(s, path), s.tr) = NodeHash(NodeAt(h, P, s.node - 1), NodeAt(h, P, s.node))
    BY <1>3, <1>4, <1>5, RoundIs, Zenon
  <2>2. Sibling(s, path) = NodeAt(h, P, s.node - 1) /\ s.tr = NodeAt(h, P, s.node)
    BY <2>1 DEF NodeHash
  <2>3. QED
    BY <1>1, <1>5, <2>2, Zenon DEF SiblingAt, Guided
<1>6. CASE s.node % 2 # 1 /\ s.node < s.last
  <2>1. NodeHash(s.tr, Sibling(s, path)) = NodeHash(NodeAt(h, P, s.node), NodeAt(h, P, s.node + 1))
    BY <1>3, <1>4, <1>6, RoundIs, Zenon
  <2>2. Sibling(s, path) = NodeAt(h, P, s.node + 1) /\ s.tr = NodeAt(h, P, s.node)
    BY <2>1 DEF NodeHash
  <2>3. QED
    BY <1>1, <1>6, <2>2, Zenon DEF SiblingAt, Guided
<1>7. CASE s.node % 2 # 1 /\ ~(s.node < s.last)
  BY <1>1, <1>3, <1>4, <1>7, RoundIs, Zenon DEF HasSibling, Guided
<1>8. QED
  BY <1>5, <1>6, <1>7

ClimbBody(from, path, f, t) == IF t = 0 THEN from ELSE Round(f[t - 1], path)

LEMMA ClimbExists ==
    ASSUME NEW from, NEW path
    PROVE  \A n \in Nat : \E f : f = [t \in 0..n |-> ClimbBody(from, path, f, t)]
<1> DEFINE T == {n \in Nat : \E f : f = [t \in 0..n |-> ClimbBody(from, path, f, t)]}
<1>1. 0 \in T
  <2> DEFINE e == [t \in 0..0 |-> from]
  <2>1. e = [t \in 0..0 |-> ClimbBody(from, path, e, t)]
    BY DEF ClimbBody
  <2>2. QED
    BY <2>1
<1>2. ASSUME NEW n \in Nat, n \in T PROVE n + 1 \in T
  <2>1. PICK f : f = [t \in 0..n |-> ClimbBody(from, path, f, t)]
    BY <1>2
  <2> DEFINE g == [t \in 0..(n + 1) |-> ClimbBody(from, path, f, t)]
  <2>2. \A t \in 0..n : f[t] = g[t]
    <3> SUFFICES ASSUME NEW t \in 0..n PROVE f[t] = g[t]
      OBVIOUS
    <3>1. f[t] = ClimbBody(from, path, f, t)
      BY <2>1, Zenon
    <3>2. QED
      BY <3>1
  <2> HIDE DEF g
  <2>3. ASSUME NEW t \in 0..(n + 1) PROVE ClimbBody(from, path, f, t) = ClimbBody(from, path, g, t)
    <3>1. t # 0 => f[t - 1] = g[t - 1]
      BY <2>2
    <3>2. QED
      BY <3>1, Zenon DEF ClimbBody
  <2>4. g = [t \in 0..(n + 1) |-> ClimbBody(from, path, g, t)]
    BY <2>3, Zenon DEF g
  <2>5. n + 1 \in Nat
    OBVIOUS
  <2>6. QED
    BY <2>4, <2>5, Zenon
<1> HIDE DEF T
<1>3. \A n \in Nat : n \in T
  BY <1>1, <1>2, Induction
<1>4. QED
  BY <1>3 DEF T

\* The rounds of a climb.
Climbs(st, path, rounds) == \A t \in Nat : t < rounds => st[t + 1] = Round(st[t], path)

LEMMA ClimbDef ==
    ASSUME NEW from, NEW path, NEW rounds \in Nat
    PROVE  /\ Climb(from, path, rounds)[0] = from
           /\ Climbs(Climb(from, path, rounds), path, rounds)
<1> DEFINE C == Climb(from, path, rounds)
<1>1. C = CHOOSE f : f = [t \in 0..rounds |-> ClimbBody(from, path, f, t)]
  BY Zenon DEF Climb, ClimbBody
<1>2. C = [t \in 0..rounds |-> ClimbBody(from, path, C, t)]
  BY <1>1, ClimbExists, Zenon
<1> HIDE DEF C
<1>3. C[0] = from
  <2>1. 0 \in 0..rounds
    OBVIOUS
  <2>2. C[0] = ClimbBody(from, path, C, 0)
    BY <1>2, <2>1, Zenon
  <2>3. QED
    BY <2>2 DEF ClimbBody
<1>4. ASSUME NEW t \in Nat, t < rounds PROVE C[t + 1] = Round(C[t], path)
  <2>1. t + 1 \in 0..rounds /\ t + 1 # 0 /\ (t + 1) - 1 = t
    BY <1>4
  <2>2. C[t + 1] = ClimbBody(from, path, C, t + 1)
    BY <1>2, <2>1, Zenon
  <2>3. QED
    BY <2>1, <2>2, Zenon DEF ClimbBody
<1>5. QED
  BY <1>3, <1>4 DEF Climbs, C

LEMMA ClimbRows ==
    ASSUME NEW st, NEW path, NEW rounds \in Nat, Climbs(st, path, rounds),
           NEW n \in Nat, NEW j \in Nat, OnRow(st[0], n, j)
    PROVE  \A t \in Nat : t <= rounds => OnRow(st[t], n, j + t)
<1> DEFINE T == {t \in Nat : t <= rounds => OnRow(st[t], n, j + t)}
<1>1. 0 \in T
  <2>1. j + 0 = j
    OBVIOUS
  <2>2. QED
    BY <2>1
<1>2. ASSUME NEW t \in Nat, t \in T PROVE t + 1 \in T
  <2> SUFFICES ASSUME t + 1 <= rounds PROVE OnRow(st[t + 1], n, j + (t + 1))
    OBVIOUS
  <2>1. OnRow(st[t], n, j + t) /\ j + t \in Nat /\ (j + t) + 1 = j + (t + 1)
    BY <1>2
  <2>2. st[t + 1] = Round(st[t], path)
    BY DEF Climbs
  <2>3. OnRow(Round(st[t], path), n, (j + t) + 1)
    BY <2>1, RowUp
  <2>4. QED
    BY <2>1, <2>2, <2>3
<1> HIDE DEF T
<1>3. \A t \in Nat : t \in T
  BY <1>1, <1>2, Induction
<1>4. QED
  BY <1>3 DEF T

\* The row that is as wide as the ledger has one node, the root.
LEMMA TopRow ==
    ASSUME NEW h, NEW n \in Nat, Len(h) = n, n > 0, NEW P \in Nat, n <= P
    PROVE  LastOf(0, P, n) /\ NodeAt(h, P, 0) = RootOfHashes(h)
<1>1. 0 * P = 0 /\ (0 + 1) * P = P
  OBVIOUS
<1>2. LastOf(0, P, n)
  BY <1>1 DEF LastOf
<1>3. NodeAt(h, P, 0) = SliceRoots(h)[n][0]
  <2>1. (IF P <= n THEN P ELSE n - 0) = n
    OBVIOUS
  <2>2. QED
    BY <1>1, <2>1, Zenon DEF NodeAt
<1>4. QED
  BY <1>2, <1>3 DEF RootOfHashes

LEMMA ClimbTop ==
    ASSUME NEW h, NEW n \in Nat, Len(h) = n, n > 0, NEW j \in Nat, n <= Pow2[j],
           NEW s, OnRow(s, n, j)
    PROVE  NodeAt(h, Pow2[j], s.node) = RootOfHashes(h)
<1>1. PICK P \in Nat : P = Pow2[j]
  BY Pow2Facts
<1>2. LastOf(0, P, n) /\ NodeAt(h, P, 0) = RootOfHashes(h)
  BY <1>1, TopRow
<1>3. LastOf(s.last, P, n) /\ s.node \in Nat /\ s.node <= s.last
  BY <1>1 DEF OnRow
<1>4. s.last = 0
  BY <1>2, <1>3, LastUnique
<1>5. s.node = 0
  BY <1>3, <1>4
<1>6. QED
  BY <1>1, <1>2, <1>5

\* A climb that arrives at the root went through the nodes of the tree, and
\* every sibling was a node of the tree, whatever the path is.
LEMMA ClimbSound ==
    ASSUME NEW h, NEW n \in Nat, Len(h) = n,
           NEW st, NEW path, NEW rounds \in Nat, Climbs(st, path, rounds),
           NEW j \in Nat, OnRow(st[0], n, j),
           st[rounds].tr = NodeAt(h, Pow2[j + rounds], st[rounds].node)
    PROVE  \A t \in Nat : /\ t <= rounds => st[t].tr = NodeAt(h, Pow2[j + t], st[t].node)
                          /\ t < rounds => Guided(h, j + t, st[t], path)
<1> DEFINE T == {d \in Nat : d <= rounds =>
                    st[rounds - d].tr = NodeAt(h, Pow2[j + (rounds - d)], st[rounds - d].node)}
<1>1. \A t \in Nat : t <= rounds => OnRow(st[t], n, j + t)
  BY ClimbRows
<1>2. 0 \in T
  <2>1. rounds - 0 = rounds
    OBVIOUS
  <2>2. QED
    BY <2>1
<1>3. ASSUME NEW t \in Nat, t < rounds, st[t + 1].tr = NodeAt(h, Pow2[j + (t + 1)], st[t + 1].node)
      PROVE  st[t].tr = NodeAt(h, Pow2[j + t], st[t].node) /\ Guided(h, j + t, st[t], path)
  <2>1. OnRow(st[t], n, j + t) /\ j + t \in Nat /\ (j + t) + 1 = j + (t + 1)
    BY <1>1, <1>3
  <2>2. st[t + 1] = Round(st[t], path)
    BY <1>3 DEF Climbs
  <2>3. Round(st[t], path).tr = NodeAt(h, Pow2[(j + t) + 1], Round(st[t], path).node)
    BY <1>3, <2>1, <2>2
  <2>4. QED
    BY <2>1, <2>3, StepDown
<1>4. ASSUME NEW d \in Nat, d \in T PROVE d + 1 \in T
  <2> DEFINE t == rounds - (d + 1)
  <2> SUFFICES ASSUME d + 1 <= rounds
               PROVE  st[t].tr = NodeAt(h, Pow2[j + t], st[t].node)
    OBVIOUS
  <2>1. t \in Nat /\ t < rounds /\ t + 1 = rounds - d
    OBVIOUS
  <2>2. st[t + 1].tr = NodeAt(h, Pow2[j + (t + 1)], st[t + 1].node)
    BY <1>4, <2>1
  <2> HIDE DEF t
  <2>3. QED
    BY <1>3, <2>1, <2>2
<1> HIDE DEF T
<1>5. \A d \in Nat : d \in T
  BY <1>2, <1>4, Induction
<1>6. ASSUME NEW t \in Nat, t <= rounds PROVE st[t].tr = NodeAt(h, Pow2[j + t], st[t].node)
  <2>1. rounds - t \in Nat /\ rounds - t <= rounds /\ rounds - (rounds - t) = t
    BY <1>6
  <2>2. QED
    BY <1>5, <2>1 DEF T
<1>7. ASSUME NEW t \in Nat, t < rounds PROVE Guided(h, j + t, st[t], path)
  <2>1. t + 1 \in Nat /\ t + 1 <= rounds
    BY <1>7
  <2>2. st[t + 1].tr = NodeAt(h, Pow2[j + (t + 1)], st[t + 1].node)
    BY <1>6, <2>1
  <2>3. QED
    BY <1>3, <1>7, <2>2
<1>8. QED
  BY <1>6, <1>7

\* What a prover has collected when the climb is in round t: one sibling for
\* every round that needs one.
Trail(pa, st, h, j, rounds, V) ==
    \A t \in Nat :
        /\ t <= rounds => pa[t] \in Seq(V)
        /\ t < rounds => pa[t + 1] = IF HasSibling(st[t])
                                     THEN Append(pa[t], SiblingAt(h, Pow2[j + t], st[t]))
                                     ELSE pa[t]

Prefix(a, b) == Len(a) <= Len(b) /\ \A u \in 1..Len(a) : a[u] = b[u]

LEMMA TrailPrefix ==
    ASSUME NEW pa, NEW st, NEW h, NEW j \in Nat, NEW rounds \in Nat, NEW V,
           Trail(pa, st, h, j, rounds, V)
    PROVE  \A t \in Nat : t <= rounds => Prefix(pa[t], pa[rounds])
<1> DEFINE path == pa[rounds]
           T == {d \in Nat : d <= rounds => Prefix(pa[rounds - d], path)}
<1>1. path \in Seq(V)
  BY DEF Trail
<1>2. 0 \in T
  <2>1. rounds - 0 = rounds
    OBVIOUS
  <2>2. QED
    BY <1>1, <2>1 DEF Prefix
<1>3. ASSUME NEW d \in Nat, d \in T PROVE d + 1 \in T
  <2> DEFINE t == rounds - (d + 1)
  <2> SUFFICES ASSUME d + 1 <= rounds PROVE Prefix(pa[t], path)
    OBVIOUS
  <2>1. t \in Nat /\ t <= rounds /\ t < rounds /\ t + 1 = rounds - d
    OBVIOUS
  <2>2. Prefix(pa[t + 1], path)
    BY <1>3, <2>1
  <2> HIDE DEF t, path
  <2> DEFINE x == SiblingAt(h, Pow2[j + t], st[t])
  <2>3. pa[t] \in Seq(V) /\ (pa[t + 1] = Append(pa[t], x) \/ pa[t + 1] = pa[t])
    BY <2>1 DEF Trail
  <2> HIDE DEF x
  <2>4. QED
    BY <1>1, <2>2, <2>3 DEF Prefix
<1> HIDE DEF T
<1>4. \A d \in Nat : d \in T
  BY <1>2, <1>3, Induction
<1>5. ASSUME NEW t \in Nat, t <= rounds PROVE Prefix(pa[t], path)
  <2>1. rounds - t \in Nat /\ rounds - t <= rounds /\ rounds - (rounds - t) = t
    BY <1>5
  <2>2. QED
    BY <1>4, <2>1 DEF T
<1>6. QED
  BY <1>5

\* A climb along a prover's path arrives at the root, with the path used up.
LEMMA TrailClimb ==
    ASSUME NEW h, NEW n \in Nat, Len(h) = n,
           NEW pa, NEW st, NEW j \in Nat, NEW rounds \in Nat, NEW V,
           Trail(pa, st, h, j, rounds, V), Climbs(st, pa[rounds], rounds),
           OnRow(st[0], n, j), st[0].used = Len(pa[0]), st[0].tr = NodeAt(h, Pow2[j], st[0].node)
    PROVE  \A t \in Nat : /\ t <= rounds => /\ st[t].used = Len(pa[t])
                                            /\ st[t].tr = NodeAt(h, Pow2[j + t], st[t].node)
                          /\ t < rounds => Guided(h, j + t, st[t], pa[rounds])
<1> DEFINE path == pa[rounds]
           Good(t) == st[t].used = Len(pa[t]) /\ st[t].tr = NodeAt(h, Pow2[j + t], st[t].node)
           T == {t \in Nat : t <= rounds => Good(t)}
<1>1. \A t \in Nat : t <= rounds => OnRow(st[t], n, j + t)
  BY ClimbRows
<1>2. \A t \in Nat : t <= rounds => Prefix(pa[t], path)
  BY TrailPrefix
<1>3. 0 \in T
  <2>1. j + 0 = j
    OBVIOUS
  <2>2. QED
    BY <2>1
<1>4. ASSUME NEW t \in Nat, t < rounds, Good(t)
      PROVE  Guided(h, j + t, st[t], path) /\ Good(t + 1)
  <2>1. /\ OnRow(st[t], n, j + t) /\ j + t \in Nat /\ (j + t) + 1 = j + (t + 1)
        /\ t + 1 \in Nat /\ t + 1 <= rounds /\ t <= rounds
    BY <1>1, <1>4
  <2>2. Prefix(pa[t + 1], path)
    BY <1>2, <2>1
  <2>3. st[t + 1] = Round(st[t], path)
    BY <1>4 DEF Climbs
  <2> DEFINE x == SiblingAt(h, Pow2[j + t], st[t])
  <2>4. /\ pa[t] \in Seq(V) /\ pa[t + 1] \in Seq(V) /\ path \in Seq(V)
        /\ pa[t + 1] = IF HasSibling(st[t]) THEN Append(pa[t], x) ELSE pa[t]
    <3>1. pa[t] \in Seq(V) /\ pa[t + 1] \in Seq(V)
      BY <2>1 DEF Trail
    <3>2. path \in Seq(V)
      BY DEF Trail
    <3>3. pa[t + 1] = IF HasSibling(st[t]) THEN Append(pa[t], x) ELSE pa[t]
      BY <1>4, Zenon DEF Trail
    <3>4. QED
      BY <3>1, <3>2, <3>3
  <2> HIDE DEF x, path
  <2>5. st[t].used = Len(pa[t]) /\ st[t].tr = NodeAt(h, Pow2[j + t], st[t].node)
    BY <1>4
  <2>6. ASSUME HasSibling(st[t]) PROVE Sibling(st[t], path) = x
    <3>1. pa[t + 1] = Append(pa[t], x)
      BY <2>4, <2>6
    <3>2. Len(pa[t + 1]) = Len(pa[t]) + 1 /\ pa[t + 1][Len(pa[t]) + 1] = x
      BY <2>4, <3>1
    <3>3. Len(pa[t]) < Len(path) /\ path[Len(pa[t]) + 1] = x
      BY <2>2, <2>4, <3>2 DEF Prefix
    <3>4. QED
      BY <2>5, <3>3 DEF Sibling
  <2>7. Guided(h, j + t, st[t], path)
    BY <2>6 DEF Guided, x
  <2>8. Round(st[t], path).tr = NodeAt(h, Pow2[(j + t) + 1], Round(st[t], path).node)
    BY <2>1, <2>5, <2>7, StepUp
  <2>9. Round(st[t], path).used = Len(pa[t + 1])
    <3>1. CASE HasSibling(st[t])
      <4>1. Round(st[t], path).used = st[t].used + 1
        BY <3>1, RoundIs
      <4>2. Len(pa[t + 1]) = Len(pa[t]) + 1
        BY <2>4, <3>1
      <4>3. QED
        BY <2>5, <4>1, <4>2
    <3>2. CASE ~HasSibling(st[t])
      BY <2>4, <2>5, <3>2, RoundIs
    <3>3. QED
      BY <3>1, <3>2
  <2>10. QED
    BY <2>1, <2>3, <2>7, <2>8, <2>9
<1> HIDE DEF Good
<1>5. ASSUME NEW t \in Nat, t \in T PROVE t + 1 \in T
  BY <1>4, <1>5
<1> HIDE DEF T
<1>6. \A t \in Nat : t \in T
  BY <1>3, <1>5, Induction
<1>7. \A t \in Nat : t <= rounds => Good(t)
  BY <1>6 DEF T
<1>8. \A t \in Nat : t < rounds => Guided(h, j + t, st[t], path)
  BY <1>4, <1>7
<1>9. QED
  BY <1>7, <1>8, Zenon DEF Good, path

-----------------------------------------------------------------------------
(***************************************************************************)
(* The provers collect the siblings of the climb.                          *)
(***************************************************************************)

\* The entry of a table of slices for node i of the row of width P.
Entry(f, n, P, i) == f[IF (i + 1) * P <= n THEN P ELSE n - i * P][i * P]

\* The slices of a node of len leaves and of its two children.
Children(n, P, c, X, len) ==
    /\ P < len /\ len <= 2 * P /\ 2 * X + len <= n
    /\ 2 * X + len = n \/ 2 * X + len = 2 * X + 2 * P
    /\ \A f : /\ Entry(f, n, 2 * P, c) = f[len][2 * X]
              /\ Entry(f, n, P, 2 * c) = f[P][2 * X]
              /\ Entry(f, n, P, 2 * c + 1) = f[len - P][2 * X + P]

LEMMA TwoChildren ==
    ASSUME NEW n \in Nat, NEW P \in Nat, P > 0,
           NEW c \in Nat, NEW X \in Nat, Spans(c, P, X), 2 * X + P < n
    PROVE  \E len \in Nat : Children(n, P, c, X, len)
<1> DEFINE len == IF 2 * X + 2 * P <= n THEN 2 * P ELSE n - 2 * X
<1>1. /\ len \in Nat /\ P < len /\ len <= 2 * P /\ 2 * X + len <= n
      /\ 2 * X + len = n \/ 2 * X + len = 2 * X + 2 * P
  OBVIOUS
<1>2. ASSUME NEW f
      PROVE  /\ Entry(f, n, 2 * P, c) = f[len][2 * X]
             /\ Entry(f, n, P, 2 * c) = f[P][2 * X]
             /\ Entry(f, n, P, 2 * c + 1) = f[len - P][2 * X + P]
  <2>1. Entry(f, n, 2 * P, c) = f[len][2 * X]
    BY Zenon DEF Entry, Spans
  <2>2. Entry(f, n, P, 2 * c) = f[P][2 * X]
    <3>1. 2 * X + P <= n
      OBVIOUS
    <3>2. QED
      BY <3>1, Zenon DEF Entry, Spans
  <2>3. Entry(f, n, P, 2 * c + 1) = f[len - P][2 * X + P]
    <3>1. (IF 2 * X + 2 * P <= n THEN P ELSE n - (2 * X + P)) = len - P
      OBVIOUS
    <3>2. QED
      BY <3>1, Zenon DEF Entry, Spans
  <2>4. QED
    BY <2>1, <2>2, <2>3
<1> HIDE DEF len
<1>3. Children(n, P, c, X, len)
  BY <1>1, <1>2 DEF Children
<1>4. QED
  BY <1>1, <1>3

\* A node with a left child alone has the slice of that child.
LEMMA OneChild ==
    ASSUME NEW n \in Nat, NEW P \in Nat, P > 0,
           NEW c \in Nat, NEW X \in Nat, Spans(c, P, X), 2 * X < n, n <= 2 * X + P, NEW f
    PROVE  Entry(f, n, 2 * P, c) = Entry(f, n, P, 2 * c)
<1>1. (IF 2 * X + P <= n THEN P ELSE n - 2 * X) = n - 2 * X
  OBVIOUS
<1>2. (IF 2 * X + 2 * P <= n THEN 2 * P ELSE n - 2 * X) = n - 2 * X
  OBVIOUS
<1>3. Entry(f, n, P, 2 * c) = f[n - 2 * X][2 * X]
  BY <1>1, Zenon DEF Entry, Spans
<1>4. Entry(f, n, 2 * P, c) = f[n - 2 * X][2 * X]
  BY <1>2, Zenon DEF Entry, Spans
<1>5. QED
  BY <1>3, <1>4

PathBody(h, index, f, len) ==
    [start \in 0..(Len(h) - len) |->
        IF len = 1
        THEN <<>>
        ELSE LET k == LargestPowerOfTwo(len)
             IN  IF index < start + k
                 THEN Append(f[k][start], SliceRoots(h)[len - k][start + k])
                 ELSE Append(f[len - k][start + k], SliceRoots(h)[k][start])]

Paths(h, index) == CHOOSE f : f = [len \in 1..Len(h) |-> PathBody(h, index, f, len)]

LEMMA PathBodyLocal ==
    ASSUME NEW h, NEW index, NEW len \in Nat, len >= 1, NEW f, NEW g,
           \A l \in Nat : 1 <= l /\ l < len => f[l] = g[l]
    PROVE  PathBody(h, index, f, len) = PathBody(h, index, g, len)
<1>1. CASE len = 1
  BY <1>1 DEF PathBody
<1>2. CASE len >= 2
  <2> DEFINE k == LargestPowerOfTwo(len)
  <2>1. k \in Nat /\ k >= 1 /\ k < len
    BY <1>2, SplitFacts
  <2> HIDE DEF k
  <2>2. f[k] = g[k] /\ f[len - k] = g[len - k]
    BY <2>1
  <2>3. QED
    BY <2>2, Zenon DEF PathBody, k
<1>3. QED
  BY <1>1, <1>2

LEMMA PathsExist ==
    ASSUME NEW h, NEW index
    PROVE  \A n \in Nat : \E f : f = [len \in 1..n |-> PathBody(h, index, f, len)]
<1> DEFINE T == {n \in Nat : \E f : f = [len \in 1..n |-> PathBody(h, index, f, len)]}
<1>1. 0 \in T
  <2> DEFINE e == [len \in 1..0 |-> 0]
  <2>1. e = [len \in 1..0 |-> PathBody(h, index, e, len)]
    OBVIOUS
  <2>2. QED
    BY <2>1, Zenon
<1>2. ASSUME NEW n \in Nat, n \in T PROVE n + 1 \in T
  <2>1. PICK f : f = [len \in 1..n |-> PathBody(h, index, f, len)]
    BY <1>2
  <2> DEFINE g == [len \in 1..(n + 1) |-> PathBody(h, index, f, len)]
  <2>2. \A l \in Nat : 1 <= l /\ l < n + 1 => f[l] = g[l]
    <3>1. ASSUME NEW l \in 1..n PROVE f[l] = g[l]
      <4>1. f[l] = PathBody(h, index, f, l)
        BY <2>1, Zenon
      <4>2. QED
        BY <4>1
    <3> HIDE DEF g, T
    <3>2. QED
      BY <3>1
  <2> HIDE DEF g
  <2>3. ASSUME NEW len \in 1..(n + 1) PROVE PathBody(h, index, f, len) = PathBody(h, index, g, len)
    BY <2>2, PathBodyLocal
  <2>4. g = [len \in 1..(n + 1) |-> PathBody(h, index, g, len)]
    BY <2>3, Zenon DEF g
  <2>5. n + 1 \in Nat
    OBVIOUS
  <2>6. QED
    BY <2>4, <2>5, Zenon
<1> HIDE DEF T
<1>3. \A n \in Nat : n \in T
  BY <1>1, <1>2, Induction
<1>4. QED
  BY <1>3 DEF T

\* The recursion of inclusion_path.
LEMMA PathsDef ==
    ASSUME NEW h, Len(h) \in Nat, NEW index
    PROVE  /\ InclusionPath(h, index) = Paths(h, index)[Len(h)][0]
           /\ \A len, start \in Nat : len >= 1 /\ start + len <= Len(h) =>
                Paths(h, index)[len][start] =
                  IF len = 1
                  THEN <<>>
                  ELSE LET k == LargestPowerOfTwo(len)
                       IN  IF index < start + k
                           THEN Append(Paths(h, index)[k][start], SliceRoots(h)[len - k][start + k])
                           ELSE Append(Paths(h, index)[len - k][start + k], SliceRoots(h)[k][start])
<1> DEFINE R == Paths(h, index)
<1>1. R = [l \in 1..Len(h) |-> PathBody(h, index, R, l)]
  BY PathsExist, Zenon DEF Paths
<1>2. InclusionPath(h, index) = R[Len(h)][0]
  BY Zenon DEF InclusionPath, Paths, PathBody
<1> HIDE DEF R
<1>3. ASSUME NEW len \in Nat, NEW start \in Nat, len >= 1, start + len <= Len(h)
      PROVE  R[len][start] = IF len = 1
                             THEN <<>>
                             ELSE LET k == LargestPowerOfTwo(len)
                                  IN  IF index < start + k
                                      THEN Append(R[k][start], SliceRoots(h)[len - k][start + k])
                                      ELSE Append(R[len - k][start + k], SliceRoots(h)[k][start])
  <2>1. len \in 1..Len(h) /\ start \in 0..(Len(h) - len)
    BY <1>3
  <2>2. R[len] = PathBody(h, index, R, len)
    BY <1>1, <2>1, Zenon
  <2>3. QED
    BY <2>1, <2>2, Zenon DEF PathBody
<1>4. QED
  BY <1>2, <1>3, Zenon DEF R

\* The hashes a prover finds in a table of roots.
HashesOf(R, n) == {R[l][s] : l \in 0..n, s \in 0..n}

LEMMA PathsTyped ==
    ASSUME NEW h, NEW n \in Nat, Len(h) = n, NEW index \in Nat
    PROVE  \A len, start \in Nat : len >= 1 /\ start + len <= n =>
             Paths(h, index)[len][start] \in Seq(HashesOf(SliceRoots(h), n))
<1> DEFINE R == Paths(h, index)
           S == SliceRoots(h)
           V == HashesOf(S, n)
           T == {len \in Nat : \A start \in Nat :
                    len >= 1 /\ start + len <= n => R[len][start] \in Seq(V)}
<1>1. \A l, s \in 0..n : S[l][s] \in V
  BY DEF HashesOf
<1>2. ASSUME NEW len \in Nat, \A m \in Nat : m < len => m \in T
      PROVE  len \in T
  <2> SUFFICES ASSUME NEW start \in Nat, len >= 1, start + len <= n
               PROVE  R[len][start] \in Seq(V)
    OBVIOUS
  <2> DEFINE k == LargestPowerOfTwo(len)
  <2>1. R[len][start] = IF len = 1
                        THEN <<>>
                        ELSE IF index < start + k
                             THEN Append(R[k][start], S[len - k][start + k])
                             ELSE Append(R[len - k][start + k], S[k][start])
    BY PathsDef
  <2>2. len # 1 => k \in Nat /\ k >= 1 /\ k < len
    BY SplitFacts
  <2> HIDE DEF R, S, V, k, T
  <2>3. CASE len = 1
    <3>1. R[len][start] = <<>>
      BY <2>1, <2>3
    <3>2. QED
      BY <3>1
  <2>4. CASE len # 1
    <3>1. /\ k \in Nat /\ k >= 1 /\ k < len /\ start + k \in Nat /\ start + k <= n
          /\ len - k \in Nat /\ len - k >= 1 /\ len - k < len /\ (start + k) + (len - k) <= n
      BY <2>2, <2>4
    <3>2. k \in T /\ len - k \in T
      BY <1>2, <3>1
    <3>3. R[k][start] \in Seq(V) /\ R[len - k][start + k] \in Seq(V)
      BY <3>1, <3>2 DEF T
    <3>4. S[len - k][start + k] \in V /\ S[k][start] \in V
      BY <1>1, <3>1
    <3>5. /\ Append(R[k][start], S[len - k][start + k]) \in Seq(V)
          /\ Append(R[len - k][start + k], S[k][start]) \in Seq(V)
      BY <3>3, <3>4
    <3>6. QED
      BY <2>1, <2>4, <3>5, Zenon
  <2>5. QED
    BY <2>3, <2>4
<1> HIDE DEF T
<1>3. \A len \in Nat : len \in T
  BY <1>2, StrongInduction
<1>4. QED
  BY <1>3 DEF T

\* The slice of a node is one of the ledger.
SliceOf(n, P, i, len, s) == len >= 1 /\ s + len <= n /\ \A f : Entry(f, n, P, i) = f[len][s]

LEMMA EntryValid ==
    ASSUME NEW n \in Nat, NEW P \in Nat, P > 0, NEW last, LastOf(last, P, n), NEW i \in Nat, i <= last
    PROVE  \E len, s \in Nat : SliceOf(n, P, i, len, s)
<1>1. PICK s, e \in Nat : Bounds(i, P, s, e)
  BY BoundsExist
<1>2. i * P < n
  BY UpToLast
<1>3. s < n /\ e = s + P
  BY <1>1, <1>2 DEF Bounds
<1> DEFINE len == IF e <= n THEN P ELSE n - s
<1>4. len \in Nat /\ len >= 1 /\ s + len <= n
  BY <1>3
<1>5. \A f : Entry(f, n, P, i) = f[len][s]
  BY <1>1, Zenon DEF Entry, Bounds
<1> HIDE DEF len
<1>6. SliceOf(n, P, i, len, s)
  BY <1>4, <1>5 DEF SliceOf
<1>7. QED
  BY <1>4, <1>6

\* The path of a node's parent, by the position of the node in its row: the
\* sibling is added, if there is one.
AddsSibling(F, h, n, P, i, last) ==
    LET E(Q, m) == Entry(F, n, Q, m)
    IN  /\ i % 2 = 1 => E(2 * P, i \div 2) = Append(E(P, i), NodeAt(h, P, i - 1))
        /\ i % 2 # 1 /\ i < last => E(2 * P, i \div 2) = Append(E(P, i), NodeAt(h, P, i + 1))
        /\ i % 2 # 1 /\ ~(i < last) => E(2 * P, i \div 2) = E(P, i)

LEMMA PathUp ==
    ASSUME NEW h, NEW n \in Nat, Len(h) = n, NEW index \in Nat, index < n,
           NEW j \in Nat, NEW P \in Nat, Pow2[j] = P,
           NEW last, LastOf(last, P, n), NEW i \in Nat, i <= last, LastOf(i, P, index + 1)
    PROVE  AddsSibling(Paths(h, index), h, n, P, i, last)
<1> DEFINE c == i \div 2
           F == Paths(h, index)
           R == SliceRoots(h)
           E(Q, m) == Entry(F, n, Q, m)
<1>1. /\ c \in Nat
      /\ i % 2 = 1 => i = 2 * c + 1 /\ i - 1 = 2 * c
      /\ i % 2 # 1 => i = 2 * c /\ i + 1 = 2 * c + 1
  BY Halves
<1>2. \A Q, m : NodeAt(h, Q, m) = Entry(R, n, Q, m)
  BY Zenon DEF NodeAt, Entry
<1>3. \A len, start \in Nat : len >= 1 /\ start + len <= n =>
        F[len][start] = IF len = 1
                        THEN <<>>
                        ELSE LET k == LargestPowerOfTwo(len)
                             IN  IF index < start + k
                                 THEN Append(F[k][start], R[len - k][start + k])
                                 ELSE Append(F[len - k][start + k], R[k][start])
  <2>1. Len(h) \in Nat
    OBVIOUS
  <2>2. QED
    BY <2>1, PathsDef
<1> HIDE DEF c, F, R
<1>4. PICK X \in Nat : Spans(c, P, X)
  BY <1>1, Multiples
<1>5. P > 0 /\ last \in Nat
  BY Pow2Positive DEF LastOf
<1>6. ASSUME 2 * c + 1 <= last
      PROVE  E(2 * P, c) = IF index < 2 * X + P
                           THEN Append(E(P, 2 * c), NodeAt(h, P, 2 * c + 1))
                           ELSE Append(E(P, 2 * c + 1), NodeAt(h, P, 2 * c))
  <2>1. 2 * c + 1 \in Nat
    BY <1>1
  <2>2. (2 * c + 1) * P < n
    BY <1>6, <2>1, UpToLast
  <2>3. 2 * X + P < n
    BY <1>4, <2>2, Zenon DEF Spans
  <2>4. PICK len \in Nat : Children(n, P, c, X, len)
    BY <1>1, <1>4, <1>5, <2>3, TwoChildren
  <2>5. len >= 1 /\ len # 1 /\ 2 * X \in Nat /\ 2 * X + len <= n /\ P < len /\ len <= 2 * P
    BY <1>5, <2>4 DEF Children
  <2>6. LargestPowerOfTwo(len) = P
    BY <2>5, LargestPowerIs
  <2>7. F[len][2 * X] = IF index < 2 * X + P
                        THEN Append(F[P][2 * X], R[len - P][2 * X + P])
                        ELSE Append(F[len - P][2 * X + P], R[P][2 * X])
    <3>1. F[len][2 * X] =
            IF len = 1
            THEN <<>>
            ELSE LET k == LargestPowerOfTwo(len)
                 IN  IF index < 2 * X + k
                     THEN Append(F[k][2 * X], R[len - k][2 * X + k])
                     ELSE Append(F[len - k][2 * X + k], R[k][2 * X])
      BY <1>3, <2>5
    <3>2. QED
      BY <2>5, <2>6, <3>1
  <2>8. /\ Entry(F, n, 2 * P, c) = F[len][2 * X]
        /\ Entry(F, n, P, 2 * c) = F[P][2 * X]
        /\ Entry(F, n, P, 2 * c + 1) = F[len - P][2 * X + P]
    BY <2>4, Zenon DEF Children
  <2>9. /\ NodeAt(h, P, 2 * c) = R[P][2 * X]
        /\ NodeAt(h, P, 2 * c + 1) = R[len - P][2 * X + P]
    BY <1>2, <2>4, Zenon DEF Children
  <2>10. QED
    BY <2>7, <2>8, <2>9
<1>7. CASE i % 2 = 1
  <2>1. i = 2 * c + 1 /\ i - 1 = 2 * c /\ 2 * c + 1 <= last
    BY <1>1, <1>7
  <2>2. 2 * X + P < index + 1
    BY <1>4, <2>1, Zenon DEF Spans, LastOf
  <2>3. ~(index < 2 * X + P)
    BY <2>2
  <2>4. QED
    BY <1>6, <1>7, <2>1, <2>3, Zenon DEF c, F, AddsSibling
<1>8. CASE i % 2 # 1 /\ i < last
  <2>1. i = 2 * c /\ i + 1 = 2 * c + 1 /\ 2 * c + 1 <= last
    BY <1>1, <1>5, <1>8
  <2>2. index + 1 <= 2 * X + P
    BY <1>4, <2>1, Zenon DEF Spans, LastOf
  <2>3. index < 2 * X + P
    BY <2>2
  <2>4. QED
    BY <1>6, <1>8, <2>1, <2>3, Zenon DEF c, F, AddsSibling
<1>9. CASE i % 2 # 1 /\ ~(i < last)
  <2>1. last = 2 * c /\ i = 2 * c
    BY <1>1, <1>5, <1>9
  <2>2. 2 * X < n /\ n <= 2 * X + P
    BY <1>4, <2>1, Zenon DEF Spans, LastOf
  <2>3. E(2 * P, c) = E(P, 2 * c)
    BY <1>1, <1>4, <1>5, <2>2, OneChild
  <2>4. QED
    BY <1>9, <2>1, <2>3, Zenon DEF c, F, AddsSibling
<1>10. QED
  BY <1>7, <1>8, <1>9

\* The climb stays on the nodes above one leaf.
LEMMA NodeRows ==
    ASSUME NEW st, NEW path, NEW rounds \in Nat, Climbs(st, path, rounds),
           NEW m \in Nat, NEW j \in Nat, LastOf(st[0].node, Pow2[j], m)
    PROVE  \A t \in Nat : t <= rounds => LastOf(st[t].node, Pow2[j + t], m)
<1> DEFINE T == {t \in Nat : t <= rounds => LastOf(st[t].node, Pow2[j + t], m)}
<1>1. 0 \in T
  <2>1. j + 0 = j
    OBVIOUS
  <2>2. QED
    BY <2>1
<1>2. ASSUME NEW t \in Nat, t \in T PROVE t + 1 \in T
  <2> SUFFICES ASSUME t + 1 <= rounds PROVE LastOf(st[t + 1].node, Pow2[j + (t + 1)], m)
    OBVIOUS
  <2>1. LastOf(st[t].node, Pow2[j + t], m) /\ j + t \in Nat /\ (j + t) + 1 = j + (t + 1)
    BY <1>2
  <2>2. st[t + 1] = Round(st[t], path)
    BY DEF Climbs
  <2>3. PICK P \in Nat : P = Pow2[j + t] /\ Pow2[(j + t) + 1] = 2 * P
    BY <2>1, Pow2Facts
  <2>4. LastOf(st[t].node \div 2, 2 * P, m)
    BY <2>1, <2>3, LastHalves
  <2>5. QED
    BY <2>1, <2>2, <2>3, <2>4, RoundIs
<1> HIDE DEF T
<1>3. \A t \in Nat : t \in T
  BY <1>1, <1>2, Induction
<1>4. QED
  BY <1>3 DEF T

LEMMA LeafRow ==
    ASSUME NEW h, NEW n \in Nat, Len(h) = n, NEW index \in Nat, index < n
    PROVE  /\ LastOf(n - 1, 1, n)
           /\ LastOf(index, 1, index + 1)
           /\ NodeAt(h, 1, index) = h[index + 1]
           /\ \A f : Entry(f, n, 1, index) = f[1][index]
<1>1. LastOf(n - 1, 1, n) /\ LastOf(index, 1, index + 1)
  BY DEF LastOf
<1>2. \A f : Entry(f, n, 1, index) = f[1][index]
  BY DEF Entry
<1>3. NodeAt(h, 1, index) = SliceRoots(h)[1][index]
  BY DEF NodeAt
<1>4. Len(h) \in Nat /\ 1 \in Nat /\ 1 >= 1 /\ index + 1 <= Len(h)
  OBVIOUS
<1>5. 1 = 1 => SliceRoots(h)[1][index] = h[index + 1]
  BY <1>4, SliceRootsDef, Zenon
<1>6. QED
  BY <1>1, <1>2, <1>3, <1>5

\* No path makes verify_inclusion accept a hash that is not at the index.
LEMMA InclusionSound ==
    ASSUME NEW h, NEW n \in Nat, Len(h) = n, NEW hash, NEW index \in Nat, NEW path,
           VerifyInclusion(hash, index, n, path, RootOfHashes(h))
    PROVE  h[index + 1] = hash
<1> DEFINE start == [node |-> index, last |-> n - 1, fr |-> hash, tr |-> hash, used |-> 0]
           st == Climb(start, path, n)
<1>1. 0 < n /\ index < n /\ st[n].tr = RootOfHashes(h)
  BY DEF VerifyInclusion
<1>2. st[0] = start /\ Climbs(st, path, n)
  BY ClimbDef
<1> HIDE DEF st
<1>3. st[0].node = index /\ st[0].last = n - 1 /\ st[0].tr = hash
  BY <1>2
<1> HIDE DEF start
<1>4. OnRow(st[0], n, 0)
  <2>1. LastOf(n - 1, Pow2[0], n)
    BY <1>1, LeafRow, Pow2Zero
  <2>2. index <= n - 1
    BY <1>1
  <2>3. QED
    BY <1>3, <2>1, <2>2 DEF OnRow
<1>5. OnRow(st[n], n, 0 + n) /\ 0 + n = n
  BY <1>2, <1>4, ClimbRows
<1>6. n > 0 /\ n <= Pow2[n]
  <2>1. Pow2[n] \in Nat /\ Pow2[n] > n
    BY Pow2Facts
  <2>2. QED
    BY <1>1, <2>1
<1>7. st[n].tr = NodeAt(h, Pow2[0 + n], st[n].node)
  BY <1>1, <1>5, <1>6, ClimbTop
<1>8. st[0].tr = NodeAt(h, Pow2[0 + 0], st[0].node)
  <2>1. \A t \in Nat : /\ t <= n => st[t].tr = NodeAt(h, Pow2[0 + t], st[t].node)
                       /\ t < n => Guided(h, 0 + t, st[t], path)
    BY <1>2, <1>4, <1>7, ClimbSound
  <2>2. QED
    BY <1>1, <2>1
<1>9. 0 + 0 = 0 /\ Pow2[0] = 1
  BY Pow2Zero
<1>10. hash = NodeAt(h, 1, index)
  BY <1>3, <1>8, <1>9
<1>11. QED
  BY <1>1, <1>10, LeafRow

\* verify_inclusion accepts what inclusion_path builds.
LEMMA InclusionComplete ==
    ASSUME NEW h, NEW n \in Nat, Len(h) = n, NEW index \in Nat, index < n
    PROVE  VerifyInclusion(h[index + 1], index, n, InclusionPath(h, index), RootOfHashes(h))
<1> DEFINE hash == h[index + 1]
           path == InclusionPath(h, index)
           F == Paths(h, index)
           V == HashesOf(SliceRoots(h), n)
           start == [node |-> index, last |-> n - 1, fr |-> hash, tr |-> hash, used |-> 0]
           st == Climb(start, path, n)
           pa == [t \in 0..n |-> Entry(F, n, Pow2[t], st[t].node)]
<1>1. st[0] = start /\ Climbs(st, path, n)
  BY ClimbDef
<1> HIDE DEF st, path, F, V
<1>2. st[0].node = index /\ st[0].last = n - 1 /\ st[0].tr = hash /\ st[0].used = 0
  BY <1>1
<1> HIDE DEF start, hash
<1>3. Pow2[0] = 1 /\ n > 0 /\ n <= Pow2[n]
  BY Pow2Zero, Pow2Facts
<1>4. OnRow(st[0], n, 0)
  <2>1. LastOf(n - 1, Pow2[0], n)
    BY <1>3, LeafRow
  <2>2. index <= n - 1
    OBVIOUS
  <2>3. QED
    BY <1>2, <2>1, <2>2 DEF OnRow
<1>5. \A t \in Nat : t <= n => OnRow(st[t], n, t) /\ LastOf(st[t].node, Pow2[t], index + 1)
  <2> SUFFICES ASSUME NEW t \in Nat, t <= n
               PROVE  OnRow(st[t], n, t) /\ LastOf(st[t].node, Pow2[t], index + 1)
    OBVIOUS
  <2>1. 0 + t = t /\ index + 1 \in Nat
    OBVIOUS
  <2>2. OnRow(st[t], n, 0 + t)
    BY <1>1, <1>4, ClimbRows
  <2>3. LastOf(st[0].node, Pow2[0], index + 1)
    BY <1>2, <1>3, LeafRow
  <2>4. LastOf(st[t].node, Pow2[0 + t], index + 1)
    BY <1>1, <2>1, <2>3, NodeRows
  <2>5. QED
    BY <2>1, <2>2, <2>4
<1>6. /\ path = F[n][0]
      /\ F[1][index] = <<>>
      /\ \A len, s \in Nat : len >= 1 /\ s + len <= n => F[len][s] \in Seq(V)
  <2>1. Len(h) \in Nat
    OBVIOUS
  <2>2. path = F[n][0]
    BY <2>1, PathsDef DEF path, F
  <2>3. F[1][index] = <<>>
    BY <2>1, PathsDef DEF F
  <2>4. QED
    BY <2>2, <2>3, PathsTyped DEF F, V
<1>7. ASSUME NEW t \in Nat, t <= n PROVE pa[t] \in Seq(V)
  <2>1. PICK P \in Nat : P = Pow2[t] /\ P > 0
    BY Pow2Positive
  <2>2. st[t].node \in Nat /\ LastOf(st[t].last, P, n) /\ st[t].node <= st[t].last
    <3>1. OnRow(st[t], n, t)
      BY <1>5, <1>7
    <3>2. QED
      BY <2>1, <3>1, Zenon DEF OnRow
  <2>3. PICK len, s \in Nat : SliceOf(n, P, st[t].node, len, s)
    BY <2>1, <2>2, EntryValid
  <2>4. pa[t] = Entry(F, n, P, st[t].node)
    BY <1>7, <2>1
  <2>5. pa[t] = F[len][s]
    BY <2>3, <2>4 DEF SliceOf
  <2>6. QED
    BY <1>6, <2>3, <2>5 DEF SliceOf
<1>8. ASSUME NEW t \in Nat, t < n
      PROVE  pa[t + 1] = IF HasSibling(st[t])
                         THEN Append(pa[t], SiblingAt(h, Pow2[0 + t], st[t]))
                         ELSE pa[t]
  <2>1. PICK P \in Nat : P = Pow2[t] /\ Pow2[t + 1] = 2 * P
    BY Pow2Facts
  <2> DEFINE i == st[t].node
             last == st[t].last
             E(Q, m) == Entry(F, n, Q, m)
  <2>2. i \in Nat /\ LastOf(last, P, n) /\ i <= last /\ LastOf(i, P, index + 1)
    BY <1>5, <1>8, <2>1 DEF OnRow
  <2>3. st[t + 1].node = i \div 2
    <3>1. st[t + 1] = Round(st[t], path)
      BY <1>1, <1>8 DEF Climbs
    <3>2. QED
      BY <3>1, RoundIs
  <2>4. pa[t] = E(P, i) /\ pa[t + 1] = E(2 * P, i \div 2)
    BY <1>8, <2>1, <2>3
  <2>5. /\ i % 2 = 1 => E(2 * P, i \div 2) = Append(E(P, i), NodeAt(h, P, i - 1))
        /\ i % 2 # 1 /\ i < last => E(2 * P, i \div 2) = Append(E(P, i), NodeAt(h, P, i + 1))
        /\ i % 2 # 1 /\ ~(i < last) => E(2 * P, i \div 2) = E(P, i)
    <3>1. AddsSibling(F, h, n, P, i, last)
      BY <2>1, <2>2, PathUp DEF F
    <3>2. QED
      BY <3>1, Zenon DEF AddsSibling
  <2>6. 0 + t = t
    OBVIOUS
  <2> HIDE DEF E, pa
  <2>7. QED
    BY <2>1, <2>4, <2>5, <2>6, Zenon DEF HasSibling, SiblingAt
<1>9. Trail(pa, st, h, 0, n, V)
  BY <1>7, <1>8, Zenon DEF Trail
<1>10. pa[0] = <<>>
  <2>1. pa[0] = Entry(F, n, 1, index)
    BY <1>2, <1>3
  <2>2. QED
    BY <1>6, <2>1, LeafRow
<1>11. pa[n] = path
  <2>1. PICK P \in Nat : P = Pow2[n] /\ n <= P
    BY <1>3, Pow2Facts
  <2>2. LastOf(st[n].last, P, n) /\ st[n].node \in Nat /\ st[n].node <= st[n].last
    BY <1>5, <2>1 DEF OnRow
  <2>3. LastOf(0, P, n)
    BY <1>3, <2>1, TopRow
  <2>4. st[n].last = 0
    BY <2>2, <2>3, LastUnique
  <2>5. st[n].node = 0
    BY <2>2, <2>4
  <2>6. pa[n] = Entry(F, n, P, 0)
    BY <2>1, <2>5
  <2>7. Entry(F, n, P, 0) = F[n][0]
    <3>1. 0 * P = 0 /\ (0 + 1) * P = P /\ (IF P <= n THEN P ELSE n - 0) = n
      BY <2>1
    <3>2. QED
      BY <3>1, Zenon DEF Entry
  <2>8. QED
    BY <1>6, <2>6, <2>7
<1> HIDE DEF pa
<1>12. st[0].tr = NodeAt(h, Pow2[0], st[0].node) /\ st[0].used = Len(pa[0])
  BY <1>2, <1>3, <1>10, LeafRow DEF hash
<1>13. Climbs(st, pa[n], n)
  BY <1>1, <1>11
<1>14. st[n].used = Len(pa[n]) /\ st[n].tr = NodeAt(h, Pow2[0 + n], st[n].node)
  BY <1>4, <1>9, <1>12, <1>13, TrailClimb
<1>15. st[n].tr = RootOfHashes(h)
  <2>1. 0 + n = n /\ OnRow(st[n], n, n)
    BY <1>5
  <2>2. QED
    BY <1>3, <1>14, <2>1, ClimbTop
<1>16. QED
  BY <1>3, <1>11, <1>14, <1>15 DEF VerifyInclusion, st, start, hash, path

\* Inclusion proofs are exact for every ledger: the verifier accepts the path
\* the prover builds, and no path of any ledger of the size makes it accept a
\* hash that is not at the index claimed.
THEOREM InclusionCorrect == Spec => []InclusionIsExact
<1>1. TreeInv => InclusionIsExact
  <2> SUFFICES ASSUME TreeInv, Size > 0 PROVE
          LET root == RootOfHashes(ledger)
          IN  /\ \A i \in 0..(Size - 1) :
                    VerifyInclusion(ledger[i + 1], i, Size, InclusionPath(ledger, i), root)
              /\ \A d \in Ledgers(Size), i \in 0..(Size - 1) :
                    LET path == InclusionPath(d, i)
                    IN  \A h \in Hashes, j \in 0..(Size - 1) :
                          VerifyInclusion(h, j, Size, path, root) => ledger[j + 1] = h
    BY DEF InclusionIsExact
  <2>1. Size \in Nat /\ Len(ledger) = Size
    BY DEF TreeInv, Size
  <2> HIDE DEF Size
  <2>2. ASSUME NEW i \in 0..(Size - 1)
        PROVE  VerifyInclusion(ledger[i + 1], i, Size, InclusionPath(ledger, i), RootOfHashes(ledger))
    <3>1. i \in Nat /\ i < Size
      BY <2>1
    <3>2. QED
      BY <2>1, <3>1, InclusionComplete
  <2>3. ASSUME NEW path, NEW h, NEW j \in 0..(Size - 1),
               VerifyInclusion(h, j, Size, path, RootOfHashes(ledger))
        PROVE  ledger[j + 1] = h
    <3>1. j \in Nat
      BY <2>1
    <3>2. QED
      BY <2>1, <2>3, <3>1, InclusionSound
  <2>4. QED
    BY <2>2, <2>3
<1>2. QED
  BY <1>1, TreeInvariant, PTL

\* No path whatever, of any length and origin, makes the verifier accept
\* against the root of the ledger a hash that is not at the index claimed.
THEOREM InclusionBinds ==
    Spec => [](\A hash, path : \A index \in Nat :
                  VerifyInclusion(hash, index, Size, path, RootOfHashes(ledger))
                    => ledger[index + 1] = hash)
<1>1. TreeInv => \A hash, path : \A index \in Nat :
          VerifyInclusion(hash, index, Size, path, RootOfHashes(ledger)) => ledger[index + 1] = hash
  <2> SUFFICES ASSUME TreeInv, NEW hash, NEW path, NEW index \in Nat,
                      VerifyInclusion(hash, index, Size, path, RootOfHashes(ledger))
               PROVE  ledger[index + 1] = hash
    OBVIOUS
  <2>1. Size \in Nat /\ Len(ledger) = Size
    BY DEF TreeInv, Size
  <2>2. QED
    BY <2>1, InclusionSound, Zenon
<1>2. QED
  BY <1>1, TreeInvariant, PTL

-----------------------------------------------------------------------------
(***************************************************************************)
(* Consistency proofs.                                                     *)
(***************************************************************************)

ProofBody(R, from, to, f, len) ==
    [start \in {s \in 0..(to - len) : s < from /\ from <= s + len} |->
        IF from = start + len
        THEN IF start = 0 THEN <<>> ELSE <<R[len][start]>>
        ELSE LET k == LargestPowerOfTwo(len)
             IN  IF from <= start + k
                 THEN Append(f[k][start], R[len - k][start + k])
                 ELSE Append(f[len - k][start + k], R[k][start])]

Proofs(R, from, to) == CHOOSE f : f = [len \in 1..to |-> ProofBody(R, from, to, f, len)]

LEMMA ProofBodyLocal ==
    ASSUME NEW R, NEW from \in Nat, NEW to \in Nat, NEW len \in Nat, len >= 1, NEW f, NEW g,
           \A l \in Nat : 1 <= l /\ l < len => f[l] = g[l]
    PROVE  ProofBody(R, from, to, f, len) = ProofBody(R, from, to, g, len)
<1>1. CASE len = 1
  <2>1. \A start \in {s \in 0..(to - len) : s < from /\ from <= s + len} : from = start + len
    BY <1>1
  <2>2. QED
    BY <2>1, Zenon DEF ProofBody
<1>2. CASE len >= 2
  <2> DEFINE k == LargestPowerOfTwo(len)
  <2>1. k \in Nat /\ k >= 1 /\ k < len
    BY <1>2, SplitFacts
  <2> HIDE DEF k
  <2>2. f[k] = g[k] /\ f[len - k] = g[len - k]
    BY <2>1
  <2>3. QED
    BY <2>2, Zenon DEF ProofBody, k
<1>3. QED
  BY <1>1, <1>2

LEMMA ProofsExist ==
    ASSUME NEW R, NEW from \in Nat, NEW to \in Nat
    PROVE  \A n \in Nat : \E f : f = [len \in 1..n |-> ProofBody(R, from, to, f, len)]
<1> DEFINE T == {n \in Nat : \E f : f = [len \in 1..n |-> ProofBody(R, from, to, f, len)]}
<1>1. 0 \in T
  <2> DEFINE e == [len \in 1..0 |-> 0]
  <2>1. e = [len \in 1..0 |-> ProofBody(R, from, to, e, len)]
    OBVIOUS
  <2>2. QED
    BY <2>1, Zenon
<1>2. ASSUME NEW n \in Nat, n \in T PROVE n + 1 \in T
  <2>1. PICK f : f = [len \in 1..n |-> ProofBody(R, from, to, f, len)]
    BY <1>2
  <2> DEFINE g == [len \in 1..(n + 1) |-> ProofBody(R, from, to, f, len)]
  <2>2. \A l \in Nat : 1 <= l /\ l < n + 1 => f[l] = g[l]
    <3>1. ASSUME NEW l \in 1..n PROVE f[l] = g[l]
      <4>1. f[l] = ProofBody(R, from, to, f, l)
        BY <2>1, Zenon
      <4>2. QED
        BY <4>1
    <3> HIDE DEF g, T
    <3>2. QED
      BY <3>1
  <2> HIDE DEF g
  <2>3. ASSUME NEW len \in 1..(n + 1)
        PROVE  ProofBody(R, from, to, f, len) = ProofBody(R, from, to, g, len)
    BY <2>2, ProofBodyLocal
  <2>4. g = [len \in 1..(n + 1) |-> ProofBody(R, from, to, g, len)]
    BY <2>3, Zenon DEF g
  <2>5. n + 1 \in Nat
    OBVIOUS
  <2>6. QED
    BY <2>4, <2>5, Zenon
<1> HIDE DEF T
<1>3. \A n \in Nat : n \in T
  BY <1>1, <1>2, Induction
<1>4. QED
  BY <1>3 DEF T

\* The slices within the later tree that hold the last leaf of the earlier.
Holds(from, to, len, start) == len >= 1 /\ start + len <= to /\ start < from /\ from <= start + len

\* The recursion of subproof_with.
SubproofIs(F, R, from, len, start) ==
    F[len][start] = IF from = start + len
                    THEN IF start = 0 THEN <<>> ELSE <<R[len][start]>>
                    ELSE LET k == LargestPowerOfTwo(len)
                         IN  IF from <= start + k
                             THEN Append(F[k][start], R[len - k][start + k])
                             ELSE Append(F[len - k][start + k], R[k][start])

LEMMA ProofsDef ==
    ASSUME NEW R, NEW from \in Nat, NEW to \in Nat
    PROVE  /\ ConsistencyProof(R, from, to) = Proofs(R, from, to)[to][0]
           /\ \A len, start \in Nat :
                Holds(from, to, len, start) => SubproofIs(Proofs(R, from, to), R, from, len, start)
<1> DEFINE F == Proofs(R, from, to)
<1>1. F = [l \in 1..to |-> ProofBody(R, from, to, F, l)]
  BY ProofsExist, Zenon DEF Proofs
<1>2. ConsistencyProof(R, from, to) = F[to][0]
  BY Zenon DEF ConsistencyProof, Proofs, ProofBody
<1> HIDE DEF F
<1>3. ASSUME NEW len \in Nat, NEW start \in Nat, Holds(from, to, len, start)
      PROVE  SubproofIs(F, R, from, len, start)
  <2>1. len \in 1..to /\ start \in {s \in 0..(to - len) : s < from /\ from <= s + len}
    BY <1>3 DEF Holds
  <2>2. F[len] = ProofBody(R, from, to, F, len)
    BY <1>1, <2>1, Zenon
  <2>3. QED
    BY <2>1, <2>2, Zenon DEF ProofBody, SubproofIs
<1>4. QED
  BY <1>2, <1>3, Zenon DEF F

LEMMA ProofsTyped ==
    ASSUME NEW R, NEW m \in Nat, NEW n \in Nat
    PROVE  \A len, start \in Nat : Holds(m, n, len, start) =>
             Proofs(R, m, n)[len][start] \in Seq(HashesOf(R, n))
<1> DEFINE F == Proofs(R, m, n)
           V == HashesOf(R, n)
           T == {len \in Nat : \A start \in Nat : Holds(m, n, len, start) => F[len][start] \in Seq(V)}
<1>1. \A l, s \in 0..n : R[l][s] \in V
  BY DEF HashesOf
<1>2. ASSUME NEW len \in Nat, \A l \in Nat : l < len => l \in T
      PROVE  len \in T
  <2> SUFFICES ASSUME NEW start \in Nat, Holds(m, n, len, start)
               PROVE  F[len][start] \in Seq(V)
    OBVIOUS
  <2> DEFINE k == LargestPowerOfTwo(len)
  <2>1. F[len][start] = IF m = start + len
                        THEN IF start = 0 THEN <<>> ELSE <<R[len][start]>>
                        ELSE IF m <= start + k
                             THEN Append(F[k][start], R[len - k][start + k])
                             ELSE Append(F[len - k][start + k], R[k][start])
    <3>1. SubproofIs(F, R, m, len, start)
      BY ProofsDef
    <3>2. QED
      BY <3>1, Zenon DEF SubproofIs
  <2>2. len >= 2 => k \in Nat /\ k >= 1 /\ k < len
    BY SplitFacts
  <2>3. len >= 1 /\ start + len <= n /\ start < m /\ m <= start + len
    BY DEF Holds
  <2> HIDE DEF F, V, k, T
  <2>4. CASE m = start + len
    <3>1. R[len][start] \in V
      BY <1>1, <2>3
    <3>2. <<>> \in Seq(V) /\ <<R[len][start]>> \in Seq(V)
      BY <3>1
    <3>3. QED
      BY <2>1, <2>4, <3>2, Zenon
  <2>5. CASE m # start + len /\ m <= start + k
    <3>1. len >= 2
      BY <2>3, <2>5
    <3>2. /\ k \in Nat /\ k >= 1 /\ k < len /\ start + k <= n
          /\ len - k \in 0..n /\ start + k \in 0..n
      BY <2>2, <2>3, <3>1
    <3>3. k \in T /\ Holds(m, n, k, start)
      BY <1>2, <2>3, <2>5, <3>2 DEF Holds
    <3>4. F[k][start] \in Seq(V) /\ R[len - k][start + k] \in V
      BY <1>1, <3>2, <3>3 DEF T
    <3>5. Append(F[k][start], R[len - k][start + k]) \in Seq(V)
      BY <3>4
    <3>6. QED
      BY <2>1, <2>5, <3>5, Zenon
  <2>6. CASE m # start + len /\ ~(m <= start + k)
    <3>1. len >= 2
      BY <2>3, <2>6
    <3>2. /\ k \in Nat /\ k >= 1 /\ k < len /\ start + k \in Nat /\ start + k < m
          /\ len - k \in Nat /\ len - k < len /\ len - k >= 1
          /\ (start + k) + (len - k) <= n /\ m <= (start + k) + (len - k)
          /\ k \in 0..n /\ start \in 0..n
      BY <2>2, <2>3, <2>6, <3>1
    <3>3. len - k \in T /\ Holds(m, n, len - k, start + k)
      BY <1>2, <3>2 DEF Holds
    <3>4. F[len - k][start + k] \in Seq(V) /\ R[k][start] \in V
      BY <1>1, <3>2, <3>3 DEF T
    <3>5. Append(F[len - k][start + k], R[k][start]) \in Seq(V)
      BY <3>4
    <3>6. QED
      BY <2>1, <2>6, <3>5, Zenon
  <2>7. QED
    BY <2>4, <2>5, <2>6
<1> HIDE DEF T
<1>3. \A len \in Nat : len \in T
  BY <1>2, StrongInduction
<1>4. QED
  BY <1>3 DEF T

\* A source of roots answers like hashing the slice.
AnswersFor(R, h, n) ==
    \A len, start \in Nat : len >= 1 /\ start + len <= n => R[len][start] = SliceRoots(h)[len][start]

\* The proof for a node's parent, above the node where the earlier tree ends.
LEMMA ProofUp ==
    ASSUME NEW h, NEW n \in Nat, Len(h) = n, NEW R, AnswersFor(R, h, n),
           NEW m \in Nat, m > 0, m < n,
           NEW j \in Nat, NEW P \in Nat, Pow2[j] = P,
           NEW last, LastOf(last, P, n), NEW i \in Nat, i <= last, LastOf(i, P, m),
           ~Full(i \div 2, 2 * P, m)
    PROVE  AddsSibling(Proofs(R, m, n), h, n, P, i, last)
<1> DEFINE c == i \div 2
           F == Proofs(R, m, n)
           E(Q, x) == Entry(F, n, Q, x)
<1>1. /\ c \in Nat
      /\ i % 2 = 1 => i = 2 * c + 1 /\ i - 1 = 2 * c
      /\ i % 2 # 1 => i = 2 * c /\ i + 1 = 2 * c + 1
  BY Halves
<1>2. \A Q, x : NodeAt(h, Q, x) = Entry(SliceRoots(h), n, Q, x)
  BY Zenon DEF NodeAt, Entry
<1>3. \A len, start \in Nat : Holds(m, n, len, start) => SubproofIs(F, R, m, len, start)
  BY ProofsDef
<1>4. LastOf(c, 2 * P, m) /\ ~Full(c, 2 * P, m)
  BY LastHalves
<1> HIDE DEF c, F
<1>5. PICK X \in Nat : Spans(c, P, X)
  BY <1>1, Multiples
<1>6. P > 0 /\ last \in Nat
  BY Pow2Positive DEF LastOf
<1>7. 2 * X < m /\ m <= 2 * X + 2 * P /\ m # 2 * X + 2 * P
  <2>1. 2 * X < m /\ m <= 2 * X + 2 * P
    BY <1>4, <1>5, Zenon DEF LastOf, Spans
  <2>2. m # 2 * X + 2 * P
    BY <1>1, <1>4, <1>5, Zenon DEF Full, Spans
  <2>3. QED
    BY <2>1, <2>2
<1>8. ASSUME 2 * c + 1 <= last
      PROVE  E(2 * P, c) = IF m <= 2 * X + P
                           THEN Append(E(P, 2 * c), NodeAt(h, P, 2 * c + 1))
                           ELSE Append(E(P, 2 * c + 1), NodeAt(h, P, 2 * c))
  <2>1. 2 * c + 1 \in Nat
    BY <1>1
  <2>2. (2 * c + 1) * P < n
    BY <1>8, <2>1, UpToLast
  <2>3. 2 * X + P < n
    BY <1>5, <2>2, Zenon DEF Spans
  <2>4. PICK len \in Nat : Children(n, P, c, X, len)
    BY <1>1, <1>5, <1>6, <2>3, TwoChildren
  <2>5. /\ 2 * X \in Nat /\ 2 * X + len <= n /\ P < len /\ len <= 2 * P
        /\ 2 * X + len = n \/ 2 * X + len = 2 * X + 2 * P
    BY <2>4 DEF Children
  <2>6. LargestPowerOfTwo(len) = P
    BY <2>5, LargestPowerIs
  <2>7. Holds(m, n, len, 2 * X) /\ m # 2 * X + len
    BY <1>6, <1>7, <2>5 DEF Holds
  <2>8. F[len][2 * X] = IF m <= 2 * X + P
                        THEN Append(F[P][2 * X], R[len - P][2 * X + P])
                        ELSE Append(F[len - P][2 * X + P], R[P][2 * X])
    <3>1. SubproofIs(F, R, m, len, 2 * X)
      BY <1>3, <2>5, <2>7
    <3>2. QED
      BY <2>6, <2>7, <3>1, Zenon DEF SubproofIs
  <2>9. /\ Entry(F, n, 2 * P, c) = F[len][2 * X]
        /\ Entry(F, n, P, 2 * c) = F[P][2 * X]
        /\ Entry(F, n, P, 2 * c + 1) = F[len - P][2 * X + P]
    BY <2>4, Zenon DEF Children
  <2>10. /\ NodeAt(h, P, 2 * c) = R[P][2 * X]
         /\ NodeAt(h, P, 2 * c + 1) = R[len - P][2 * X + P]
    <3>1. /\ NodeAt(h, P, 2 * c) = SliceRoots(h)[P][2 * X]
          /\ NodeAt(h, P, 2 * c + 1) = SliceRoots(h)[len - P][2 * X + P]
      BY <1>2, <2>4, Zenon DEF Children
    <3>2. /\ P >= 1 /\ 2 * X + P <= n
          /\ len - P \in Nat /\ len - P >= 1 /\ 2 * X + P \in Nat /\ (2 * X + P) + (len - P) <= n
      BY <1>6, <2>3, <2>5
    <3>3. /\ R[P][2 * X] = SliceRoots(h)[P][2 * X]
          /\ R[len - P][2 * X + P] = SliceRoots(h)[len - P][2 * X + P]
      BY <2>5, <3>2, Zenon DEF AnswersFor
    <3>4. QED
      BY <3>1, <3>3
  <2>11. QED
    BY <2>8, <2>9, <2>10
<1>9. CASE i % 2 = 1
  <2>1. i = 2 * c + 1 /\ i - 1 = 2 * c /\ 2 * c + 1 <= last
    BY <1>1, <1>9
  <2>2. 2 * X + P < m
    BY <1>5, <2>1, Zenon DEF Spans, LastOf
  <2>3. ~(m <= 2 * X + P)
    BY <2>2
  <2>4. QED
    BY <1>8, <1>9, <2>1, <2>3, Zenon DEF c, F, AddsSibling
<1>10. CASE i % 2 # 1 /\ i < last
  <2>1. i = 2 * c /\ i + 1 = 2 * c + 1 /\ 2 * c + 1 <= last
    BY <1>1, <1>6, <1>10
  <2>2. m <= 2 * X + P
    BY <1>5, <2>1, Zenon DEF Spans, LastOf
  <2>3. QED
    BY <1>8, <1>10, <2>1, <2>2, Zenon DEF c, F, AddsSibling
<1>11. CASE i % 2 # 1 /\ ~(i < last)
  <2>1. last = 2 * c /\ i = 2 * c
    BY <1>1, <1>6, <1>11
  <2>2. 2 * X < n /\ n <= 2 * X + P
    BY <1>5, <2>1, Zenon DEF Spans, LastOf
  <2>3. E(2 * P, c) = E(P, 2 * c)
    BY <1>1, <1>5, <1>6, <2>2, OneChild
  <2>4. QED
    BY <1>11, <2>1, <2>3, Zenon DEF c, F, AddsSibling
<1>12. QED
  BY <1>9, <1>10, <1>11

SkipBody(from, to, f, t) ==
    IF t = 0
    THEN [node |-> from - 1, last |-> to - 1]
    ELSE LET p == f[t - 1]
         IN  IF p.node % 2 = 1 THEN [node |-> p.node \div 2, last |-> p.last \div 2] ELSE p

LEMMA SkipExists ==
    ASSUME NEW from, NEW to
    PROVE  \A n \in Nat : \E f : f = [t \in 0..n |-> SkipBody(from, to, f, t)]
<1> DEFINE T == {n \in Nat : \E f : f = [t \in 0..n |-> SkipBody(from, to, f, t)]}
<1>1. 0 \in T
  <2> DEFINE e == [t \in 0..0 |-> [node |-> from - 1, last |-> to - 1]]
  <2>1. e = [t \in 0..0 |-> SkipBody(from, to, e, t)]
    BY DEF SkipBody
  <2>2. QED
    BY <2>1
<1>2. ASSUME NEW n \in Nat, n \in T PROVE n + 1 \in T
  <2>1. PICK f : f = [t \in 0..n |-> SkipBody(from, to, f, t)]
    BY <1>2
  <2> DEFINE g == [t \in 0..(n + 1) |-> SkipBody(from, to, f, t)]
  <2>2. \A t \in 0..n : f[t] = g[t]
    <3> SUFFICES ASSUME NEW t \in 0..n PROVE f[t] = g[t]
      OBVIOUS
    <3>1. f[t] = SkipBody(from, to, f, t)
      BY <2>1, Zenon
    <3>2. QED
      BY <3>1
  <2> HIDE DEF g
  <2>3. ASSUME NEW t \in 0..(n + 1) PROVE SkipBody(from, to, f, t) = SkipBody(from, to, g, t)
    <3>1. t # 0 => f[t - 1] = g[t - 1]
      BY <2>2
    <3>2. QED
      BY <3>1, Zenon DEF SkipBody
  <2>4. g = [t \in 0..(n + 1) |-> SkipBody(from, to, g, t)]
    BY <2>3, Zenon DEF g
  <2>5. n + 1 \in Nat
    OBVIOUS
  <2>6. QED
    BY <2>4, <2>5, Zenon
<1> HIDE DEF T
<1>3. \A n \in Nat : n \in T
  BY <1>1, <1>2, Induction
<1>4. QED
  BY <1>3 DEF T

LEMMA SkipDef ==
    ASSUME NEW from \in Nat, NEW to
    PROVE  LET p == SkipComplete(from, to)
           IN  /\ p[0] = [node |-> from - 1, last |-> to - 1]
               /\ \A t \in Nat : t < from =>
                    p[t + 1] = IF p[t].node % 2 = 1
                               THEN [node |-> p[t].node \div 2, last |-> p[t].last \div 2]
                               ELSE p[t]
<1> DEFINE C == SkipComplete(from, to)
<1>1. C = CHOOSE f : f = [t \in 0..from |-> SkipBody(from, to, f, t)]
  BY Zenon DEF SkipComplete, SkipBody
<1>2. C = [t \in 0..from |-> SkipBody(from, to, C, t)]
  BY <1>1, SkipExists, Zenon
<1> HIDE DEF C
<1>3. C[0] = [node |-> from - 1, last |-> to - 1]
  <2>1. 0 \in 0..from
    OBVIOUS
  <2>2. C[0] = SkipBody(from, to, C, 0)
    BY <1>2, <2>1, Zenon
  <2>3. QED
    BY <2>2 DEF SkipBody
<1>4. ASSUME NEW t \in Nat, t < from
      PROVE  C[t + 1] = IF C[t].node % 2 = 1
                        THEN [node |-> C[t].node \div 2, last |-> C[t].last \div 2]
                        ELSE C[t]
  <2>1. t + 1 \in 0..from /\ t + 1 # 0 /\ (t + 1) - 1 = t
    BY <1>4
  <2>2. C[t + 1] = SkipBody(from, to, C, t + 1)
    BY <1>2, <2>1, Zenon
  <2>3. QED
    BY <2>1, <2>2, Zenon DEF SkipBody
<1>5. QED
  BY <1>3, <1>4, Zenon DEF C

\* The pair is on a row where the earlier tree ends with a complete node.
SkippedTo(p, m, n, j) ==
    /\ p.node \in Nat /\ Full(p.node, Pow2[j], m)
    /\ LastOf(p.last, Pow2[j], n) /\ p.node <= p.last

\* The complete subtrees are skipped up to the highest one, a left child.
LEMMA SkipReaches ==
    ASSUME NEW m \in Nat, m > 0, NEW n \in Nat, m <= n
    PROVE  LET p == SkipComplete(m, n)[m]
           IN  p.node % 2 # 1 /\ \E j \in Nat : SkippedTo(p, m, n, j)
<1> DEFINE C == SkipComplete(m, n)
           T == {t \in Nat : t <= m =>
                    /\ \E j \in Nat : SkippedTo(C[t], m, n, j)
                    /\ C[t].node % 2 = 1 => C[t].node + t < m}
<1>1. /\ C[0] = [node |-> m - 1, last |-> n - 1]
      /\ \A t \in Nat : t < m =>
           C[t + 1] = IF C[t].node % 2 = 1
                      THEN [node |-> C[t].node \div 2, last |-> C[t].last \div 2]
                      ELSE C[t]
  BY SkipDef
<1> HIDE DEF C
<1>2. 0 \in T
  <2>1. C[0].node = m - 1 /\ C[0].last = n - 1
    BY <1>1
  <2>2. Full(m - 1, 1, m) /\ LastOf(n - 1, 1, n) /\ m - 1 \in Nat /\ m - 1 <= n - 1
    BY DEF Full, LastOf
  <2>3. SkippedTo(C[0], m, n, 0)
    BY <2>1, <2>2, Pow2Zero DEF SkippedTo
  <2>4. C[0].node + 0 < m
    BY <2>1
  <2>5. QED
    BY <2>3, <2>4
<1>3. ASSUME NEW t \in Nat, t \in T PROVE t + 1 \in T
  <2> SUFFICES ASSUME t + 1 <= m
               PROVE  /\ \E j \in Nat : SkippedTo(C[t + 1], m, n, j)
                      /\ C[t + 1].node % 2 = 1 => C[t + 1].node + (t + 1) < m
    OBVIOUS
  <2>1. PICK j \in Nat : SkippedTo(C[t], m, n, j)
    BY <1>3
  <2>2. C[t].node % 2 = 1 => C[t].node + t < m
    BY <1>3
  <2>3. CASE C[t].node % 2 = 1
    <3> DEFINE i == C[t].node
               c == C[t].node \div 2
               last == C[t].last
    <3>1. C[t + 1] = [node |-> c, last |-> last \div 2]
      BY <1>1, <2>3
    <3>2. C[t + 1].node = c /\ C[t + 1].last = last \div 2
      BY <3>1
    <3>3. PICK P \in Nat : P = Pow2[j] /\ Pow2[j + 1] = 2 * P
      BY Pow2Facts
    <3>4. i \in Nat /\ Full(i, P, m) /\ LastOf(last, P, n) /\ i <= last /\ last \in Nat
      BY <2>1, <3>3 DEF SkippedTo, LastOf
    <3>5. c \in Nat /\ i = 2 * c + 1
      BY <2>3, <3>4, Halves
    <3>6. c <= last \div 2
      BY <3>4
    <3> HIDE DEF c, i, last
    <3>7. Full(c, 2 * P, m)
      BY <3>4, <3>5, FullUp
    <3>8. LastOf(last \div 2, 2 * P, n)
      BY <3>4, LastHalves
    <3>9. SkippedTo(C[t + 1], m, n, j + 1)
      BY <3>2, <3>3, <3>5, <3>6, <3>7, <3>8 DEF SkippedTo
    <3>10. c + (t + 1) < m
      BY <2>2, <2>3, <3>5 DEF i
    <3>11. j + 1 \in Nat
      OBVIOUS
    <3>12. C[t + 1].node + (t + 1) < m
      BY <3>2, <3>10
    <3>13. QED
      BY <3>9, <3>11, <3>12, Zenon
  <2>4. CASE C[t].node % 2 # 1
    <3>1. t < m
      OBVIOUS
    <3>2. C[t + 1] = C[t]
      BY <1>1, <2>4, <3>1, Zenon
    <3>3. QED
      BY <2>1, <2>4, <3>2
  <2>5. QED
    BY <2>3, <2>4
<1> HIDE DEF T
<1>4. \A t \in Nat : t \in T
  BY <1>2, <1>3, Induction
<1>5. /\ \E j \in Nat : SkippedTo(C[m], m, n, j)
      /\ C[m].node % 2 = 1 => C[m].node + m < m
  BY <1>4 DEF T
<1>6. C[m].node \in Nat
  BY <1>5 DEF SkippedTo
<1>7. C[m].node % 2 # 1
  BY <1>5, <1>6
<1>8. QED
  BY <1>5, <1>7 DEF C

\* The slice of the node that holds the last leaf of the earlier tree.
HoldsAt(m, n, P, i, len, s) == Holds(m, n, len, s) /\ \A f : Entry(f, n, P, i) = f[len][s]

LEMMA HoldsLast ==
    ASSUME NEW m \in Nat, NEW n \in Nat, m <= n, NEW P \in Nat, P > 0, NEW i, LastOf(i, P, m)
    PROVE  \E len, s \in Nat : HoldsAt(m, n, P, i, len, s)
<1>1. i \in Nat
  BY DEF LastOf
<1>2. PICK s, e \in Nat : Bounds(i, P, s, e)
  BY <1>1, BoundsExist
<1>3. s < m /\ m <= e
  BY <1>2, Zenon DEF LastOf, Bounds
<1>4. e = s + P
  BY <1>2 DEF Bounds
<1> DEFINE len == IF e <= n THEN P ELSE n - s
<1>5. len \in Nat /\ Holds(m, n, len, s)
  BY <1>3, <1>4 DEF Holds
<1>6. \A f : Entry(f, n, P, i) = f[len][s]
  BY <1>2, Zenon DEF Entry, Bounds
<1> HIDE DEF len
<1>7. HoldsAt(m, n, P, i, len, s)
  BY <1>5, <1>6 DEF HoldsAt
<1>8. QED
  BY <1>5, <1>7

\* On the topmost row there is one node, with the slice of all the leaves.
LEMMA TopNode ==
    ASSUME NEW n \in Nat, n > 0, NEW j \in Nat, n <= Pow2[j], NEW s, OnRow(s, n, j)
    PROVE  s.node = 0 /\ \A f : Entry(f, n, Pow2[j], s.node) = f[n][0]
<1>1. PICK P \in Nat : P = Pow2[j] /\ n <= P
  BY Pow2Facts
<1>2. LastOf(s.last, P, n) /\ s.node \in Nat /\ s.node <= s.last
  BY <1>1 DEF OnRow
<1>3. 0 * P = 0 /\ (0 + 1) * P = P /\ (IF P <= n THEN P ELSE n - 0) = n
  BY <1>1
<1>4. LastOf(0, P, n)
  BY <1>1, <1>3 DEF LastOf
<1>5. s.last = 0
  BY <1>2, <1>4, LastUnique
<1>6. s.node = 0
  BY <1>2, <1>5
<1>7. \A f : Entry(f, n, P, 0) = f[n][0]
  BY <1>3, Zenon DEF Entry
<1>8. QED
  BY <1>1, <1>6, <1>7

\* The siblings that the proof holds are those of the climb.
LEMMA ProofTrail ==
    ASSUME NEW h, NEW n \in Nat, Len(h) = n, NEW R, AnswersFor(R, h, n),
           NEW m \in Nat, m > 0, m < n, NEW j \in Nat,
           NEW st, NEW path, Climbs(st, path, n), OnRow(st[0], n, j),
           Full(st[0].node, Pow2[j], m), st[0].node % 2 # 1,
           NEW pa, pa = [t \in 0..n |-> Entry(Proofs(R, m, n), n, Pow2[j + t], st[t].node)]
    PROVE  Trail(pa, st, h, j, n, HashesOf(R, n))
<1> DEFINE F == Proofs(R, m, n)
           V == HashesOf(R, n)
           T == {t \in Nat : t <= n => ~(st[t].node % 2 = 1 /\ Full(st[t].node, Pow2[j + t], m))}
<1>1. \A t \in Nat : t <= n => OnRow(st[t], n, j + t)
  BY ClimbRows
<1>2. \A t \in Nat : t <= n => LastOf(st[t].node, Pow2[j + t], m)
  <2>1. Pow2[j] \in Nat /\ Pow2[j] > 0
    BY Pow2Positive
  <2>2. LastOf(st[0].node, Pow2[j], m)
    BY <2>1, FullLast
  <2>3. QED
    BY <2>2, NodeRows
<1>3. \A t \in Nat : t < n => st[t + 1] = Round(st[t], path)
  BY DEF Climbs
<1>4. ASSUME NEW t \in Nat, t < n, t \in T
      PROVE  ~Full(st[t].node \div 2, 2 * Pow2[j + t], m)
  <2>1. j + t \in Nat /\ t <= n
    BY <1>4
  <2>2. PICK P \in Nat : P = Pow2[j + t] /\ P > 0
    BY <2>1, Pow2Positive
  <2>3. LastOf(st[t].node, P, m)
    BY <1>2, <2>1, <2>2
  <2>4. PICK c : c = st[t].node \div 2
    OBVIOUS
  <2>5. c \in Nat
    BY <2>3, <2>4, Halves DEF LastOf
  <2>6. SUFFICES ASSUME Full(c, 2 * P, m) PROVE FALSE
    BY <2>2, <2>4
  <2>7. Full(2 * c + 1, P, m)
    BY <2>5, <2>6, FullUp
  <2>8. st[t].node = 2 * c + 1
    BY <2>2, <2>3, <2>7, FullLast, LastUnique
  <2>9. st[t].node % 2 = 1 /\ Full(st[t].node, Pow2[j + t], m)
    BY <2>2, <2>5, <2>7, <2>8
  <2>10. QED
    BY <1>4, <2>1, <2>9
<1>5. 0 \in T
  OBVIOUS
<1>6. ASSUME NEW t \in Nat, t \in T PROVE t + 1 \in T
  <2> SUFFICES ASSUME t + 1 <= n PROVE ~Full(st[t + 1].node, Pow2[j + (t + 1)], m)
    OBVIOUS
  <2>1. t < n /\ j + t \in Nat /\ (j + t) + 1 = j + (t + 1)
    OBVIOUS
  <2>2. Pow2[j + (t + 1)] = 2 * Pow2[j + t]
    BY <2>1, Pow2Facts
  <2>3. st[t + 1].node = st[t].node \div 2
    <3>1. st[t + 1] = Round(st[t], path)
      BY <1>3, <2>1
    <3>2. QED
      BY <3>1, RoundIs
  <2>4. QED
    BY <1>4, <1>6, <2>1, <2>2, <2>3
<1> HIDE DEF T
<1>7. \A t \in Nat : t \in T
  BY <1>5, <1>6, Induction
<1>8. ASSUME NEW t \in Nat, t <= n PROVE pa[t] \in Seq(V)
  <2>1. j + t \in Nat
    OBVIOUS
  <2>2. PICK P \in Nat : P = Pow2[j + t] /\ P > 0
    BY <2>1, Pow2Positive
  <2>3. LastOf(st[t].node, P, m)
    BY <1>2, <1>8, <2>2
  <2>4. PICK len, s \in Nat : HoldsAt(m, n, P, st[t].node, len, s)
    <3>1. m <= n
      OBVIOUS
    <3>2. \E len, s \in Nat : HoldsAt(m, n, P, st[t].node, len, s)
      BY <2>2, <2>3, <3>1, HoldsLast, Zenon
    <3>3. QED
      BY <3>2
  <2>5. pa[t] = F[len][s]
    <3>1. pa[t] = Entry(F, n, P, st[t].node)
      BY <1>8, <2>2
    <3>2. QED
      BY <2>4, <3>1, Zenon DEF HoldsAt
  <2>6. QED
    BY <2>4, <2>5, ProofsTyped DEF HoldsAt
<1>9. ASSUME NEW t \in Nat, t < n
      PROVE  pa[t + 1] = IF HasSibling(st[t])
                         THEN Append(pa[t], SiblingAt(h, Pow2[j + t], st[t]))
                         ELSE pa[t]
  <2>1. j + t \in Nat /\ (j + t) + 1 = j + (t + 1) /\ t <= n /\ t \in 0..n /\ t + 1 \in 0..n
    BY <1>9
  <2>2. PICK P \in Nat : P = Pow2[j + t] /\ Pow2[j + (t + 1)] = 2 * P
    BY <2>1, Pow2Facts
  <2> DEFINE i == st[t].node
             last == st[t].last
             E(Q, x) == Entry(F, n, Q, x)
  <2>3. OnRow(st[t], n, j + t) /\ LastOf(st[t].node, Pow2[j + t], m)
    BY <1>1, <1>2, <2>1
  <2>4. i \in Nat /\ LastOf(last, P, n) /\ i <= last /\ LastOf(i, P, m)
    BY <2>2, <2>3, Zenon DEF OnRow
  <2>5. ~Full(i \div 2, 2 * P, m)
    BY <1>4, <1>7, <1>9, <2>2
  <2>6. st[t + 1].node = i \div 2
    BY <1>3, <1>9, RoundIs
  <2>7. pa[t] = E(P, i) /\ pa[t + 1] = E(2 * P, i \div 2)
    BY <2>1, <2>2, <2>6
  <2>8. AddsSibling(F, h, n, P, i, last)
    BY <2>1, <2>2, <2>4, <2>5, ProofUp
  <2>9. /\ i % 2 = 1 => E(2 * P, i \div 2) = Append(E(P, i), NodeAt(h, P, i - 1))
        /\ i % 2 # 1 /\ i < last => E(2 * P, i \div 2) = Append(E(P, i), NodeAt(h, P, i + 1))
        /\ i % 2 # 1 /\ ~(i < last) => E(2 * P, i \div 2) = E(P, i)
    BY <2>8, Zenon DEF AddsSibling
  <2> HIDE DEF E
  <2>10. QED
    BY <2>2, <2>7, <2>9, Zenon DEF HasSibling, SiblingAt
<1>10. QED
  BY <1>8, <1>9, Zenon DEF Trail

\* The other side of the climb goes through the earlier tree, of which it
\* is always at the last node of the row.
LEMMA OldClimb ==
    ASSUME NEW h, NEW g, NEW m \in Nat, Len(g) = m, Agree(h, g, m),
           NEW st, NEW path, NEW rounds \in Nat, Climbs(st, path, rounds),
           NEW j \in Nat, LastOf(st[0].node, Pow2[j], m),
           \A t \in Nat : t < rounds => Guided(h, j + t, st[t], path),
           st[0].fr = NodeAt(g, Pow2[j], st[0].node)
    PROVE  \A t \in Nat : t <= rounds => st[t].fr = NodeAt(g, Pow2[j + t], st[t].node)
<1> DEFINE T == {t \in Nat : t <= rounds => st[t].fr = NodeAt(g, Pow2[j + t], st[t].node)}
<1>1. \A t \in Nat : t <= rounds => LastOf(st[t].node, Pow2[j + t], m)
  BY NodeRows
<1>2. 0 \in T
  <2>1. j + 0 = j
    OBVIOUS
  <2>2. QED
    BY <2>1
<1>3. ASSUME NEW t \in Nat, t \in T PROVE t + 1 \in T
  <2> SUFFICES ASSUME t + 1 <= rounds
               PROVE  st[t + 1].fr = NodeAt(g, Pow2[j + (t + 1)], st[t + 1].node)
    OBVIOUS
  <2>1. /\ t < rounds /\ t <= rounds /\ j + t \in Nat /\ (j + t) + 1 = j + (t + 1)
        /\ st[t].fr = NodeAt(g, Pow2[j + t], st[t].node)
    BY <1>3
  <2>2. PICK P \in Nat : P = Pow2[j + t] /\ P > 0 /\ Pow2[j + (t + 1)] = 2 * P
    BY <2>1, Pow2Facts, Pow2Positive
  <2>3. st[t + 1] = Round(st[t], path)
    BY <2>1 DEF Climbs
  <2>4. PICK i : i = st[t].node
    OBVIOUS
  <2>5. LastOf(i, P, m) /\ i \in Nat /\ i <= i /\ ~(i < i)
    <3>1. LastOf(i, P, m)
      BY <1>1, <2>1, <2>2, <2>4
    <3>2. QED
      BY <3>1 DEF LastOf
  <2>6. /\ i % 2 = 1 => NodeAt(g, 2 * P, i \div 2) = NodeHash(NodeAt(g, P, i - 1), NodeAt(g, P, i))
        /\ i % 2 # 1 => NodeAt(g, 2 * P, i \div 2) = NodeAt(g, P, i)
    BY <2>1, <2>2, <2>5, NodeUp
  <2>7. st[t + 1].node = i \div 2
    BY <2>3, <2>4, RoundIs
  <2>8. CASE i % 2 = 1
    <3>1. st[t + 1].fr = NodeHash(Sibling(st[t], path), st[t].fr)
      BY <2>3, <2>4, <2>8, RoundIs
    <3>2. Sibling(st[t], path) = NodeAt(h, P, i - 1)
      <4>1. Guided(h, j + t, st[t], path)
        BY <2>1
      <4>2. QED
        BY <2>2, <2>4, <2>8, <4>1, Zenon DEF Guided, HasSibling, SiblingAt
    <3>3. NodeAt(h, P, i - 1) = NodeAt(g, P, i - 1)
      <4>1. i - 1 \in Nat /\ i - 1 < i
        BY <2>5, <2>8
      <4>2. PICK s, e \in Nat : Bounds(i - 1, P, s, e)
        BY <4>1, BoundsExist
      <4>3. e < m
        BY <2>5, <4>1, <4>2, BeforeLast
      <4>4. e <= m
        BY <4>3
      <4>5. QED
        BY <2>2, <4>1, <4>2, <4>4, NodeShared
    <3>4. st[t].fr = NodeAt(g, P, i)
      BY <2>1, <2>2, <2>4
    <3>5. QED
      BY <2>2, <2>6, <2>7, <2>8, <3>1, <3>2, <3>3, <3>4
  <2>9. CASE i % 2 # 1
    <3>1. st[t + 1].fr = st[t].fr
      BY <2>3, <2>4, <2>9, RoundIs
    <3>2. st[t].fr = NodeAt(g, P, i)
      BY <2>1, <2>2, <2>4
    <3>3. QED
      BY <2>2, <2>6, <2>7, <2>9, <3>1, <3>2
  <2>10. QED
    BY <2>8, <2>9
<1> HIDE DEF T
<1>4. \A t \in Nat : t \in T
  BY <1>2, <1>3, Induction
<1>5. QED
  BY <1>4 DEF T

\* The node where the earlier tree ends, in either tree.
LEMMA SeedNode ==
    ASSUME NEW h, NEW g, NEW m \in Nat, m > 0, Len(g) = m, Agree(h, g, m),
           NEW j \in Nat, NEW i, Full(i, Pow2[j], m)
    PROVE  /\ i \in Nat
           /\ NodeAt(h, Pow2[j], i) = NodeAt(g, Pow2[j], i)
           /\ i = 0 => NodeAt(g, Pow2[j], i) = RootOfHashes(g)
<1>1. PICK P \in Nat : P = Pow2[j] /\ P > 0
  BY Pow2Positive
<1>2. i \in Nat /\ Full(i, P, m)
  BY <1>1 DEF Full
<1>3. PICK s, e \in Nat : Bounds(i, P, s, e)
  BY <1>2, BoundsExist
<1>4. e = m
  BY <1>2, <1>3, Zenon DEF Full, Bounds
<1>5. e <= m
  BY <1>4
<1>6. NodeAt(h, P, i) = NodeAt(g, P, i)
  BY <1>1, <1>2, <1>3, <1>5, NodeShared
<1>7. i = 0 => NodeAt(g, P, i) = RootOfHashes(g)
  <2> SUFFICES ASSUME i = 0 PROVE NodeAt(g, P, 0) = RootOfHashes(g)
    OBVIOUS
  <2>1. m <= P
    BY <1>3, <1>4 DEF Bounds
  <2>2. QED
    BY <2>1, TopRow
<1>8. QED
  BY <1>1, <1>2, <1>6, <1>7

\* The start of verify_consistency's climb, after the complete subtrees.
StartAt(p, seed) ==
    [node |-> p.node, last |-> p.last, fr |-> seed, tr |-> seed, used |-> IF p.node > 0 THEN 1 ELSE 0]

SeedOf(p, proof, fromRoot) == IF p.node > 0 THEN proof[1] ELSE fromRoot

LEMMA VerifyConsistencyIs ==
    ASSUME NEW m, NEW n, NEW proof, NEW fromRoot, NEW toRoot
    PROVE  VerifyConsistency(m, n, proof, fromRoot, toRoot) <=>
             /\ 0 < m /\ m <= n
             /\ IF m = n
                THEN proof = <<>> /\ fromRoot = toRoot
                ELSE LET p   == SkipComplete(m, n)[m]
                         end == Climb(StartAt(p, SeedOf(p, proof, fromRoot)), proof, n)[n]
                     IN  /\ p.node > 0 => proof # <<>>
                         /\ end.used = Len(proof)
                         /\ end.fr = fromRoot /\ end.tr = toRoot
BY Zenon DEF VerifyConsistency, RootsAgree, StartAt, SeedOf

\* No proof makes verify_consistency accept the root of another earlier tree.
LEMMA ConsistencySound ==
    ASSUME NEW h, NEW n \in Nat, Len(h) = n, NEW m \in Nat, m > 0, m < n,
           NEW g, Len(g) = m, Agree(h, g, m), NEW proof, NEW fromRoot,
           VerifyConsistency(m, n, proof, fromRoot, RootOfHashes(h))
    PROVE  fromRoot = RootOfHashes(g)
<1> DEFINE p == SkipComplete(m, n)[m]
           seed == SeedOf(p, proof, fromRoot)
           st == Climb(StartAt(p, seed), proof, n)
<1>1. st[n].fr = fromRoot /\ st[n].tr = RootOfHashes(h)
  <2>1. m # n
    OBVIOUS
  <2>2. QED
    BY <2>1, VerifyConsistencyIs, Zenon
<1>2. st[0] = StartAt(p, seed) /\ Climbs(st, proof, n)
  BY ClimbDef
<1>3. PICK j \in Nat : SkippedTo(p, m, n, j)
  BY SkipReaches
<1> HIDE DEF p, st
<1>4. st[0].node = p.node /\ st[0].last = p.last /\ st[0].fr = seed /\ st[0].tr = seed
  BY <1>2 DEF StartAt
<1>5. OnRow(st[0], n, j)
  BY <1>3, <1>4 DEF OnRow, SkippedTo
<1>6. Full(p.node, Pow2[j], m) /\ p.node \in Nat
  BY <1>3 DEF SkippedTo
<1>7. j + n \in Nat /\ n > 0 /\ n <= Pow2[j + n] /\ m <= Pow2[j + n]
  <2>1. j + n \in Nat
    OBVIOUS
  <2>2. Pow2[j + n] \in Nat /\ Pow2[j + n] > j + n
    BY <2>1, Pow2Facts
  <2>3. QED
    BY <2>1, <2>2
<1>8. OnRow(st[n], n, j + n)
  BY <1>2, <1>5, ClimbRows
<1>9. st[n].tr = NodeAt(h, Pow2[j + n], st[n].node)
  BY <1>1, <1>7, <1>8, ClimbTop
<1>10. \A t \in Nat : /\ t <= n => st[t].tr = NodeAt(h, Pow2[j + t], st[t].node)
                      /\ t < n => Guided(h, j + t, st[t], proof)
  BY <1>2, <1>5, <1>9, ClimbSound
<1>11. seed = NodeAt(h, Pow2[j], p.node)
  <2>1. 0 \in Nat /\ 0 <= n /\ j + 0 = j
    OBVIOUS
  <2>2. QED
    BY <1>4, <1>10, <2>1
<1>12. seed = NodeAt(g, Pow2[j], p.node) /\ (p.node = 0 => seed = RootOfHashes(g))
  BY <1>6, <1>11, SeedNode
<1>13. CASE p.node = 0
  BY <1>12, <1>13 DEF SeedOf
<1>14. CASE p.node # 0
  <2>1. LastOf(st[0].node, Pow2[j], m)
    <3>1. Pow2[j] \in Nat /\ Pow2[j] > 0
      BY Pow2Positive
    <3>2. QED
      BY <1>4, <1>6, <3>1, FullLast
  <2>2. st[0].fr = NodeAt(g, Pow2[j], st[0].node)
    BY <1>4, <1>12
  <2>3. \A t \in Nat : t < n => Guided(h, j + t, st[t], proof)
    BY <1>10
  <2>4. st[n].fr = NodeAt(g, Pow2[j + n], st[n].node)
    BY <1>2, <2>1, <2>2, <2>3, OldClimb
  <2>5. st[n].node = 0
    BY <1>7, <1>8, TopNode
  <2>6. PICK P \in Nat : P = Pow2[j + n]
    BY <1>7, Pow2Facts
  <2>7. NodeAt(g, P, 0) = RootOfHashes(g)
    BY <1>7, <2>6, TopRow
  <2>8. QED
    BY <1>1, <2>4, <2>5, <2>6, <2>7
<1>15. QED
  BY <1>13, <1>14

\* The proof starts with that node, unless it is the whole earlier tree.
LEMMA SeedEntry ==
    ASSUME NEW h, NEW n \in Nat, Len(h) = n, NEW R, AnswersFor(R, h, n),
           NEW m \in Nat, m > 0, m <= n, NEW j \in Nat, NEW i, Full(i, Pow2[j], m)
    PROVE  Entry(Proofs(R, m, n), n, Pow2[j], i) = IF i = 0 THEN <<>> ELSE <<NodeAt(h, Pow2[j], i)>>
<1> DEFINE F == Proofs(R, m, n)
<1>1. PICK P \in Nat : P = Pow2[j] /\ P > 0
  BY Pow2Positive
<1>2. i \in Nat /\ Full(i, P, m)
  BY <1>1 DEF Full
<1>3. PICK s, e \in Nat : Bounds(i, P, s, e)
  BY <1>2, BoundsExist
<1>4. e = m
  BY <1>2, <1>3, Zenon DEF Full, Bounds
<1>5. m = s + P /\ s + P <= n /\ P >= 1
  BY <1>1, <1>3, <1>4 DEF Bounds
<1>6. s = 0 <=> i = 0
  <2>1. i = 0 => s = 0
    BY <1>3 DEF Bounds
  <2>2. ASSUME i # 0 PROVE s # 0
    <3>1. LastOf(i, P, m)
      BY <1>1, <1>2, FullLast
    <3>2. PICK c \in Nat : i = c + 1
      <4>1. i - 1 \in Nat /\ i = (i - 1) + 1
        BY <1>2, <2>2
      <4>2. QED
        BY <4>1
    <3>3. PICK s1, e1 \in Nat : Bounds(c, P, s1, e1)
      BY BoundsExist
    <3>4. s = e1 /\ e1 = s1 + P
      BY <1>3, <3>2, <3>3, Zenon DEF Bounds
    <3>5. QED
      BY <1>1, <3>4
  <2>3. QED
    BY <2>1, <2>2
<1>7. Holds(m, n, P, s)
  BY <1>1, <1>5 DEF Holds
<1>8. F[P][s] = IF s = 0 THEN <<>> ELSE <<R[P][s]>>
  <2>1. SubproofIs(F, R, m, P, s)
    BY <1>7, ProofsDef
  <2>2. QED
    BY <1>5, <2>1, Zenon DEF SubproofIs
<1>9. R[P][s] = NodeAt(h, P, i)
  <2>1. R[P][s] = SliceRoots(h)[P][s]
    BY <1>5 DEF AnswersFor
  <2>2. NodeAt(h, P, i) = SliceRoots(h)[P][s]
    BY <1>3, <1>4, NodeComplete
  <2>3. QED
    BY <2>1, <2>2
<1>10. Entry(F, n, P, i) = F[P][s]
  <2>1. e <= n
    BY <1>4
  <2>2. QED
    BY <1>3, <2>1, Zenon DEF Entry, Bounds
<1>11. Entry(F, n, P, i) = IF i = 0 THEN <<>> ELSE <<NodeAt(h, P, i)>>
  <2>1. CASE i = 0
    BY <1>6, <1>8, <1>10, <2>1, Zenon
  <2>2. CASE i # 0
    BY <1>6, <1>8, <1>9, <1>10, <2>2, Zenon
  <2>3. QED
    BY <2>1, <2>2
<1>12. QED
  BY <1>1, <1>11

\* verify_consistency accepts what build_consistency_proof_with builds from
\* any source that answers like hashing the slice.
LEMMA ConsistencyComplete ==
    ASSUME NEW h, NEW n \in Nat, Len(h) = n, NEW m \in Nat, m > 0, m < n,
           NEW g, Len(g) = m, Agree(h, g, m), NEW R, AnswersFor(R, h, n)
    PROVE  VerifyConsistency(m, n, ConsistencyProof(R, m, n), RootOfHashes(g), RootOfHashes(h))
<1> DEFINE proof == ConsistencyProof(R, m, n)
           F == Proofs(R, m, n)
           p == SkipComplete(m, n)[m]
           seed == SeedOf(p, proof, RootOfHashes(g))
           st == Climb(StartAt(p, seed), proof, n)
<1>1. st[0] = StartAt(p, seed) /\ Climbs(st, proof, n)
  BY ClimbDef
<1>2. p.node % 2 # 1 /\ \E j \in Nat : SkippedTo(p, m, n, j)
  <2>1. m <= n
    OBVIOUS
  <2>2. QED
    BY <2>1, SkipReaches, Zenon
<1>3. PICK j \in Nat : SkippedTo(p, m, n, j)
  BY <1>2
<1>4. proof = F[n][0]
  BY ProofsDef
<1> HIDE DEF p, st, proof, F
<1>5. /\ st[0].node = p.node /\ st[0].last = p.last /\ st[0].fr = seed /\ st[0].tr = seed
      /\ st[0].used = IF p.node > 0 THEN 1 ELSE 0
  BY <1>1 DEF StartAt
<1>6. OnRow(st[0], n, j)
  BY <1>3, <1>5 DEF OnRow, SkippedTo
<1>7. Full(p.node, Pow2[j], m) /\ p.node \in Nat
  BY <1>3 DEF SkippedTo
<1>8. j + n \in Nat /\ n > 0 /\ n <= Pow2[j + n] /\ m <= Pow2[j + n]
  <2>1. j + n \in Nat
    OBVIOUS
  <2>2. Pow2[j + n] \in Nat /\ Pow2[j + n] > j + n
    BY <2>1, Pow2Facts
  <2>3. QED
    BY <2>1, <2>2
<1>9. OnRow(st[n], n, j + n)
  BY <1>1, <1>6, ClimbRows
<1> DEFINE pa == [t \in 0..n |-> Entry(F, n, Pow2[j + t], st[t].node)]
<1>10. Trail(pa, st, h, j, n, HashesOf(R, n))
  <2>1. Full(st[0].node, Pow2[j], m) /\ st[0].node % 2 # 1
    BY <1>2, <1>5, <1>7
  <2>2. QED
    BY <1>1, <1>6, <2>1, ProofTrail DEF F
<1>11. pa[n] = proof
  <2>1. \A f : Entry(f, n, Pow2[j + n], st[n].node) = f[n][0]
    BY <1>8, <1>9, TopNode
  <2>2. pa[n] = Entry(F, n, Pow2[j + n], st[n].node)
    OBVIOUS
  <2>3. QED
    BY <1>4, <2>1, <2>2
<1>12. pa[0] = IF p.node = 0 THEN <<>> ELSE <<NodeAt(h, Pow2[j], p.node)>>
  <2>1. j + 0 = j /\ m <= n
    OBVIOUS
  <2>2. pa[0] = Entry(F, n, Pow2[j], p.node)
    BY <1>5, <2>1
  <2>3. Entry(F, n, Pow2[j], p.node) = IF p.node = 0 THEN <<>> ELSE <<NodeAt(h, Pow2[j], p.node)>>
    BY <1>7, <2>1, SeedEntry DEF F
  <2>4. QED
    BY <2>2, <2>3
<1>13. Prefix(pa[0], proof)
  <2>1. Prefix(pa[0], pa[n])
    BY <1>10, TrailPrefix
  <2>2. QED
    BY <1>11, <2>1
<1> HIDE DEF pa
<1>14. proof \in Seq(HashesOf(R, n))
  BY <1>10, <1>11 DEF Trail
<1>15. /\ NodeAt(h, Pow2[j], p.node) = NodeAt(g, Pow2[j], p.node)
       /\ p.node = 0 => NodeAt(g, Pow2[j], p.node) = RootOfHashes(g)
  BY <1>7, SeedNode
<1>16. /\ p.node > 0 => proof # <<>>
       /\ seed = NodeAt(h, Pow2[j], p.node)
       /\ st[0].used = Len(pa[0])
  <2>1. CASE p.node = 0
    BY <1>5, <1>12, <1>15, <2>1 DEF SeedOf
  <2>2. CASE p.node # 0
    <3>1. p.node > 0
      BY <1>7, <2>2
    <3>2. Len(pa[0]) = 1 /\ pa[0][1] = NodeAt(h, Pow2[j], p.node)
      BY <1>12, <2>2
    <3>3. proof # <<>> /\ proof[1] = NodeAt(h, Pow2[j], p.node)
      BY <1>13, <1>14, <3>2 DEF Prefix
    <3>4. QED
      BY <1>5, <3>1, <3>2, <3>3 DEF SeedOf
  <2>3. QED
    BY <2>1, <2>2
<1> HIDE DEF seed
<1>17. \A t \in Nat : /\ t <= n => /\ st[t].used = Len(pa[t])
                                   /\ st[t].tr = NodeAt(h, Pow2[j + t], st[t].node)
                      /\ t < n => Guided(h, j + t, st[t], pa[n])
  <2>1. Climbs(st, pa[n], n) /\ st[0].tr = NodeAt(h, Pow2[j], st[0].node)
    BY <1>1, <1>5, <1>11, <1>16
  <2>2. QED
    BY <1>6, <1>10, <1>16, <2>1, TrailClimb
<1>18. st[n].used = Len(proof) /\ st[n].tr = RootOfHashes(h)
  <2>1. st[n].used = Len(pa[n]) /\ st[n].tr = NodeAt(h, Pow2[j + n], st[n].node)
    BY <1>17
  <2>2. QED
    BY <1>8, <1>9, <1>11, <2>1, ClimbTop
<1>19. st[n].fr = RootOfHashes(g)
  <2>1. LastOf(st[0].node, Pow2[j], m)
    <3>1. Pow2[j] \in Nat /\ Pow2[j] > 0
      BY Pow2Positive
    <3>2. QED
      BY <1>5, <1>7, <3>1, FullLast
  <2>2. st[0].fr = NodeAt(g, Pow2[j], st[0].node)
    BY <1>5, <1>15, <1>16
  <2>3. \A t \in Nat : t < n => Guided(h, j + t, st[t], proof)
    BY <1>11, <1>17
  <2>4. st[n].fr = NodeAt(g, Pow2[j + n], st[n].node)
    BY <1>1, <2>1, <2>2, <2>3, OldClimb
  <2>5. st[n].node = 0
    BY <1>8, <1>9, TopNode
  <2>6. PICK P \in Nat : P = Pow2[j + n]
    BY <1>8, Pow2Facts
  <2>7. NodeAt(g, P, 0) = RootOfHashes(g)
    BY <1>8, <2>6, TopRow
  <2>8. QED
    BY <2>4, <2>5, <2>6, <2>7
<1>20. QED
  <2>1. 0 < m /\ m <= n /\ m # n
    OBVIOUS
  <2>2. QED
    BY <1>16, <1>18, <1>19, <2>1, VerifyConsistencyIs, Zenon DEF p, st, seed, proof

\* The first m leaves of a ledger are a ledger with those leaves.
LEMMA Earlier ==
    ASSUME NEW S, NEW h \in Seq(S), NEW m \in Nat, m > 0, m <= Len(h)
    PROVE  LET g == SubSeq(h, 1, m)
           IN  g \in [1..m -> S] /\ Len(g) = m /\ Agree(h, g, m) /\ (m = Len(h) => g = h)
<1> DEFINE g == SubSeq(h, 1, m)
<1>1. g \in Seq(S) /\ Len(g) = m /\ Len(h) \in Nat
  OBVIOUS
<1>2. \A i \in Nat : i < m => g[i + 1] = h[i + 1]
  OBVIOUS
<1> HIDE DEF g
<1>3. g \in [1..m -> S]
  BY <1>1, LenProperties
<1>4. ASSUME m = Len(h) PROVE g = h
  <2>1. h \in [1..m -> S]
    BY <1>4, LenProperties
  <2>2. \A i \in 1..m : g[i] = h[i]
    BY DEF g
  <2>3. QED
    BY <1>3, <2>1, <2>2
<1>5. Agree(h, g, m)
  BY <1>1, <1>2 DEF Agree
<1>6. QED
  BY <1>1, <1>3, <1>4, <1>5 DEF g

\* Ledgers of one size with one root are the same ledger.
LEMMA RootDetermines ==
    ASSUME NEW m \in Nat, m > 0, NEW S, NEW a \in [1..m -> S], NEW b \in [1..m -> S],
           RootOfHashes(a) = RootOfHashes(b)
    PROVE  a = b
<1>1. Len(a) = m /\ Len(b) = m
  OBVIOUS
<1>2. SliceRoots(a)[m][0] = SliceRoots(b)[m][0]
  BY <1>1 DEF RootOfHashes
<1>3. SameLeaves(a, 0, b, 0, m)
  <2>1. Len(a) \in Nat /\ Len(b) \in Nat /\ m >= 1 /\ 0 + m <= Len(a) /\ 0 + m <= Len(b) /\ 0 \in Nat
    BY <1>1
  <2>2. QED
    BY <1>2, <2>1, RootsInjective
<1>4. ASSUME NEW i \in 1..m PROVE a[i] = b[i]
  <2>1. i - 1 \in Nat /\ i - 1 < m /\ 0 + (i - 1) + 1 = i
    OBVIOUS
  <2>2. a[0 + (i - 1) + 1] = b[0 + (i - 1) + 1]
    BY <1>3, <2>1 DEF SameLeaves
  <2>3. QED
    BY <2>1, <2>2
<1>5. QED
  BY <1>4

\* Whatever the proof, the earlier root it is accepted for is that of the
\* first leaves of the ledger.
LEMMA EarlierRootBinds ==
    ASSUME NEW S, NEW h \in Seq(S), NEW n \in Nat, Len(h) = n, NEW m \in Nat, m > 0, m <= n,
           NEW b \in [1..m -> S], NEW proof,
           VerifyConsistency(m, n, proof, RootOfHashes(b), RootOfHashes(h))
    PROVE  b = SubSeq(h, 1, m)
<1> DEFINE old == SubSeq(h, 1, m)
<1>1. old \in [1..m -> S] /\ Len(old) = m /\ Agree(h, old, m) /\ (m = Len(h) => old = h)
  BY Earlier
<1> HIDE DEF old
<1>2. RootOfHashes(b) = RootOfHashes(old)
  <2>1. CASE m < n
    BY <1>1, <2>1, ConsistencySound
  <2>2. CASE m = n
    <3>1. RootOfHashes(b) = RootOfHashes(h)
      BY <2>2, VerifyConsistencyIs, Zenon
    <3>2. old = h
      BY <1>1, <2>2
    <3>3. QED
      BY <3>1, <3>2
  <2>3. QED
    BY <2>1, <2>2
<1>3. b = old
  BY <1>1, <1>2, RootDetermines
<1>4. QED
  BY <1>3 DEF old

\* Consistency proofs are exact for every ledger and every earlier size: the
\* verifier accepts the proof of the consistency route, and no proof built
\* for any ledger of the size makes it accept the root of other leaves than
\* the first ones of the ledger.
THEOREM ConsistencyCorrect == Spec => []ConsistencyIsExact
<1>1. TreeInv /\ (\E U : levels \in Seq(Seq(U))) => ConsistencyIsExact
  <2> SUFFICES ASSUME TreeInv, NEW U, levels \in Seq(Seq(U)), NEW m \in 1..Size
               PROVE  LET root   == RootOfHashes(ledger)
                          old    == SubSeq(ledger, 1, m)
                          proofs == {SliceProof(d, m, Size) : d \in Ledgers(Size)}
                      IN  /\ VerifyConsistency(m, Size, TreeProof(levels, m, Size), RootOfHashes(old), root)
                          /\ \A b \in Ledgers(m) \ {old} : \A proof \in proofs :
                                ~VerifyConsistency(m, Size, proof, RootOfHashes(b), root)
    BY DEF ConsistencyIsExact
  <2> DEFINE root == RootOfHashes(ledger)
             old == SubSeq(ledger, 1, m)
             R == SubtreeRoots(levels)
  <2>1. ledger \in Seq(Hashes) /\ RowsOf(levels, ledger)
    BY DEF TreeInv
  <2>2. PICK n \in Nat : n = Size /\ Len(ledger) = n
    BY <2>1 DEF Size
  <2>3. m \in Nat /\ m > 0 /\ m <= n /\ m <= Len(ledger)
    BY <2>2
  <2>4. old \in [1..m -> Hashes] /\ Len(old) = m /\ Agree(ledger, old, m) /\ (m = Len(ledger) => old = ledger)
    BY <2>1, <2>3, Earlier
  <2>5. AnswersFor(R, ledger, n)
    BY <2>1, <2>2, SubtreeRootsAre DEF AnswersFor
  <2>6. TreeProof(levels, m, n) = ConsistencyProof(R, m, n)
    BY DEF TreeProof
  <2> HIDE DEF old, R
  <2>7. VerifyConsistency(m, n, ConsistencyProof(R, m, n), RootOfHashes(old), root)
    <3>1. CASE m < n
      BY <2>2, <2>3, <2>4, <2>5, <3>1, ConsistencyComplete
    <3>2. CASE m = n
      <4>1. ConsistencyProof(R, m, n) = <<>>
        <5>1. ConsistencyProof(R, m, n) = Proofs(R, m, n)[n][0]
          BY <2>3, ProofsDef
        <5>2. Holds(m, n, n, 0) /\ m = 0 + n
          BY <2>3, <3>2 DEF Holds
        <5>3. SubproofIs(Proofs(R, m, n), R, m, n, 0)
          BY <2>3, <5>2, ProofsDef
        <5>4. QED
          BY <5>1, <5>2, <5>3, Zenon DEF SubproofIs
      <4>2. old = ledger
        BY <2>2, <2>4, <3>2
      <4>3. 0 < m /\ m <= n
        BY <2>3
      <4>4. QED
        BY <3>2, <4>1, <4>2, <4>3, VerifyConsistencyIs, Zenon
    <3>3. QED
      BY <2>3, <3>1, <3>2
  <2>8. ASSUME NEW b \in Ledgers(m), NEW proof, VerifyConsistency(m, n, proof, RootOfHashes(b), root)
        PROVE  b = old
    <3>1. b \in [1..m -> Hashes]
      BY DEF Ledgers
    <3>2. QED
      BY <2>1, <2>2, <2>3, <2>8, <3>1, EarlierRootBinds DEF old
  <2>9. QED
    BY <2>2, <2>6, <2>7, <2>8 DEF old
<1>2. QED
  BY <1>1, TreeInvariant, PTL

\* No proof whatever, of any length and origin, makes the verifier accept an
\* earlier root of leaves that the ledger does not start with.
THEOREM ConsistencyBinds ==
    Spec => [](\A m \in 1..Size : \A b \in Ledgers(m) : \A proof :
                  VerifyConsistency(m, Size, proof, RootOfHashes(b), RootOfHashes(ledger))
                    => b = SubSeq(ledger, 1, m))
<1>1. TreeInv => \A m \in 1..Size : \A b \in Ledgers(m) : \A proof :
          VerifyConsistency(m, Size, proof, RootOfHashes(b), RootOfHashes(ledger))
            => b = SubSeq(ledger, 1, m)
  <2> SUFFICES ASSUME TreeInv, NEW m \in 1..Size, NEW b \in Ledgers(m), NEW proof,
                      VerifyConsistency(m, Size, proof, RootOfHashes(b), RootOfHashes(ledger))
               PROVE  b = SubSeq(ledger, 1, m)
    OBVIOUS
  <2>1. ledger \in Seq(Hashes) /\ Size \in Nat /\ Len(ledger) = Size
    BY DEF TreeInv, Size
  <2> HIDE DEF Size
  <2>2. m \in Nat /\ m > 0 /\ m <= Size
    BY <2>1
  <2>3. b \in [1..m -> Hashes]
    BY DEF Ledgers
  <2>4. QED
    BY <2>1, <2>2, <2>3, EarlierRootBinds
<1>2. QED
  BY <1>1, TreeInvariant, PTL
=============================================================================
