------------------------------- MODULE Loops --------------------------------
(***************************************************************************)
(* Facts about the loops of the models, which are written as recursive     *)
(* functions over 0..n: such a function exists, and what its first value   *)
(* has and every step keeps, its last value has.  They follow from the     *)
(* well-foundedness of the natural numbers.  Facts about lists are last.   *)
(***************************************************************************)
EXTENDS Integers, Sequences, SequenceTheorems, WellFoundedInduction, TLAPS

Less == {ss \in Nat \X Nat : ss[1] < ss[2]}

(***************************************************************************)
(* A non-empty set of natural numbers has a least element: the search of   *)
(* wl_list_for_each for the first entry with a property.                   *)
(***************************************************************************)
LEMMA Least ==
    ASSUME NEW T \in SUBSET Nat, T # {}
    PROVE  \E n \in T : \A m \in T : n <= m
<1>1. IsWellFoundedOn(Less, Nat)
  BY NatLessThanWellFounded DEF OpToRel, Less
<1>2. PICK x \in T : \A y \in T : ~(<<y, x>> \in Less)
  BY <1>1, WFMin
<1>3. ASSUME NEW m \in T PROVE x <= m
  <2>1. x \in Nat /\ m \in Nat
    OBVIOUS
  <2>2. ~(<<m, x>> \in Less)
    BY <1>2
  <2>3. ~(m < x)
    BY <2>1, <2>2 DEF Less
  <2> QED BY <2>1, <2>3
<1> QED BY <1>3

(***************************************************************************)
(* A bounded one has a greatest element: the last write of a loop.         *)
(***************************************************************************)
LEMMA Greatest ==
    ASSUME NEW n \in Nat, NEW T \in SUBSET (1..n), T # {}
    PROVE  \E x \in T : \A y \in T : y <= x
<1> DEFINE U == {n - x : x \in T}
<1>1. U \in SUBSET Nat /\ U # {}
  <2>1. ASSUME NEW x \in T PROVE n - x \in Nat
    OBVIOUS
  <2> QED BY <2>1
<1>2. PICK k \in U : \A j \in U : k <= j
  BY <1>1, Least
<1>3. PICK x \in T : k = n - x
  OBVIOUS
<1>4. ASSUME NEW y \in T PROVE y <= x
  <2>1. n - y \in U
    OBVIOUS
  <2> QED BY <1>2, <1>3, <2>1
<1> QED BY <1>4

\* Induction on the natural numbers, for a set of them.
LEMMA Induction ==
    ASSUME NEW S \in SUBSET Nat, 0 \in S, \A n \in S : n + 1 \in S
    PROVE  S = Nat
<1>1. SUFFICES ASSUME Nat \ S # {} PROVE FALSE
  OBVIOUS
<1>2. PICK n \in Nat \ S : \A m \in Nat \ S : n <= m
  BY <1>1, Least
<1>3. n # 0 /\ n - 1 \in Nat /\ n - 1 \in S
  BY <1>2
<1> QED BY <1>2, <1>3

(***************************************************************************)
(* What a loop has before its first round and each round carries on, it    *)
(* has after the last: S[i] are the states it may be in after round i.     *)
(***************************************************************************)
LEMMA LoopProgress ==
    ASSUME NEW S, NEW n \in Nat, NEW run,
           run[0] \in S[0],
           \A i \in 1..n : run[i - 1] \in S[i - 1] => run[i] \in S[i]
    PROVE  run[n] \in S[n]
<1> DEFINE K == {k \in Nat : k <= n => run[k] \in S[k]}
<1>1. 0 \in K
  OBVIOUS
<1>2. ASSUME NEW k \in K PROVE k + 1 \in K
  <2>1. CASE k + 1 > n
    BY <2>1
  <2>2. CASE k + 1 <= n
    <3>1. k + 1 \in 1..n /\ (k + 1) - 1 = k /\ run[k] \in S[k]
      BY <2>2
    <3> QED BY <3>1
  <2> QED BY <2>1, <2>2
<1>3. n \in K
  <2> HIDE DEF K
  <2>1. K \in SUBSET Nat
    BY DEF K
  <2> QED BY <1>1, <1>2, <2>1, Induction
<1> QED BY <1>3

LEMMA LoopInvariant ==
    ASSUME NEW S, NEW n \in Nat, NEW run,
           run[0] \in S,
           \A i \in 1..n : run[i - 1] \in S => run[i] \in S
    PROVE  run[n] \in S
<1> DEFINE R == [i \in 0..n |-> S]
<1>1. run[0] \in R[0] /\ \A i \in 1..n : run[i - 1] \in R[i - 1] => run[i] \in R[i]
  OBVIOUS
<1>2. R[n] = S
  OBVIOUS
<1> HIDE DEF R
<1> QED BY <1>1, <1>2, LoopProgress

(***************************************************************************)
(* A loop whose rounds are the function G on S has a run: the recursive    *)
(* function that the loop is written as.                                   *)
(***************************************************************************)
RunsOf(S, s, n, G) ==
    {f \in [0..n -> S] : f[0] = s /\ \A i \in 1..n : f[i] = G[<<i, f[i - 1]>>]}

LEMMA LoopRuns ==
    ASSUME NEW S, NEW s \in S, NEW n \in Nat, NEW G \in [(1..n) \X S -> S]
    PROVE  RunsOf(S, s, n, G) # {}
<1> DEFINE IsRun(f, k) ==
             f[0] = s /\ \A i \in 1..k : f[i] = G[<<i, f[i - 1]>>]
           K == {k \in Nat : k <= n => \E f \in [0..k -> S] : IsRun(f, k)}
<1>1. 0 \in K
  <2> DEFINE f == [i \in 0..0 |-> s]
  <2>1. f \in [0..0 -> S] /\ IsRun(f, 0)
    OBVIOUS
  <2> QED BY <2>1
<1>2. ASSUME NEW k \in K PROVE k + 1 \in K
  <2>1. SUFFICES ASSUME k + 1 <= n
                 PROVE  \E f \in [0..(k + 1) -> S] : IsRun(f, k + 1)
    OBVIOUS
  <2>2. PICK f \in [0..k -> S] : IsRun(f, k)
    BY <2>1
  <2> DEFINE g == [i \in 0..(k + 1) |->
                     IF i = k + 1 THEN G[<<k + 1, f[k]>>] ELSE f[i]]
  <2>3. <<k + 1, f[k]>> \in (1..n) \X S
    BY <2>1, <2>2
  <2>4. g \in [0..(k + 1) -> S]
    <3>1. G[<<k + 1, f[k]>>] \in S
      BY <2>3
    <3> HIDE DEF IsRun
    <3> QED BY <3>1, <2>2
  <2>5. g[0] = s
    BY <2>2
  <2>6. ASSUME NEW i \in 1..(k + 1) PROVE g[i] = G[<<i, g[i - 1]>>]
    <3>1. CASE i = k + 1
      <4>1. g[i - 1] = f[k] /\ g[i] = G[<<k + 1, f[k]>>]
        BY <3>1
      <4> QED BY <3>1, <4>1
    <3>2. CASE i # k + 1
      <4>1. i \in 1..k
        BY <3>2
      <4>2. g[i] = f[i] /\ g[i - 1] = f[i - 1]
        BY <4>1
      <4>3. f[i] = G[<<i, f[i - 1]>>]
        BY <2>2, <4>1
      <4> QED BY <4>2, <4>3
    <3> QED BY <3>1, <3>2
  <2> HIDE DEF g
  <2> QED BY <2>4, <2>5, <2>6
<1>3. K = Nat
  <2> HIDE DEF K
  <2>1. K \in SUBSET Nat
    BY DEF K
  <2> QED BY <1>1, <1>2, <2>1, Induction
<1>4. \E f \in [0..n -> S] : IsRun(f, n)
  <2>1. n \in K
    <3> HIDE DEF K
    <3> QED BY <1>3
  <2> QED BY <2>1
<1> QED BY <1>4 DEF RunsOf

LEMMA LoopExists ==
    ASSUME NEW S, NEW s \in S, NEW n \in Nat, NEW G \in [(1..n) \X S -> S]
    PROVE  \E f \in [0..n -> S] :
               f[0] = s /\ \A i \in 1..n : f[i] = G[<<i, f[i - 1]>>]
<1>1. RunsOf(S, s, n, G) # {}
  BY LoopRuns
<1> QED BY <1>1 DEF RunsOf

(***************************************************************************)
(* A recursive function on a finite structure exists: G[<<n, f>>] is its   *)
(* value at n, which depends on f at places of a lower rank only.          *)
(***************************************************************************)
Grounded(D, R, rank, G) ==
    \A n \in D, f, g \in [D -> R] :
        (\A m \in D : rank[m] < rank[n] => f[m] = g[m]) => G[<<n, f>>] = G[<<n, g>>]

Solutions(D, R, G) == {f \in [D -> R] : \A n \in D : f[n] = G[<<n, f>>]}

LEMMA RecursionExists ==
    ASSUME NEW D, NEW R, NEW r \in R, NEW N \in Nat, NEW rank \in [D -> 0..N],
           NEW G \in [D \X [D -> R] -> R], Grounded(D, R, rank, G)
    PROVE  Solutions(D, R, G) # {}
<1> DEFINE S == [D -> R]
           K == [p \in (1..(N + 2)) \X S |-> [n \in D |-> G[<<n, p[2]>>]]]
           s == [n \in D |-> r]
<1>1. s \in S /\ K \in [(1..(N + 2)) \X S -> S]
  <2>1. ASSUME NEW f \in S PROVE [n \in D |-> G[<<n, f>>]] \in S
    <3>1. ASSUME NEW n \in D PROVE G[<<n, f>>] \in R
      <4>1. <<n, f>> \in D \X [D -> R]
        OBVIOUS
      <4> QED BY <4>1
    <3> QED BY <3>1
  <2>2. s \in S
    OBVIOUS
  <2> HIDE DEF S
  <2> QED BY <2>1, <2>2
<1>2. PICK F : /\ F \in [0..(N + 2) -> S]
                /\ \A i \in 1..(N + 2) : F[i] = K[<<i, F[i - 1]>>]
  <2>1. N + 2 \in Nat
    OBVIOUS
  <2> HIDE DEF K, S, s
  <2>2. RunsOf(S, s, N + 2, K) # {}
    BY <1>1, <2>1, LoopRuns
  <2> QED BY <2>2 DEF RunsOf
<1>3. ASSUME NEW i \in 0..(N + 1), NEW n \in D
      PROVE  F[i] \in S /\ F[i + 1] \in S /\ F[i + 1][n] = G[<<n, F[i]>>]
  <2>1. i + 1 \in 1..(N + 2) /\ (i + 1) - 1 = i /\ i \in 0..(N + 2) /\ i + 1 \in 0..(N + 2)
    OBVIOUS
  <2>2. F[i + 1] = K[<<i + 1, F[i]>>]
    <3> HIDE DEF K, S
    <3> QED BY <1>2, <2>1
  <2>3. F[i] \in S /\ F[i + 1] \in S
    <3> HIDE DEF K, S
    <3> QED BY <1>2, <2>1
  <2>4. <<i + 1, F[i]>> \in (1..(N + 2)) \X S
    BY <2>1, <2>3
  <2>5. K[<<i + 1, F[i]>>] = [m \in D |-> G[<<m, F[i]>>]]
    <3> HIDE DEF S
    <3> QED BY <2>4
  <2> QED BY <2>2, <2>3, <2>5
<1> HIDE DEF K, S
<1> DEFINE P == {i \in Nat : i <= N + 1 =>
                   \A n \in D : rank[n] < i => F[i + 1][n] = F[i][n]}
<1>4. 0 \in P
  OBVIOUS
<1>5. ASSUME NEW i \in P PROVE i + 1 \in P
  <2>1. SUFFICES ASSUME i + 1 <= N + 1, NEW n \in D, rank[n] < i + 1
                 PROVE  F[i + 2][n] = F[i + 1][n]
    OBVIOUS
  <2>2. /\ F[i] \in S /\ F[i + 1] \in S
        /\ F[i + 1][n] = G[<<n, F[i]>>] /\ F[i + 2][n] = G[<<n, F[i + 1]>>]
    <3>1. i \in 0..(N + 1) /\ i + 1 \in 0..(N + 1) /\ (i + 1) + 1 = i + 2
      BY <2>1
    <3> QED BY <1>3, <3>1
  <2>3. \A m \in D : rank[m] < rank[n] => F[i + 1][m] = F[i][m]
    <3>1. \A m \in D : rank[m] < rank[n] => rank[m] < i
      BY <2>1
    <3> QED BY <2>1, <3>1
  <2>4. G[<<n, F[i + 1]>>] = G[<<n, F[i]>>]
    <3>1. F[i] \in [D -> R] /\ F[i + 1] \in [D -> R]
      BY <2>2 DEF S
    <3> HIDE DEF P
    <3> QED BY <2>3, <3>1 DEF Grounded
  <2> QED BY <2>2, <2>4
<1>6. N + 1 \in P
  <2> HIDE DEF P
  <2>1. P \in SUBSET Nat
    BY DEF P
  <2> QED BY <1>4, <1>5, <2>1, Induction
<1>7. ASSUME NEW n \in D PROVE F[N + 1][n] = G[<<n, F[N + 1]>>]
  <2>1. N + 1 \in 0..(N + 1) /\ rank[n] < N + 1
    OBVIOUS
  <2>2. F[(N + 1) + 1][n] = F[N + 1][n]
    BY <1>6, <2>1
  <2>3. F[(N + 1) + 1][n] = G[<<n, F[N + 1]>>]
    <3> HIDE DEF P
    <3> QED BY <1>3, <2>1
  <2> QED BY <2>2, <2>3
<1>8. F[N + 1] \in [D -> R]
  BY <1>2 DEF S
<1> QED BY <1>7, <1>8 DEF Solutions

-----------------------------------------------------------------------------
(***************************************************************************)
(* Lists.  One without an element twice loses what is taken out of it, and *)
(* gains what is put at its head.                                          *)
(***************************************************************************)
Distinct(s) == \A i, j \in DOMAIN s : s[i] = s[j] => i = j
Members(s) == {s[i] : i \in DOMAIN s}

LEMMA CutOut ==
    ASSUME NEW T, NEW s \in Seq(T), NEW p \in DOMAIN s, Distinct(s)
    PROVE  LET r == SubSeq(s, 1, p - 1) \o SubSeq(s, p + 1, Len(s))
           IN  r \in Seq(T) /\ Distinct(r) /\ Members(r) = Members(s) \ {s[p]}
<1> DEFINE r == SubSeq(s, 1, p - 1) \o SubSeq(s, p + 1, Len(s))
           n == Len(s)
           x == s[p]
<1>1. p \in 1..n /\ s[p] = x /\ n \in Nat /\ DOMAIN s = 1..n
  OBVIOUS
<1> HIDE DEF r, x
<1>2. /\ SubSeq(s, 1, p - 1) \in Seq(T) /\ Len(SubSeq(s, 1, p - 1)) = p - 1
      /\ \A k \in 1..(p - 1) : SubSeq(s, 1, p - 1)[k] = s[k]
  BY <1>1
<1>3. /\ SubSeq(s, p + 1, n) \in Seq(T) /\ Len(SubSeq(s, p + 1, n)) = n - p
      /\ \A k \in 1..(n - p) : SubSeq(s, p + 1, n)[k] = s[p + k]
  BY <1>1
<1>4. /\ r \in Seq(T) /\ DOMAIN r = 1..(n - 1)
      /\ \A k \in 1..(n - 1) : r[k] = IF k < p THEN s[k] ELSE s[k + 1]
  <2> DEFINE a == SubSeq(s, 1, p - 1)
             b == SubSeq(s, p + 1, n)
  <2>1. a \in Seq(T) /\ Len(a) = p - 1 /\ \A k \in 1..(p - 1) : a[k] = s[k]
    BY <1>2
  <2>2. b \in Seq(T) /\ Len(b) = n - p /\ \A k \in 1..(n - p) : b[k] = s[p + k]
    BY <1>3
  <2>3. r = a \o b
    BY DEF r
  <2> HIDE DEF a, b, n
  <2>4. /\ r \in Seq(T) /\ Len(r) = Len(a) + Len(b)
        /\ \A k \in 1..(Len(a) + Len(b)) :
             r[k] = IF k <= Len(a) THEN a[k] ELSE b[k - Len(a)]
    BY <2>1, <2>2, <2>3, ConcatProperties
  <2>5. Len(a) + Len(b) = n - 1 /\ DOMAIN r = 1..(n - 1)
    BY <1>1, <2>1, <2>2, <2>4
  <2>6. ASSUME NEW k \in 1..(n - 1)
        PROVE  r[k] = IF k < p THEN s[k] ELSE s[k + 1]
    <3>1. CASE k < p
      <4>1. k \in 1..(p - 1) /\ k <= Len(a)
        BY <1>1, <2>1, <3>1
      <4> QED BY <2>1, <2>4, <2>5, <3>1, <4>1
    <3>2. CASE ~(k < p)
      <4>1. k - Len(a) \in 1..(n - p) /\ ~(k <= Len(a)) /\ p + (k - Len(a)) = k + 1
        BY <1>1, <2>1, <3>2
      <4> QED BY <2>2, <2>4, <2>5, <3>2, <4>1
    <3> QED BY <3>1, <3>2
  <2> QED BY <2>4, <2>5, <2>6
<1>5. Distinct(r)
  <2> HIDE DEF n
  <2>1. ASSUME NEW i \in 1..(n - 1), NEW j \in 1..(n - 1), r[i] = r[j]
        PROVE  i = j
    <3> DEFINE at(k) == IF k < p THEN k ELSE k + 1
    <3>1. at(i) \in DOMAIN s /\ at(j) \in DOMAIN s /\ s[at(i)] = s[at(j)]
      <4>1. /\ at(i) \in 1..n /\ s[at(i)] = r[i]
            /\ at(j) \in 1..n /\ s[at(j)] = r[j]
        BY <1>1, <1>4
      <4> QED BY <1>1, <2>1, <4>1
    <3>2. at(i) = at(j)
      <4> HIDE DEF at
      <4> QED BY <3>1 DEF Distinct
    <3> QED BY <1>1, <3>2
  <2> QED BY <1>4, <2>1 DEF Distinct
<1>6. ASSUME NEW k \in 1..(n - 1) PROVE r[k] \in Members(s) \ {x}
  <2>1. PICK l \in DOMAIN s : l # p /\ r[k] = s[l]
    <3>1. CASE k < p
      BY <1>1, <1>4, <3>1
    <3>2. CASE ~(k < p)
      <4>1. k + 1 \in 1..n /\ k + 1 # p
        BY <1>1, <3>2
      <4> QED BY <1>1, <1>4, <3>2, <4>1
    <3> QED BY <3>1, <3>2
  <2> QED BY <1>1, <2>1 DEF Distinct, Members
<1>7. ASSUME NEW y \in Members(s) \ {x} PROVE y \in Members(r)
  <2>1. PICK j \in 1..n : s[j] = y
    BY DEF Members
  <2>2. j # p
    BY <1>1, <2>1
  <2>3. CASE j < p
    <3>1. j \in 1..(n - 1) /\ r[j] = y
      BY <1>1, <1>4, <2>1, <2>3
    <3> QED BY <1>4, <3>1 DEF Members
  <2>4. CASE j > p
    <3>1. j - 1 \in 1..(n - 1) /\ ~(j - 1 < p) /\ (j - 1) + 1 = j
      BY <1>1, <2>1, <2>4
    <3>2. r[j - 1] = y
      BY <1>4, <2>1, <3>1
    <3> QED BY <1>4, <3>1, <3>2 DEF Members
  <2> QED BY <1>1, <2>2, <2>3, <2>4
<1>8. Members(r) = Members(s) \ {x}
  BY <1>4, <1>6, <1>7 DEF Members
<1> QED BY <1>4, <1>5, <1>8 DEF r, x

LEMMA Prepended ==
    ASSUME NEW T, NEW s \in Seq(T), NEW x \in T, x \notin Members(s)
    PROVE  /\ <<x>> \o s \in Seq(T)
           /\ Members(<<x>> \o s) = {x} \cup Members(s)
           /\ Distinct(s) => Distinct(<<x>> \o s)
<1> DEFINE r == <<x>> \o s
           n == Len(s)
<1>1. /\ r \in Seq(T) /\ n \in Nat /\ DOMAIN r = 1..(n + 1) /\ DOMAIN s = 1..n
      /\ r[1] = x /\ \A k \in 1..n : r[k + 1] = s[k]
  OBVIOUS
<1> HIDE DEF r, n
<1>2. \A k \in 2..(n + 1) : k - 1 \in DOMAIN s /\ r[k] = s[k - 1]
  <2>1. ASSUME NEW k \in 2..(n + 1) PROVE k - 1 \in 1..n /\ (k - 1) + 1 = k
    BY <1>1
  <2> QED BY <1>1, <2>1
<1>3. DOMAIN r = {1} \cup 2..(n + 1)
  BY <1>1
<1>4. {x} \cup Members(s) \subseteq Members(r)
  <2>1. \A k \in 1..n : k + 1 \in DOMAIN r
    BY <1>1
  <2> QED BY <1>1, <1>3, <2>1 DEF Members
<1>5. Members(r) \subseteq {x} \cup Members(s)
  <2>1. ASSUME NEW k \in DOMAIN r PROVE r[k] \in {x} \cup Members(s)
    BY <1>1, <1>2, <1>3 DEF Members
  <2> QED BY <2>1 DEF Members
<1>6. ASSUME Distinct(s), NEW i \in DOMAIN r, NEW j \in DOMAIN r, r[i] = r[j]
      PROVE  i = j
  <2>1. \A k \in 2..(n + 1) : r[k] # x
    <3>1. \A l \in DOMAIN s : s[l] # x
      BY DEF Members
    <3> QED BY <1>2, <3>1, Zenon
  <2>2. CASE i = 1 \/ j = 1
    <3>1. r[i] = x /\ r[j] = x
      BY <1>1, <1>6, <2>2
    <3> QED BY <1>3, <2>1, <3>1
  <2>3. CASE i \in 2..(n + 1) /\ j \in 2..(n + 1)
    <3>1. /\ i - 1 \in DOMAIN s /\ j - 1 \in DOMAIN s
          /\ s[i - 1] = s[j - 1]
      BY <1>1, <1>2, <1>6, <2>3
    <3>2. i - 1 = j - 1
      BY <1>6, <3>1 DEF Distinct
    <3> QED BY <1>1, <2>3, <3>2
  <2> QED BY <1>3, <2>2, <2>3
<1>7. Distinct(s) => Distinct(r)
  BY <1>6 DEF Distinct
<1> QED BY <1>1, <1>4, <1>5, <1>7 DEF r
=============================================================================
