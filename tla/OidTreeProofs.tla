----------------------------- MODULE OidTreeProofs -----------------------------
(***************************************************************************)
(* What oid.py's search returns, for any finite set of OIDs: Before orders *)
(* OIDs totally; freeze puts each of them in its place; get_next is the    *)
(* least OID after the one given, has_descendants tells whether one has it *)
(* as a prefix.                                                            *)
(***************************************************************************)
EXTENDS OidTree, FiniteSetTheorems, FunctionTheorems, TLAPS

Oid == Seq(Nat)

LEMMA Least ==
  ASSUME NEW S \in SUBSET Nat, S # {}
  PROVE  \E x \in S : \A y \in S : x <= y
<1> DEFINE R == StrictSubsetOrdering(Nat)
           U == {0..x : x \in S}
<1>1. U \subseteq FiniteSubsetsOf(Nat) /\ U # {}
  <2>1. \A x \in S : IsFiniteSet(0..x) /\ 0..x \in SUBSET Nat
    BY FS_Interval
  <2> QED
    BY <2>1 DEF FiniteSubsetsOf
<1>2. IsWellFoundedOn(R, FiniteSubsetsOf(Nat))
  BY FS_StrictSubsetOrderingWellFounded
<1>4. \A x, y \in Nat : x < y => <<0..x, 0..y>> \in R
  <2> SUFFICES ASSUME NEW x \in Nat, NEW y \in Nat, x < y PROVE <<0..x, 0..y>> \in R
    OBVIOUS
  <2>1. 0..x \in SUBSET Nat /\ 0..y \in SUBSET Nat /\ 0..x \subseteq 0..y /\ y \in 0..y /\ y \notin 0..x
    OBVIOUS
  <2> QED
    BY <2>1 DEF StrictSubsetOrdering
<1> HIDE DEF R
<1>3. PICK T \in U : \A V \in U : ~ (<<V, T>> \in R)
  <2> HIDE DEF U
  <2> QED
    BY <1>1, <1>2, WFMin
<1>5. PICK x \in S : T = 0..x
  OBVIOUS
<1>6. ASSUME NEW y \in S PROVE ~(y < x)
  <2>1. 0..y \in U
    OBVIOUS
  <2> QED
    BY <1>3, <1>4, <1>5, <2>1
<1> QED
  BY <1>6
LEMMA PrefixIs ==
  ASSUME NEW s \in Seq(Nat), NEW t \in Seq(Nat)
  PROVE  IsPrefix(s, t) <=> Len(s) <= Len(t) /\ \A i \in 1..Len(s) : s[i] = t[i]
<1>1. CASE Len(s) <= Len(t)
  <2> DEFINE u == SubSeq(s, 1, Len(s))  v == SubSeq(t, 1, Len(s))
  <2>1. Len(s) \in Nat /\ Len(t) \in Nat
    OBVIOUS
  <2>2. u \in Seq(Nat) /\ v \in Seq(Nat) /\ Len(u) = Len(s) /\ Len(v) = Len(s)
    BY <1>1
  <2>3. \A i \in 1..Len(s) : u[i] = s[i] /\ v[i] = t[i]
    BY <1>1
  <2> HIDE DEF u, v
  <2>4. (\A i \in 1..Len(s) : u[i] = v[i]) => u = v
    BY <2>2
  <2>5. u = v <=> \A i \in 1..Len(s) : s[i] = t[i]
    BY <2>3, <2>4
  <2> QED
    BY <1>1, <2>5 DEF IsPrefix, u, v
<1>2. CASE ~(Len(s) <= Len(t))
  BY <1>2 DEF IsPrefix
<1> QED
  BY <1>1, <1>2
-----------------------------------------------------------------------------
(* a is before b from their i-th number on. *)
Differs(a, b, i) ==
  /\ i \in 1..(Len(a) + 1) /\ i <= Len(b)
  /\ \A j \in 1..(i - 1) : a[j] = b[j]
  /\ i = Len(a) + 1 \/ a[i] < b[i]

LEMMA SameSeq ==
  ASSUME NEW a \in Oid, NEW b \in Oid, Len(a) = Len(b), \A i \in 1..Len(a) : a[i] = b[i]
  PROVE  a = b
BY DEF Oid

LEMMA OidIs ==
  ASSUME NEW a \in Oid
  PROVE  Len(a) \in Nat /\ DOMAIN a = 1..Len(a) /\ \A i \in 1..Len(a) : a[i] \in Nat
BY DEF Oid

LEMMA BeforeIs ==
  ASSUME NEW a \in Oid, NEW b \in Oid
  PROVE  Before(a, b) <=> \E i \in Nat : Differs(a, b, i)
<1>1. ASSUME IsStrictPrefix(a, b) PROVE Differs(a, b, Len(a) + 1)
  <2>1. a # b /\ Len(a) <= Len(b) /\ \A i \in 1..Len(a) : a[i] = b[i]
    BY <1>1, PrefixIs DEF IsStrictPrefix, Oid
  <2>2. Len(a) # Len(b)
    BY <2>1, SameSeq
  <2> QED
    BY <2>1, <2>2, OidIs DEF Differs
<1>2. ASSUME NEW i \in DOMAIN a \cap DOMAIN b, a[i] < b[i], \A j \in 1..(i - 1) : a[j] = b[j]
      PROVE  i \in Nat /\ Differs(a, b, i)
  BY <1>2, OidIs DEF Differs
<1>3. ASSUME NEW i \in Nat, Differs(a, b, i) PROVE Before(a, b)
  <2>1. CASE i = Len(a) + 1
    <3>1. IsPrefix(a, b)
      BY <1>3, <2>1, PrefixIs, OidIs DEF Differs, Oid
    <3>2. Len(a) # Len(b)
      BY <1>3, <2>1, OidIs DEF Differs
    <3> QED
      BY <3>1, <3>2 DEF Before, IsStrictPrefix
  <2>2. CASE i # Len(a) + 1
    <3>1. i \in DOMAIN a \cap DOMAIN b
      BY <1>3, <2>2, OidIs DEF Differs
    <3>2. a[i] < b[i] /\ \A j \in 1..(i - 1) : a[j] = b[j]
      BY <1>3, <2>2 DEF Differs
    <3> QED
      BY <3>1, <3>2 DEF Before
  <2> QED
    BY <2>1, <2>2
<1>4. Len(a) + 1 \in Nat
  BY OidIs
<1>5. ASSUME Before(a, b) PROVE \E i \in Nat : Differs(a, b, i)
  BY <1>1, <1>2, <1>4, <1>5 DEF Before
<1> QED
  BY <1>3, <1>5

LEMMA BeforeIrreflexive == ASSUME NEW a \in Oid PROVE ~Before(a, a)
<1>1. ASSUME NEW i \in Nat, Differs(a, a, i) PROVE FALSE
  BY <1>1, OidIs DEF Differs
<1> QED
  BY <1>1, BeforeIs

LEMMA BeforeTransitive ==
  ASSUME NEW a \in Oid, NEW b \in Oid, NEW c \in Oid, Before(a, b), Before(b, c)
  PROVE  Before(a, c)
<1>1. PICK i \in Nat : Differs(a, b, i)
  BY BeforeIs
<1>2. PICK k \in Nat : Differs(b, c, k)
  BY BeforeIs
<1>3. Len(a) \in Nat /\ Len(b) \in Nat /\ Len(c) \in Nat
  BY OidIs
<1>4. CASE i < k
  BY <1>1, <1>2, <1>3, <1>4, BeforeIs DEF Differs
<1>5. CASE i = k
  <2>1. /\ i <= Len(c) /\ i \in 1..(Len(a) + 1)
        /\ \A j \in 1..(i - 1) : a[j] = c[j]
        /\ i <= Len(b) /\ b[i] < c[i]
    BY <1>1, <1>2, <1>3, <1>5 DEF Differs
  <2>2. ASSUME i # Len(a) + 1 PROVE a[i] < c[i]
    <3>1. a[i] < b[i] /\ a[i] \in Nat /\ b[i] \in Nat /\ c[i] \in Nat
      BY <1>1, <1>3, <2>1, <2>2, OidIs DEF Differs
    <3> QED
      BY <2>1, <3>1
  <2> QED
    BY <2>1, <2>2, BeforeIs DEF Differs
<1>6. CASE k < i
  <2>1. k \in 1..(Len(a) + 1) /\ k <= Len(c) /\ \A j \in 1..(k - 1) : a[j] = c[j]
    BY <1>1, <1>2, <1>3, <1>6 DEF Differs
  <2>2. a[k] = b[k] /\ b[k] < c[k]
    BY <1>1, <1>2, <1>3, <1>6 DEF Differs
  <2> QED
    BY <2>1, <2>2, BeforeIs DEF Differs
<1> QED
  BY <1>4, <1>5, <1>6

LEMMA BeforeTotal ==
  ASSUME NEW a \in Oid, NEW b \in Oid, a # b
  PROVE  Before(a, b) \/ Before(b, a)
<1> DEFINE S == {i \in Nat : i >= 1 /\ (i > Len(a) \/ i > Len(b) \/ a[i] # b[i])}
<1>1. Len(a) \in Nat /\ Len(b) \in Nat
  BY OidIs
<1>2. Len(a) + 1 \in S
  BY <1>1
<1>3. PICK m \in S : \A i \in S : m <= i
  BY <1>2, Least
<1>4. m \in Nat /\ 1 <= m /\ (m > Len(a) \/ m > Len(b) \/ a[m] # b[m])
  OBVIOUS
<1>5. \A j \in 1..(m - 1) : j <= Len(a) /\ j <= Len(b) /\ a[j] = b[j]
  <2> SUFFICES ASSUME NEW j \in 1..(m - 1) PROVE j <= Len(a) /\ j <= Len(b) /\ a[j] = b[j]
    OBVIOUS
  <2>1. j \in Nat /\ 1 <= j /\ ~(m <= j)
    BY <1>4
  <2>2. j \notin S
    BY <1>3, <2>1
  <2> QED
    BY <1>1, <2>1, <2>2
<1> HIDE DEF S
<1>6. m <= Len(a) + 1 /\ m <= Len(b) + 1
  <2>1. m = 1 \/ m - 1 \in 1..(m - 1)
    BY <1>4
  <2>2. m = 1 \/ (m - 1 <= Len(a) /\ m - 1 <= Len(b))
    BY <1>5, <2>1
  <2> QED
    BY <1>1, <1>4, <2>2
<1>7. CASE m = Len(a) + 1 /\ m = Len(b) + 1
  <2>1. Len(a) = Len(b) /\ 1..(m - 1) = 1..Len(a)
    BY <1>1, <1>7
  <2> QED
    BY <1>5, <2>1, SameSeq
<1>8. CASE m = Len(a) + 1 /\ m # Len(b) + 1
  <2>1. Differs(a, b, m)
    BY <1>1, <1>4, <1>5, <1>6, <1>8 DEF Differs
  <2> QED
    BY <1>4, <2>1, BeforeIs
<1>9. CASE m # Len(a) + 1 /\ m = Len(b) + 1
  <2>1. Differs(b, a, m)
    BY <1>1, <1>4, <1>5, <1>6, <1>9 DEF Differs
  <2> QED
    BY <1>4, <2>1, BeforeIs
<1>10. CASE m # Len(a) + 1 /\ m # Len(b) + 1
  <2>1. m <= Len(a) /\ m <= Len(b) /\ a[m] # b[m] /\ a[m] \in Nat /\ b[m] \in Nat
    BY <1>1, <1>4, <1>6, <1>10, OidIs
  <2>2. Differs(a, b, m) \/ Differs(b, a, m)
    BY <1>1, <1>4, <1>5, <2>1 DEF Differs
  <2> QED
    BY <1>4, <2>2, BeforeIs
<1> QED
  BY <1>7, <1>8, <1>9, <1>10

(* Prefixes come first, and with nothing else among what they are prefixes of. *)
LEMMA PrefixNotAfter ==
  ASSUME NEW p \in Oid, NEW x \in Oid, IsPrefix(p, x)
  PROVE  ~Before(x, p)
<1>1. CASE p = x
  BY <1>1, BeforeIrreflexive
<1>2. CASE p # x
  <2>1. Before(p, x)
    BY <1>2 DEF Before, IsStrictPrefix
  <2> QED
    BY <2>1, BeforeTransitive, BeforeIrreflexive
<1> QED
  BY <1>1, <1>2

LEMMA PrefixBetween ==
  ASSUME NEW p \in Oid, NEW x \in Oid, NEW y \in Oid,
         IsPrefix(p, x), ~Before(y, p), ~Before(x, y)
  PROVE  IsPrefix(p, y)
<1>1. CASE p = y
  BY <1>1, OidIs, PrefixIs DEF Oid
<1>2. CASE p # y
  <2>1. PICK i \in Nat : Differs(p, y, i)
    BY <1>2, BeforeTotal, BeforeIs
  <2>2. Len(p) <= Len(x) /\ \A j \in 1..Len(p) : p[j] = x[j]
    BY PrefixIs DEF Oid
  <2>3. Len(p) \in Nat /\ Len(x) \in Nat /\ Len(y) \in Nat
    BY OidIs
  <2>4. CASE i = Len(p) + 1
    <3>1. Len(p) <= Len(y) /\ \A j \in 1..Len(p) : p[j] = y[j]
      BY <2>1, <2>3, <2>4 DEF Differs
    <3> QED
      BY <3>1, PrefixIs DEF Oid
  <2>5. CASE i # Len(p) + 1
    <3>1. i \in 1..Len(p) /\ i <= Len(y) /\ x[i] < y[i]
      BY <2>1, <2>2, <2>3, <2>5 DEF Differs
    <3>2. \A j \in 1..(i - 1) : x[j] = y[j]
      BY <2>1, <2>2, <2>3, <3>1 DEF Differs
    <3>3. Differs(x, y, i)
      BY <2>2, <2>3, <3>1, <3>2 DEF Differs
    <3> QED
      BY <3>3, BeforeIs
  <2> QED
    BY <2>4, <2>5
<1> QED
  BY <1>1, <1>2
-----------------------------------------------------------------------------
(* freeze. *)
Rank(T, o) == Cardinality({x \in T : Before(x, o)})

LEMMA RankIs ==
  ASSUME NEW T \in SUBSET Oid, IsFiniteSet(T), NEW o \in T
  PROVE  Cardinality(T) \in Nat /\ Rank(T, o) \in 0..(Cardinality(T) - 1)
<1> DEFINE U == {x \in T : Before(x, o)}
<1>1. U \subseteq T \ {o}
  BY BeforeIrreflexive
<1>2. IsFiniteSet(T \ {o}) /\ Cardinality(T \ {o}) = Cardinality(T) - 1
  BY FS_RemoveElement
<1>3. Cardinality(T) \in Nat
  BY FS_CardinalityType
<1>4. IsFiniteSet(U) /\ Cardinality(U) <= Cardinality(T) - 1
  BY <1>1, <1>2, FS_Subset
<1>5. Cardinality(U) \in Nat
  BY <1>4, FS_CardinalityType
<1> QED
  BY <1>3, <1>4, <1>5 DEF Rank

LEMMA RankRises ==
  ASSUME NEW T \in SUBSET Oid, IsFiniteSet(T), NEW o \in T, NEW q \in T, Before(o, q)
  PROVE  Rank(T, o) < Rank(T, q)
<1> DEFINE U == {x \in T : Before(x, o)}  V == {x \in T : Before(x, q)}
<1>1. U \subseteq V
  BY BeforeTransitive
<1>2. o \in V /\ o \notin U
  BY BeforeIrreflexive
<1>3. IsFiniteSet(V)
  BY FS_Subset
<1> HIDE DEF U, V
<1>4. Cardinality(U) <= Cardinality(V) /\ Cardinality(U) # Cardinality(V)
  BY <1>1, <1>2, <1>3, FS_Subset
<1>5. Cardinality(U) \in Int /\ Cardinality(V) \in Int
  BY RankIs DEF Rank, U, V
<1> QED
  BY <1>4, <1>5 DEF Rank, U, V

LEMMA RankIsInjective ==
  ASSUME NEW T \in SUBSET Oid, IsFiniteSet(T), NEW o \in T, NEW q \in T, Rank(T, o) = Rank(T, q)
  PROVE  o = q
<1> SUFFICES ASSUME o # q PROVE FALSE
  OBVIOUS
<1>1. Before(o, q) \/ Before(q, o)
  BY BeforeTotal
<1>2. Rank(T, o) < Rank(T, q) \/ Rank(T, q) < Rank(T, o)
  BY <1>1, RankRises
<1>3. Rank(T, o) \in Int /\ Rank(T, q) \in Int
  BY RankIs
<1> QED
  BY <1>2, <1>3

(* Every place is taken: as many ranks as OIDs. *)
LEMMA RankIsOnto ==
  ASSUME NEW T \in SUBSET Oid, IsFiniteSet(T), NEW k \in 0..(Cardinality(T) - 1)
  PROVE  \E o \in T : Rank(T, o) = k
<1> DEFINE n == Cardinality(T)  P == 0..(n - 1)  f == [o \in T |-> Rank(T, o)]
<1>1. n \in Nat
  BY FS_CardinalityType
<1>2. IsFiniteSet(P) /\ Cardinality(P) = n
  BY <1>1, FS_Interval
<1>3. f \in [T -> P]
  BY RankIs
<1>4. \A o, q \in T : f[o] = f[q] => o = q
  BY RankIsInjective
<1> HIDE DEF f, P
<1>5. f \in Injection(T, P)
  BY <1>3, <1>4 DEF Injection, IsInjective
<1>6. f \in Surjection(T, P)
  BY <1>2, <1>5, FS_Injection
<1>7. \E o \in T : f[o] = k
  BY <1>6 DEF Surjection, P
<1> QED
  BY <1>7 DEF f

LEMMA SortedIs ==
  ASSUME NEW T \in SUBSET Oid, IsFiniteSet(T)
  PROVE  LET n == Cardinality(T)  s == Sorted(T) IN
         /\ n \in Nat /\ DOMAIN s = 1..n /\ Len(s) = n
         /\ \A i \in 1..n : s[i] \in T /\ Rank(T, s[i]) = i - 1
         /\ \A x \in T : \E i \in 1..n : s[i] = x
         /\ \A i, j \in 1..n : i < j => Before(s[i], s[j])
<1> DEFINE n == Cardinality(T)  s == Sorted(T)
<1>1. n \in Nat
  BY FS_CardinalityType
<1>2. s = [i \in 1..n |-> CHOOSE o \in T : Rank(T, o) = i - 1]
  BY DEF Sorted, Rank
<1>3. DOMAIN s = 1..n
  BY <1>2
<1>4. \A i \in 1..n : s[i] \in T /\ Rank(T, s[i]) = i - 1
  <2> SUFFICES ASSUME NEW i \in 1..n PROVE s[i] \in T /\ Rank(T, s[i]) = i - 1
    OBVIOUS
  <2>1. i - 1 \in 0..(n - 1)
    BY <1>1
  <2>2. \E o \in T : Rank(T, o) = i - 1
    BY <2>1, RankIsOnto
  <2>3. s[i] = CHOOSE o \in T : Rank(T, o) = i - 1
    BY <1>2
  <2> QED
    BY <2>2, <2>3
<1>5. Len(s) = n
  <2>1. s \in [1..n -> T]
    BY <1>2, <1>4
  <2> HIDE DEF n, s
  <2>2. s \in Seq(T)
    BY <1>1, <2>1
  <2> QED
    BY <1>1, <1>3, <2>2
<1> HIDE DEF s
<1>6. \A x \in T : \E i \in 1..n : s[i] = x
  <2> SUFFICES ASSUME NEW x \in T PROVE \E i \in 1..n : s[i] = x
    OBVIOUS
  <2>1. Rank(T, x) \in 0..(n - 1)
    BY RankIs
  <2>2. Rank(T, x) + 1 \in 1..n /\ (Rank(T, x) + 1) - 1 = Rank(T, x)
    BY <1>1, <2>1
  <2>3. s[Rank(T, x) + 1] = x
    BY <1>4, <2>2, RankIsInjective
  <2> QED
    BY <2>2, <2>3
<1>7. \A i, j \in 1..n : i < j => Before(s[i], s[j])
  <2> SUFFICES ASSUME NEW i \in 1..n, NEW j \in 1..n, i < j PROVE Before(s[i], s[j])
    OBVIOUS
  <2>1. s[i] \in T /\ s[j] \in T /\ Rank(T, s[i]) = i - 1 /\ Rank(T, s[j]) = j - 1
    BY <1>4
  <2>2. s[i] # s[j]
    BY <1>1, <2>1
  <2>3. ~Before(s[j], s[i])
    BY <1>1, <2>1, RankRises
  <2> QED
    BY <2>1, <2>2, <2>3, BeforeTotal
<1> QED
  BY <1>1, <1>3, <1>4, <1>5, <1>6, <1>7 DEF s
-----------------------------------------------------------------------------
(* A set of indices that is closed downwards is an interval. *)
LEMMA Interval ==
  ASSUME NEW n \in Nat, NEW D \in SUBSET (1..n), \A i \in D : \A j \in 1..i : j \in D
  PROVE  Cardinality(D) \in 0..n /\ D = 1..Cardinality(D)
<1>1. PICK k \in 0..n : D = 1..k
  <2>1. CASE D = 1..n
    BY <2>1
  <2>2. CASE D # 1..n
    <3> DEFINE C == (1..n) \ D
    <3>1. PICK z \in 1..n : z \notin D
      BY <2>2
    <3>2. C \in SUBSET Nat /\ C # {}
      BY <3>1
    <3>3. PICK m \in C : \A y \in C : m <= y
      BY <3>2, Least
    <3>4. m \in 1..n /\ m \notin D
      OBVIOUS
    <3>5. \A j \in 1..(m - 1) : j \in D
      BY <3>3, <3>4
    <3>6. \A i \in D : i \in 1..n /\ ~(m <= i)
      BY <3>4
    <3>7. \A i \in D : i \in 1..(m - 1)
      BY <3>4, <3>6
    <3> HIDE DEF C
    <3>8. D \subseteq 1..(m - 1) /\ 1..(m - 1) \subseteq D
      BY <3>5, <3>7
    <3>9. m - 1 \in 0..n
      BY <3>4
    <3> QED
      BY <3>8, <3>9
  <2> QED
    BY <2>1, <2>2
<1>2. Cardinality(1..k) = k
  BY FS_Interval
<1> QED
  BY <1>1, <1>2

(* get_next: the least OID after this one, if there is any. *)
THEOREM GetNextIs ==
  ASSUME NEW T \in SUBSET Oid, IsFiniteSet(T), EndOfMib \notin T, NEW o \in Oid
  PROVE  LET next == GetNext(T, o) IN
         \/ next = EndOfMib /\ \A x \in T : ~Before(o, x)
         \/ /\ next \in T /\ Before(o, next)
            /\ \A x \in T : Before(o, x) => x = next \/ Before(next, x)
<1> DEFINE n == Cardinality(T)  s == Sorted(T)  D == {i \in DOMAIN s : ~Before(o, s[i])}
           k == BisectRight(s, o)
<1>1. /\ n \in Nat /\ DOMAIN s = 1..n /\ Len(s) = n
      /\ \A i \in 1..n : s[i] \in T
      /\ \A x \in T : \E i \in 1..n : s[i] = x
      /\ \A i, j \in 1..n : i < j => Before(s[i], s[j])
  BY SortedIs
<1>2. GetNext(T, o) = IF k >= n THEN EndOfMib ELSE s[k + 1]
  BY <1>1 DEF GetNext
<1> HIDE DEF n, s
<1>3. k = Cardinality(D)
  BY DEF BisectRight
<1>4. D \in SUBSET (1..n) /\ \A i \in D : \A j \in 1..i : j \in D
  <2> SUFFICES ASSUME NEW i \in D, NEW j \in 1..i PROVE j \in D
    BY <1>1
  <2>1. i \in 1..n /\ j \in 1..n /\ s[i] \in Oid /\ s[j] \in Oid /\ ~Before(o, s[i])
    BY <1>1
  <2>2. i = j \/ Before(s[j], s[i])
    BY <1>1, <2>1
  <2>3. ~Before(o, s[j])
    BY <2>1, <2>2, BeforeTransitive
  <2> QED
    BY <1>1, <2>1, <2>3
<1>5. k \in 0..n /\ D = 1..k
  <2> HIDE DEF D, k
  <2> QED
    BY <1>1, <1>3, <1>4, Interval
<1>6. \A i \in 1..n : i \in 1..k <=> ~Before(o, s[i])
  BY <1>1, <1>5
<1> HIDE DEF D, k
<1>7. CASE k >= n
  <2>1. \A i \in 1..n : ~Before(o, s[i])
    BY <1>1, <1>5, <1>6, <1>7
  <2> QED
    BY <1>1, <1>2, <1>7, <2>1
<1>8. CASE k < n
  <2>1. k + 1 \in 1..n /\ k + 1 \notin 1..k /\ GetNext(T, o) = s[k + 1]
    BY <1>1, <1>2, <1>5, <1>8
  <2>2. s[k + 1] \in T /\ Before(o, s[k + 1])
    BY <1>1, <1>6, <2>1
  <2>3. ASSUME NEW x \in T, Before(o, x) PROVE x = s[k + 1] \/ Before(s[k + 1], x)
    <3>1. PICK i \in 1..n : s[i] = x
      BY <1>1
    <3>2. i \notin 1..k
      BY <1>6, <2>3, <3>1
    <3>3. i = k + 1 \/ k + 1 < i
      BY <1>1, <1>5, <3>2
    <3> QED
      BY <1>1, <2>1, <3>1, <3>3
  <2> QED
    BY <2>1, <2>2, <2>3
<1> QED
  BY <1>1, <1>5, <1>7, <1>8

(* has_descendants: some OID of the tree has this one as a prefix. *)
THEOREM HasDescendantsIs ==
  ASSUME NEW T \in SUBSET Oid, IsFiniteSet(T), NEW p \in Oid
  PROVE  HasDescendants(T, p) <=> \E x \in T : IsPrefix(p, x)
<1> DEFINE n == Cardinality(T)  s == Sorted(T)  D == {i \in DOMAIN s : Before(s[i], p)}
           k == BisectLeft(s, p)
<1>1. /\ n \in Nat /\ DOMAIN s = 1..n /\ Len(s) = n
      /\ \A i \in 1..n : s[i] \in T
      /\ \A x \in T : \E i \in 1..n : s[i] = x
      /\ \A i, j \in 1..n : i < j => Before(s[i], s[j])
  BY SortedIs
<1>2. HasDescendants(T, p) <=> k < n /\ IsPrefix(p, s[k + 1])
  BY <1>1 DEF HasDescendants
<1> HIDE DEF n, s
<1>3. k = Cardinality(D)
  BY DEF BisectLeft
<1>4. D \in SUBSET (1..n) /\ \A i \in D : \A j \in 1..i : j \in D
  <2> SUFFICES ASSUME NEW i \in D, NEW j \in 1..i PROVE j \in D
    BY <1>1
  <2>1. i \in 1..n /\ j \in 1..n /\ s[i] \in Oid /\ s[j] \in Oid /\ Before(s[i], p)
    BY <1>1
  <2>2. i = j \/ Before(s[j], s[i])
    BY <1>1, <2>1
  <2>3. Before(s[j], p)
    BY <2>1, <2>2, BeforeTransitive
  <2> QED
    BY <1>1, <2>1, <2>3
<1>5. k \in 0..n /\ D = 1..k
  <2> HIDE DEF D, k
  <2> QED
    BY <1>1, <1>3, <1>4, Interval
<1>6. \A i \in 1..n : i \in 1..k <=> Before(s[i], p)
  BY <1>1, <1>5
<1> HIDE DEF D, k
<1>7. ASSUME k < n, IsPrefix(p, s[k + 1]) PROVE \E x \in T : IsPrefix(p, x)
  <2>1. k + 1 \in 1..n
    BY <1>1, <1>5, <1>7
  <2> QED
    BY <1>1, <1>7, <2>1
<1>8. ASSUME NEW x \in T, IsPrefix(p, x) PROVE k < n /\ IsPrefix(p, s[k + 1])
  <2>1. PICK i \in 1..n : s[i] = x
    BY <1>1
  <2>2. i \notin 1..k
    BY <1>6, <1>8, <2>1, PrefixNotAfter
  <2>3. k + 1 \in 1..n /\ k + 1 \notin 1..k /\ k < n /\ (i = k + 1 \/ k + 1 < i)
    BY <1>1, <1>5, <2>2
  <2>4. s[k + 1] \in Oid /\ ~Before(s[k + 1], p)
    BY <1>1, <1>6, <2>3
  <2>5. s[k + 1] = x \/ Before(s[k + 1], x)
    BY <1>1, <2>1, <2>3
  <2>6. ~Before(x, s[k + 1])
    BY <2>4, <2>5, BeforeTransitive, BeforeIrreflexive
  <2>7. IsPrefix(p, s[k + 1])
    BY <1>8, <2>4, <2>6, PrefixBetween
  <2> QED
    BY <2>3, <2>7
<1> QED
  BY <1>2, <1>7, <1>8
=============================================================================
