------------------------------ MODULE PathProofs ------------------------------
(***************************************************************************)
(* What the operators of ManifestPaths promise for every name and path:    *)
(* a resolved name is free, the ancestors of a path, and sums.             *)
(***************************************************************************)
EXTENDS ManifestPaths, FiniteSetTheorems, WellFoundedInduction, TLAPS

---------------------------------------------------------------------------
(* Names                                                                   *)

LEMMA FiniteImage ==
    ASSUME NEW S, IsFiniteSet(S), NEW T, NEW f \in [S -> T]
    PROVE  IsFiniteSet({f[x]: x \in S})
<1>1. f \in Surjection(S, {f[x]: x \in S})
  BY DEF Surjection
<1> QED BY <1>1, FS_Surjection

\* A set of numbers has a least one.
LEMMA LeastNumber ==
    ASSUME NEW S \in SUBSET Nat, S # {}
    PROVE  \E n \in S: \A m \in S: n <= m
<1>1. PICK n \in S: \A m \in S: <<m, n>> \notin OpToRel(<, Nat)
  BY NatLessThanWellFounded, WFMin
<1>2. \A m \in S: ~(m < n)
  BY <1>1 DEF OpToRel
<1> QED BY <1>2

LEMMA KeyIs ==
    ASSUME NEW n \in Names
    PROVE  /\ DOMAIN Key(n) = 1..Len(n)
           /\ \A i \in 2..Len(n): Key(n)[i] = n[i]
           /\ Key(n)[1] = Fold[n[1]]
<1>1. Len(n) \in Nat \ {0} /\ DOMAIN n = 1..Len(n)
  BY DEF Names
<1>2. Key(n) = [n EXCEPT ![1] = Fold[n[1]]]
  BY DEF Key, manifestPathKey
<1> QED BY <1>1, <1>2

\* The candidates are names.
LEMMA CandidateIs ==
    ASSUME NEW n \in Names, NEW k \in Nat
    PROVE  /\ Candidate(n, k) \in Names
           /\ Len(Candidate(n, k)) = IF k = 0 THEN Len(n) ELSE Len(n) + 1
           /\ k # 0 => Candidate(n, k)[Len(n) + 1] = k
<1>1. Len(n) \in Nat \ {0} /\ n \in Seq(Nat) /\ n[1] \in DOMAIN Fold
  BY DEF Names
<1>2. CASE k = 0
  BY <1>1, <1>2 DEF Candidate
<1>3. CASE k # 0
  <2>1. Candidate(n, k) = Append(n, k)
    BY <1>3 DEF Candidate
  <2>2. /\ Append(n, k) \in Seq(Nat) /\ Append(n, k)[1] = n[1] /\ Append(n, k) # << >>
        /\ Len(Append(n, k)) = Len(n) + 1 /\ Append(n, k)[Len(n) + 1] = k
    BY <1>1
  <2> QED BY <1>1, <1>3, <2>1, <2>2 DEF Names
<1> QED BY <1>2, <1>3

\* No two candidates for a name have the same key.
LEMMA CandidatesDiffer ==
    ASSUME NEW n \in Names, NEW i \in Nat, NEW j \in Nat, Key(Candidate(n, i)) = Key(Candidate(n, j))
    PROVE  i = j
<1>1. \A k \in Nat: Candidate(n, k) \in Names /\ Len(Candidate(n, k)) = IF k = 0 THEN Len(n) ELSE Len(n) + 1
  BY CandidateIs
<1>2. \A k \in Nat \ {0}: Candidate(n, k)[Len(n) + 1] = k
  BY CandidateIs
<1>3. Len(n) \in Nat \ {0}
  BY DEF Names
<1>4. Len(Candidate(n, i)) = Len(Candidate(n, j))
  <2>1. 1..Len(Candidate(n, i)) = 1..Len(Candidate(n, j))
    BY <1>1, KeyIs
  <2> QED BY <1>1, <1>3, <2>1
<1>5. CASE i = 0
  BY <1>1, <1>3, <1>4, <1>5
<1>6. CASE i # 0
  <2>1. j # 0
    BY <1>1, <1>3, <1>4, <1>6
  <2>2. Candidate(n, i)[Len(n) + 1] = Candidate(n, j)[Len(n) + 1]
    BY <1>1, <1>3, <1>6, <2>1, KeyIs
  <2> QED BY <1>2, <1>6, <2>1, <2>2
<1> QED BY <1>5, <1>6

\* resolveFinalPathWithReservations finds a name that is not reserved.
LEMMA ResolvedIsFree ==
    ASSUME NEW n \in Names, NEW reserved, IsFiniteSet(reserved), resolveFinalPath(n, reserved) # << >>
    PROVE  /\ Key(resolveFinalPath(n, reserved)) \notin reserved
           /\ resolveFinalPath(n, reserved) \in Names
<1> DEFINE c == Cardinality(reserved)
           free == {k \in 0..c: Key(Candidate(n, k)) \notin reserved}
<1>1. c \in Nat
  BY FS_CardinalityType
<1>2. free # {}
  <2> SUFFICES ASSUME free = {} PROVE FALSE
    OBVIOUS
  <2> DEFINE f == [k \in 0..c |-> Key(Candidate(n, k))]
  <2>1. f \in [0..c -> reserved]
    OBVIOUS
  <2>2. IsFiniteSet(0..c) /\ Cardinality(0..c) = c + 1
    BY <1>1, FS_Interval
  <2>3. PICK i, j \in 0..c: i # j /\ f[i] = f[j]
    <3> HIDE DEF f
    <3> QED BY <1>1, <2>1, <2>2, FS_PigeonHole
  <2>4. Key(Candidate(n, i)) = Key(Candidate(n, j)) /\ i \in Nat /\ j \in Nat
    BY <1>1, <2>3
  <2> QED BY <2>3, <2>4, CandidatesDiffer
<1>3. PICK k \in free: \A j \in free: k <= j
  <2>1. free \in SUBSET Nat
    BY <1>1
  <2> HIDE DEF free
  <2> QED BY <1>2, <2>1, LeastNumber
<1>4. k \in 0..c /\ Key(Candidate(n, k)) \notin reserved /\ \A j \in 0..(k - 1): Key(Candidate(n, j)) \in reserved
  BY <1>1, <1>3
<1> DEFINE suffix == CHOOSE m \in 0..c: /\ ~(Key(Candidate(n, m)) \in reserved)
                                        /\ \A j \in 0..(m - 1): Key(Candidate(n, j)) \in reserved
<1>5. suffix \in 0..c /\ Key(Candidate(n, suffix)) \notin reserved
  BY <1>4
<1>6. resolveFinalPath(n, reserved) = Candidate(n, suffix)
  BY DEF resolveFinalPath
<1>7. \A m \in Nat: Candidate(n, m) \in Names
  BY CandidateIs
<1> HIDE DEF suffix
<1> QED BY <1>1, <1>5, <1>6, <1>7
---------------------------------------------------------------------------
(* Paths                                                                   *)

Root(x) == <<x[1]>>
Paths == {x \in Seq(Seq(Nat)): x # << >>}

LEMMA SamePath ==
    ASSUME NEW x \in Paths, NEW y \in Paths, Len(x) = Len(y), \A i \in 1..Len(y): x[i] = y[i]
    PROVE  x = y
<1>1. x \in [1..Len(y) -> Seq(Nat)] /\ y \in [1..Len(y) -> Seq(Nat)]
  BY DEF Paths
<1> QED BY <1>1

LEMMA AncestorIs ==
    ASSUME NEW x \in Paths, NEW y \in Ancestors(x)
    PROVE  /\ y \in Paths /\ Len(y) \in 1..(Len(x) - 1) /\ y[1] = x[1]
           /\ \A i \in 1..Len(y): y[i] = x[i]
           /\ Root(y) = Root(x)
<1>1. PICK n \in 1..(Len(x) - 1): y = SubSeq(x, 1, n)
  BY DEF Ancestors
<1>2. Len(x) \in Nat /\ x \in Seq(Seq(Nat))
  BY DEF Paths
<1>3. y \in Seq(Seq(Nat)) /\ Len(y) = n /\ \A i \in 1..n: y[i] = x[i]
  BY <1>1, <1>2
<1> QED BY <1>2, <1>3 DEF Paths, Root

\* A path that agrees with x up to its own end, before the end of x, is one of
\* its ancestors.
LEMMA PrefixIsAncestor ==
    ASSUME NEW x \in Paths, NEW y \in Paths, Len(y) < Len(x), \A i \in 1..Len(y): y[i] = x[i]
    PROVE  y \in Ancestors(x)
<1>1. Len(x) \in Nat /\ Len(y) \in 1..(Len(x) - 1) /\ x \in Seq(Seq(Nat)) /\ y \in Seq(Seq(Nat))
  BY DEF Paths
<1>2. SubSeq(x, 1, Len(y)) = y
  BY <1>1
<1> QED BY <1>1, <1>2 DEF Ancestors

LEMMA AncestorsChain ==
    ASSUME NEW x \in Paths, NEW y \in Ancestors(x)
    PROVE  /\ y # x /\ x \notin Ancestors(x) /\ x \notin Ancestors(y)
           /\ Ancestors(y) \subseteq Ancestors(x)
<1>1. y \in Paths /\ Len(y) \in 1..(Len(x) - 1) /\ Len(x) \in Nat
  BY AncestorIs DEF Paths
<1>2. \A z \in Ancestors(y): Len(z) < Len(x) /\ z \in Ancestors(x)
  <2> SUFFICES ASSUME NEW z \in Ancestors(y) PROVE Len(z) < Len(x) /\ z \in Ancestors(x)
    OBVIOUS
  <2>1. z \in Paths /\ Len(z) \in 1..(Len(y) - 1) /\ \A i \in 1..Len(z): z[i] = y[i]
    BY <1>1, AncestorIs
  <2>2. \A i \in 1..Len(z): z[i] = x[i]
    BY <1>1, <2>1, AncestorIs
  <2> QED BY <1>1, <2>1, <2>2, PrefixIsAncestor
<1>3. \A z \in Ancestors(x): Len(z) < Len(x)
  BY <1>1, AncestorIs
<1> QED BY <1>1, <1>2, <1>3

LEMMA RootIs ==
    ASSUME NEW x \in Paths
    PROVE  /\ Root(x) \in Paths /\ Len(Root(x)) = 1 /\ Root(Root(x)) = Root(x)
           /\ IF Len(x) = 1 THEN Root(x) = x ELSE Root(x) \in Ancestors(x)
<1>1. Len(x) \in Nat \ {0} /\ x \in Seq(Seq(Nat)) /\ x[1] \in Seq(Nat)
  BY DEF Paths
<1>2. Root(x) \in Seq(Seq(Nat)) /\ Root(x) # << >> /\ Len(Root(x)) = 1 /\ Root(x)[1] = x[1]
  BY <1>1 DEF Root
<1>3. Root(x) \in Paths /\ Root(Root(x)) = Root(x)
  BY <1>2 DEF Paths, Root
<1>4. Len(x) # 1 => Root(x) \in Ancestors(x)
  <2>1. \A i \in 1..Len(Root(x)): Root(x)[i] = x[i]
    BY <1>2
  <2>2. Len(x) # 1 => Len(Root(x)) < Len(x)
    BY <1>1, <1>2
  <2> QED BY <1>3, <2>1, <2>2, PrefixIsAncestor
<1>5. Len(x) = 1 => Root(x) = x
  BY <1>1, <1>2
<1> QED BY <1>2, <1>3, <1>4, <1>5

LEMMA AppendIs ==
    ASSUME NEW S, NEW s \in Seq(S), NEW e
    PROVE  /\ Len(s) \in Nat /\ DOMAIN s = 1..Len(s) /\ Len(Append(s, e)) = Len(s) + 1
           /\ DOMAIN Append(s, e) = 1..(Len(s) + 1)
           /\ Append(s, e)[Len(s) + 1] = e /\ \A i \in 1..Len(s): Append(s, e)[i] = s[i]
<1> DEFINE T == S \cup {e}
<1>1. Len(s) \in Nat /\ DOMAIN s = 1..Len(s) /\ s \in [1..Len(s) -> T]
  OBVIOUS
<1>2. s \in Seq(T) /\ e \in T
  BY <1>1
<1> HIDE DEF T
<1>3. Len(Append(s, e)) = Len(s) + 1
  BY <1>2
<1>4. DOMAIN Append(s, e) = 1..(Len(s) + 1)
  BY <1>2
<1>5. Append(s, e)[Len(s) + 1] = e
  BY <1>1, <1>2
<1>6. \A i \in 1..Len(s): Append(s, e)[i] = s[i]
  BY <1>1, <1>2
<1> QED BY <1>1, <1>3, <1>4, <1>5, <1>6

\* The components of a path are names.
LEMMA PathIs ==
    ASSUME NEW x, IsPath(x)
    PROVE  /\ x \in Paths /\ x \in Seq(Names) /\ Len(x) \in Nat \ {0} /\ DOMAIN x = 1..Len(x)
           /\ \A i \in 1..Len(x): x[i] \in Names
<1>1. x \in Seq(Names) /\ x # << >>
  BY DEF IsPath
<1>2. Len(x) \in Nat \ {0} /\ DOMAIN x = 1..Len(x) /\ \A i \in 1..Len(x): x[i] \in Names
  BY <1>1
<1>3. \A n \in Names: n \in Seq(Nat)
  BY DEF Names
<1>4. x \in [1..Len(x) -> Seq(Nat)]
  BY <1>1, <1>2, <1>3
<1>5. x \in Seq(Seq(Nat))
  BY <1>2, <1>4
<1> QED BY <1>1, <1>2, <1>5 DEF Paths
---------------------------------------------------------------------------
(* Sums                                                                    *)

\* Induction up to N, about the numbers in S.
LEMMA UpTo ==
    ASSUME NEW N \in Nat, NEW S, 0 \in S, \A n \in 0..N: n \in S /\ n # N => n + 1 \in S
    PROVE  \A n \in 0..N: n \in S
<1> DEFINE B == (0..N) \ S
<1>1. SUFFICES ASSUME B # {} PROVE FALSE
  OBVIOUS
<1>2. B \in SUBSET Nat
  OBVIOUS
<1>3. \E n \in B: \A m \in B: n <= m
  <2> HIDE DEF B
  <2> QED BY <1>1, <1>2, LeastNumber
<1>4. PICK n \in B: \A m \in B: n <= m
  BY <1>3
<1>5. n \in 0..N /\ n \notin S /\ n # 0
  OBVIOUS
<1>6. n - 1 \in 0..N /\ n - 1 # N /\ ~(n <= n - 1)
  BY <1>5
<1>7. n - 1 \in S
  BY <1>4, <1>6
<1>8. (n - 1) + 1 \in S /\ (n - 1) + 1 = n
  BY <1>5, <1>6, <1>7
<1> QED BY <1>5, <1>8

\* The sums of the beginnings of s.
Sums(s) == CHOOSE f: f = [n \in 0..Len(s) |-> IF n = 0 THEN 0 ELSE f[n - 1] + s[n]]

LEMMA SumsExist ==
    ASSUME NEW s, NEW N \in Nat
    PROVE  \E f: f = [n \in 0..N |-> IF n = 0 THEN 0 ELSE f[n - 1] + s[n]]
<1> DEFINE Is(f, m) == f = [n \in 0..m |-> IF n = 0 THEN 0 ELSE f[n - 1] + s[n]]
           S == {m \in 0..N: \E f: Is(f, m)}
<1>1. 0 \in S
  <2>1. Is([n \in 0..0 |-> 0], 0)
    OBVIOUS
  <2> HIDE DEF Is
  <2> QED BY <2>1
<1>2. ASSUME NEW m \in 0..N, m \in S, m # N PROVE m + 1 \in S
  <2>1. PICK f: Is(f, m)
    BY <1>2
  <2> DEFINE g == [n \in 0..(m + 1) |-> IF n = m + 1 THEN f[m] + s[m + 1] ELSE f[n]]
  <2>2. \A n \in 0..(m + 1): g[n] = IF n = 0 THEN 0 ELSE g[n - 1] + s[n]
    <3> SUFFICES ASSUME NEW n \in 0..(m + 1) PROVE g[n] = IF n = 0 THEN 0 ELSE g[n - 1] + s[n]
      OBVIOUS
    <3>1. n = m + 1 => g[n] = f[m] + s[m + 1] /\ g[n - 1] = f[m] /\ n # 0
      OBVIOUS
    <3>2. n # m + 1 => n \in 0..m /\ g[n] = f[n] /\ (n # 0 => g[n - 1] = f[n - 1])
      OBVIOUS
    <3>3. \A k \in 0..m: f[k] = IF k = 0 THEN 0 ELSE f[k - 1] + s[k]
      BY <2>1
    <3> HIDE DEF g
    <3> QED BY <3>1, <3>2, <3>3
  <2>3. Is(g, m + 1)
    <3>1. g = [n \in 0..(m + 1) |-> g[n]]
      OBVIOUS
    <3> HIDE DEF g
    <3> QED BY <2>2, <3>1
  <2>4. m + 1 \in 0..N
    BY <1>2
  <2> HIDE DEF Is
  <2> QED BY <2>3, <2>4
<1>3. N \in S
  <2>1. N \in 0..N
    OBVIOUS
  <2> HIDE DEF S
  <2> QED BY <1>1, <1>2, <2>1, UpTo
<1> QED BY <1>3

LEMMA SumsAre ==
    ASSUME NEW s, Len(s) \in Nat
    PROVE  /\ Total(s) = Sums(s)[Len(s)] /\ Sums(s)[0] = 0
           /\ \A n \in 1..Len(s): Sums(s)[n] = Sums(s)[n - 1] + s[n]
<1>1. Sums(s) = [n \in 0..Len(s) |-> IF n = 0 THEN 0 ELSE Sums(s)[n - 1] + s[n]]
  BY SumsExist DEF Sums
<1>2. Total(s) = Sums(s)[Len(s)]
  BY DEF Total, Sums
<1> HIDE DEF Sums
<1>3. Sums(s)[0] = 0
  BY <1>1
<1>4. \A n \in 1..Len(s): Sums(s)[n] = Sums(s)[n - 1] + s[n]
  BY <1>1
<1> QED BY <1>2, <1>3, <1>4

\* Sums of whole numbers are whole numbers, and no less than 0 if those are.
LEMMA SumsType ==
    ASSUME NEW T \in {Int, Nat}, NEW s \in Seq(T)
    PROVE  Total(s) \in T /\ \A n \in 0..Len(s): Sums(s)[n] \in T
<1> DEFINE S == {n \in 0..Len(s): Sums(s)[n] \in T}
<1>1. Len(s) \in Nat /\ \A n \in 1..Len(s): s[n] \in T
  OBVIOUS
<1>2. 0 \in S
  BY <1>1, SumsAre
<1>3. ASSUME NEW n \in 0..Len(s), n \in S, n # Len(s) PROVE n + 1 \in S
  <2>1. n + 1 \in 1..Len(s) /\ n + 1 \in 0..Len(s) /\ (n + 1) - 1 = n
    BY <1>1, <1>3
  <2>2. Sums(s)[n + 1] = Sums(s)[n] + s[n + 1] /\ s[n + 1] \in T
    BY <1>1, <2>1, SumsAre
  <2> QED BY <1>3, <2>1, <2>2
<1>4. \A n \in 0..Len(s): n \in S
  <2> HIDE DEF S
  <2> QED BY <1>1, <1>2, <1>3, UpTo
<1>5. Total(s) = Sums(s)[Len(s)] /\ Len(s) \in 0..Len(s)
  BY <1>1, SumsAre
<1> QED BY <1>4, <1>5

\* A sum depends on what is summed up only.
LEMMA SumsAgree ==
    ASSUME NEW s \in Seq(Int), NEW t \in Seq(Int), NEW N \in Nat, N <= Len(s), N <= Len(t),
           \A i \in 1..N: s[i] = t[i]
    PROVE  Sums(s)[N] = Sums(t)[N]
<1> DEFINE S == {n \in 0..N: Sums(s)[n] = Sums(t)[n]}
<1>1. Len(s) \in Nat /\ Len(t) \in Nat
  OBVIOUS
<1>2. 0 \in S
  BY <1>1, SumsAre
<1>3. ASSUME NEW n \in 0..N, n \in S, n # N PROVE n + 1 \in S
  <2>1. n + 1 \in 1..N /\ n + 1 \in 1..Len(s) /\ n + 1 \in 1..Len(t) /\ n + 1 \in 0..N /\ (n + 1) - 1 = n
    BY <1>1, <1>3
  <2>2. Sums(s)[n + 1] = Sums(s)[n] + s[n + 1] /\ Sums(t)[n + 1] = Sums(t)[n] + t[n + 1]
    BY <1>1, <2>1, SumsAre
  <2> QED BY <1>3, <2>1, <2>2
<1>4. N \in S
  <2>1. N \in 0..N
    OBVIOUS
  <2> HIDE DEF S
  <2> QED BY <1>2, <1>3, <2>1, UpTo
<1> QED BY <1>4

LEMMA TotalAppend ==
    ASSUME NEW s \in Seq(Int), NEW e \in Int
    PROVE  Total(Append(s, e)) = Total(s) + e
<1> DEFINE t == Append(s, e)
<1>1. t \in Seq(Int) /\ Len(t) = Len(s) + 1 /\ Len(s) \in Nat /\ t[Len(s) + 1] = e /\ \A i \in 1..Len(s): t[i] = s[i]
  OBVIOUS
<1> HIDE DEF t
<1> DEFINE N == Len(s)
<1>2. Sums(s)[Len(s)] = Sums(t)[Len(s)]
  <2>1. N \in Nat /\ N <= Len(s) /\ N <= Len(t) /\ \A i \in 1..N: s[i] = t[i]
    BY <1>1
  <2> HIDE DEF N
  <2>2. Sums(s)[N] = Sums(t)[N]
    BY <1>1, <2>1, SumsAgree
  <2> QED BY <2>2 DEF N
<1>3. Total(t) = Sums(t)[Len(s)] + e
  <2>1. Len(t) \in Nat /\ Len(t) \in 1..Len(t) /\ Len(t) - 1 = Len(s) /\ t[Len(t)] = e
    BY <1>1
  <2>2. Sums(t)[Len(t)] = Sums(t)[Len(t) - 1] + t[Len(t)] /\ Total(t) = Sums(t)[Len(t)]
    BY <2>1, SumsAre
  <2> QED BY <2>1, <2>2
<1>4. Total(s) = Sums(s)[Len(s)]
  BY <1>1, SumsAre
<1> QED BY <1>2, <1>3, <1>4 DEF t
===============================================================================
