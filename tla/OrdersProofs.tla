----------------------------- MODULE OrdersProofs ------------------------------
(* What the pages of a listing rest on: InOrder lists a finite set once and in *)
(* ascending order, FirstOf leaves out nothing that comes before its end, Kept *)
(* filters a sequence, and Sorted loses no element of one.                     *)
EXTENDS Orders, SequencesExt, FiniteSetTheorems, WellFoundedInduction, SequenceTheorems, TLAPS

\* A set of numbers has a least member, which is induction without an operator
\* parameter: the least counterexample.
LEMMA LeastNat ==
    ASSUME NEW T \in SUBSET Nat, T # {}
    PROVE  \E m \in T : \A n \in T : m <= n
<1> DEFINE F == {0..n : n \in T}
<1>1. F \subseteq FiniteSubsetsOf(Nat) /\ F # {}
  <2>1. \A n \in T : 0..n \in SUBSET Nat /\ IsFiniteSet(0..n)
    BY FS_Interval
  <2> QED
    BY <2>1 DEF FiniteSubsetsOf
<1>2. PICK x \in F : \A y \in F : ~ (<<y, x>> \in StrictSubsetOrdering(Nat))
  <2> HIDE DEF F
  <2> QED
    BY <1>1, FS_StrictSubsetOrderingWellFounded, WFMin
<1>3. PICK m \in T : x = 0..m
  BY <1>2
<1>4. ASSUME NEW n \in T, n < m PROVE FALSE
  <2>1. 0..n \in SUBSET Nat /\ 0..m \in SUBSET Nat
    OBVIOUS
  <2>2. 0..n \subseteq 0..m /\ m \in 0..m /\ m \notin 0..n
    BY <1>4
  <2>3. <<0..n, 0..m>> \in StrictSubsetOrdering(Nat)
    BY <2>1, <2>2, Zenon DEF StrictSubsetOrdering
  <2> QED
    BY <1>2, <1>3, <2>3
<1> QED
  BY <1>4

\* Ranks grow with the numbers, by at least one.
LEMMA RankGrows ==
    ASSUME NEW S \in SUBSET Int, IsFiniteSet(S), NEW d \in S, NEW e \in S, d < e
    PROVE  Rank(S, d) < Rank(S, e)
<1> DEFINE A == {x \in S : x < d}  B == {x \in S : x < e}
<1>1. IsFiniteSet(A) /\ IsFiniteSet(B)
  BY FS_Subset
<1>2. A \subseteq B /\ d \in B /\ d \notin A
  <2>1. d \in Int /\ e \in Int
    OBVIOUS
  <2>2. A \subseteq B
    <3> SUFFICES ASSUME NEW x \in S, x < d PROVE x < e
      OBVIOUS
    <3>1. x \in Int
      OBVIOUS
    <3> QED
      BY <2>1, <3>1
  <2>3. d \in B
    OBVIOUS
  <2>4. d \notin A
    BY <2>1
  <2> QED
    BY <2>2, <2>3, <2>4
<1> HIDE DEF A, B
<1>3. Cardinality(A) <= Cardinality(B) /\ Cardinality(A) # Cardinality(B)
  BY <1>1, <1>2, FS_Subset
<1>4. Cardinality(A) \in Nat /\ Cardinality(B) \in Nat
  BY <1>1, FS_CardinalityType
<1> QED
  BY <1>3, <1>4 DEF Rank, A, B

\* The ranks of the members are 0 up to one less than their number, each once:
\* by the pigeonhole, as ranks are different and below that number.
LEMMA RanksFill ==
    ASSUME NEW S \in SUBSET Int, IsFiniteSet(S)
    PROVE  /\ \A d \in S : Rank(S, d) \in 0..Cardinality(S) - 1
           /\ \A d, e \in S : Rank(S, d) = Rank(S, e) => d = e
           /\ \A r \in 0..Cardinality(S) - 1 : \E d \in S : Rank(S, d) = r
<1> DEFINE n == Cardinality(S)
           f == [d \in S |-> Rank(S, d)]
<1>1. n \in Nat
  BY FS_CardinalityType
<1>2. \A d \in S : Rank(S, d) \in 0..n - 1
  <2> SUFFICES ASSUME NEW d \in S PROVE Rank(S, d) \in 0..n - 1
    OBVIOUS
  <2> DEFINE A == {x \in S : x < d}
  <2>1. A \in SUBSET S /\ d \in S /\ d \notin A
    OBVIOUS
  <2> HIDE DEF A
  <2>2. IsFiniteSet(A) /\ Cardinality(A) <= n /\ Cardinality(A) # n
    BY <2>1, FS_Subset
  <2>3. Cardinality(A) \in Nat
    BY <2>2, FS_CardinalityType
  <2> QED
    BY <1>1, <2>2, <2>3 DEF Rank, A
<1>3. \A d, e \in S : Rank(S, d) = Rank(S, e) => d = e
  <2> SUFFICES ASSUME NEW d \in S, NEW e \in S, d # e PROVE Rank(S, d) # Rank(S, e)
    OBVIOUS
  <2>1. Rank(S, d) \in Int /\ Rank(S, e) \in Int
    BY <1>2
  <2>2. CASE d < e
    BY <2>1, <2>2, RankGrows
  <2>3. CASE e < d
    BY <2>1, <2>3, RankGrows
  <2> QED
    BY <2>2, <2>3
<1>4. IsFiniteSet(0..n - 1) /\ Cardinality(0..n - 1) = n
  <2>1. 0 \in Int /\ n - 1 \in Int
    BY <1>1
  <2>2. /\ IsFiniteSet(0..n - 1)
        /\ Cardinality(0..n - 1) = IF 0 > n - 1 THEN 0 ELSE n - 1 - 0 + 1
    BY <2>1, FS_Interval
  <2> QED
    BY <1>1, <2>2
<1>5. f \in Injection(S, 0..n - 1)
  BY <1>2, <1>3 DEF Injection, IsInjective
<1>6. f \in Surjection(S, 0..n - 1)
  BY <1>4, <1>5, FS_Injection
<1>7. \A r \in 0..n - 1 : \E d \in S : Rank(S, d) = r
  BY <1>6 DEF Surjection
<1> QED
  BY <1>2, <1>3, <1>7

\* InOrder(S) has every member of S once, in ascending order.
LEMMA InOrderSorts ==
    ASSUME NEW S \in SUBSET Int, IsFiniteSet(S)
    PROVE  /\ InOrder(S) \in Seq(S)
           /\ Len(InOrder(S)) = Cardinality(S) /\ Cardinality(S) \in Nat
           /\ \A d \in S : \E i \in 1..Len(InOrder(S)) : InOrder(S)[i] = d
           /\ \A i, j \in 1..Len(InOrder(S)) : i < j => InOrder(S)[i] < InOrder(S)[j]
<1> DEFINE n == Cardinality(S)
           s == InOrder(S)
<1>1. n \in Nat
  BY FS_CardinalityType
<1>2. \A i \in 1..n : s[i] \in S /\ Rank(S, s[i]) = i - 1
  <2> SUFFICES ASSUME NEW i \in 1..n PROVE s[i] \in S /\ Rank(S, s[i]) = i - 1
    OBVIOUS
  <2>1. i - 1 \in 0..n - 1
    BY <1>1
  <2>2. \E d \in S : Rank(S, d) = i - 1
    BY <2>1, RanksFill
  <2>3. s[i] = CHOOSE d \in S : Rank(S, d) = i - 1
    BY DEF InOrder
  <2> QED
    BY <2>2, <2>3
<1>3. s \in [1..n -> S]
  BY <1>2 DEF InOrder
<1>4. s \in Seq(S) /\ Len(s) = n
  BY <1>1, <1>3
<1>5. \A d \in S : \E i \in 1..n : s[i] = d
  <2> SUFFICES ASSUME NEW d \in S PROVE \E i \in 1..n : s[i] = d
    OBVIOUS
  <2>1. Rank(S, d) \in 0..n - 1
    BY RanksFill
  <2>2. Rank(S, d) + 1 \in 1..n
    BY <1>1, <2>1
  <2>3. Rank(S, s[Rank(S, d) + 1]) = Rank(S, d) /\ s[Rank(S, d) + 1] \in S
    BY <1>2, <2>1, <2>2
  <2>4. \E i \in 1..n : s[i] = d
    <3> DEFINE i == Rank(S, d) + 1
    <3> HIDE DEF i, s
    <3>1. i \in 1..n /\ s[i] \in S /\ Rank(S, s[i]) = Rank(S, d)
      BY <2>2, <2>3 DEF i
    <3>2. \A x, y \in S : Rank(S, x) = Rank(S, y) => x = y
      BY RanksFill
    <3>3. s[i] = d
      BY <3>1, <3>2
    <3> QED
      BY <3>1, <3>3
  <2> QED
    BY <2>4
<1>6. ASSUME NEW i \in 1..n, NEW j \in 1..n, i < j PROVE s[i] < s[j]
  <2>1. /\ s[i] \in S /\ s[j] \in S
        /\ Rank(S, s[i]) = i - 1 /\ Rank(S, s[j]) = j - 1
    BY <1>2
  <2>2. s[i] \in Int /\ s[j] \in Int
    BY <2>1
  <2>3. CASE s[j] < s[i]
    <3>1. Rank(S, s[j]) < Rank(S, s[i])
      BY <2>1, <2>3, RankGrows
    <3> QED
      BY <1>1, <1>6, <2>1, <3>1
  <2>4. CASE s[i] = s[j]
    BY <1>1, <1>6, <2>1, <2>4
  <2> QED
    BY <2>2, <2>3, <2>4
<1> HIDE DEF s
<1> QED
  BY <1>1, <1>4, <1>5, <1>6 DEF s

LEMMA InOrderElements ==
    ASSUME NEW S \in SUBSET Int, IsFiniteSet(S)
    PROVE  InOrder(S) \in Seq(S) /\ ToSet(InOrder(S)) = S /\ IsInjective(InOrder(S))
<1> DEFINE s == InOrder(S)
<1>1. /\ s \in Seq(S) /\ Len(s) \in Nat
      /\ \A d \in S : \E i \in 1..Len(s) : s[i] = d
      /\ \A i, j \in 1..Len(s) : i < j => s[i] < s[j]
  BY InOrderSorts
<1> HIDE DEF s
<1>2. DOMAIN s = 1..Len(s) /\ \A i \in 1..Len(s) : s[i] \in S
  BY <1>1
<1>3. ToSet(s) = S
  BY <1>1, <1>2 DEF ToSet
<1>4. IsInjective(s)
  <2> SUFFICES ASSUME NEW i \in 1..Len(s), NEW j \in 1..Len(s), s[i] = s[j] PROVE i = j
    BY <1>2 DEF IsInjective
  <2>1. s[i] \in Int /\ s[j] \in Int
    BY <1>2
  <2>2. ~ (i < j) /\ ~ (j < i)
    BY <1>1, <2>1
  <2> QED
    BY <1>1, <2>2
<1> QED
  BY <1>1, <1>3, <1>4 DEF s

\* A page of at most n members of S: in ascending order, all of S if it is
\* shorter than n, and no member left out before its last.
IsPage(page, n, S) ==
    /\ page \in Seq(S) /\ Len(page) <= n
    /\ \A i, j \in 1..Len(page) : i < j => page[i] < page[j]
    /\ Len(page) < n => \A d \in S : \E i \in 1..Len(page) : page[i] = d
    /\ page # <<>> => \A d \in S : d <= page[Len(page)] =>
                          \E i \in 1..Len(page) : page[i] = d
    /\ page = <<>> => S = {}

\* FirstOf(n, S) is such a page.
LEMMA FirstOfPages ==
    ASSUME NEW S \in SUBSET Int, IsFiniteSet(S), NEW n \in Nat \ {0}
    PROVE  IsPage(FirstOf(n, S), n, S)
<1> DEFINE s == InOrder(S)
           page == FirstOf(n, S)
<1>1. /\ s \in Seq(S) /\ Len(s) \in Nat
      /\ \A d \in S : \E i \in 1..Len(s) : s[i] = d
      /\ \A i, j \in 1..Len(s) : i < j => s[i] < s[j]
  BY InOrderSorts
<1>2. page = IF Len(s) <= n THEN s ELSE SubSeq(s, 1, n)
  BY DEF FirstOf
<1> HIDE DEF s, page
<1>3. CASE Len(s) <= n
  <2>1. page = s
    BY <1>2, <1>3
  <2>2. s = <<>> => S = {}
    BY <1>1
  <2>3. IsPage(s, n, S)
    BY <1>1, <1>3, <2>2 DEF IsPage
  <2> QED
    BY <2>1, <2>3 DEF page
<1>4. CASE ~ (Len(s) <= n)
  <2>1. page = SubSeq(s, 1, n)
    BY <1>2, <1>4
  <2>2. page \in Seq(S) /\ Len(page) = n /\ \A i \in 1..n : page[i] = s[i]
    BY <1>1, <1>4, <2>1
  <2>3. \A d \in S : d <= page[n] => \E i \in 1..n : page[i] = d
    <3> SUFFICES ASSUME NEW d \in S, d <= page[n] PROVE \E i \in 1..n : page[i] = d
      OBVIOUS
    <3>1. PICK i \in 1..Len(s) : s[i] = d
      BY <1>1
    <3>2. page[n] = s[n] /\ n \in 1..Len(s)
      BY <1>1, <1>4, <2>2
    <3>3. s[n] \in S
      BY <1>1, <3>2
    <3>4. s[n] \in Int /\ d \in Int
      BY <3>3
    <3>5. ~ (n < i)
      BY <1>1, <3>1, <3>2, <3>4
    <3> QED
      BY <2>2, <3>1, <3>5
  <2>4. \A i, j \in 1..n : i < j => page[i] < page[j]
    BY <1>1, <1>4, <2>2
  <2>5. IsPage(page, n, S)
    BY <2>2, <2>3, <2>4 DEF IsPage
  <2> QED
    BY <2>5 DEF page
<1> QED
  BY <1>3, <1>4

\* at are the places of s whose elements are in S, in order.
KeepsPlaces(s, S, at) ==
    /\ at \in Seq(1..Len(s)) /\ Len(Kept(s, S)) = Len(at)
    /\ \A k \in 1..Len(at) : s[at[k]] \in S /\ Kept(s, S)[k] = s[at[k]]
    /\ \A i \in 1..Len(s) : s[i] \in S => \E k \in 1..Len(at) : at[k] = i
    /\ \A j, k \in 1..Len(at) : j < k => at[j] < at[k]

LEMMA KeptPlaces ==
    ASSUME NEW T, NEW s \in Seq(T), NEW S
    PROVE  Kept(s, S) \in Seq(T) /\ \E at : KeepsPlaces(s, S, at)
<1> DEFINE P == {i \in DOMAIN s : s[i] \in S}
           at == InOrder(P)
<1>1. P \in SUBSET Int /\ P \subseteq 1..Len(s) /\ IsFiniteSet(P)
  <2>1. Len(s) \in Nat /\ DOMAIN s = 1..Len(s)
    OBVIOUS
  <2>2. IsFiniteSet(1..Len(s))
    BY <2>1, FS_Interval
  <2> QED
    BY <2>1, <2>2, FS_Subset
<1>2. Kept(s, S) = [k \in DOMAIN at |-> s[at[k]]]
  BY DEF Kept
<1>3. \A i \in 1..Len(s) : s[i] \in S => i \in P
  OBVIOUS
<1>4. \A i \in P : s[i] \in S /\ s[i] \in T
  OBVIOUS
<1> HIDE DEF P
<1>5. /\ at \in Seq(P) /\ Len(at) \in Nat
      /\ \A d \in P : \E i \in 1..Len(at) : at[i] = d
      /\ \A i, j \in 1..Len(at) : i < j => at[i] < at[j]
  BY <1>1, InOrderSorts
<1> HIDE DEF at
<1>6. /\ DOMAIN at = 1..Len(at) /\ \A k \in 1..Len(at) : at[k] \in P
  BY <1>5
<1>7. at \in Seq(1..Len(s))
  <2>1. at \in [1..Len(at) -> 1..Len(s)]
    <3>1. at \in [1..Len(at) -> P]
      BY <1>5
    <3> QED
      BY <1>1, <3>1
  <2> QED
    BY <1>5, <2>1
<1>8. Kept(s, S) \in [1..Len(at) -> T]
  BY <1>2, <1>4, <1>6
<1>9. Kept(s, S) \in Seq(T) /\ Len(Kept(s, S)) = Len(at)
  <2> DEFINE n == Len(at)  kept == Kept(s, S)
  <2>1. n \in Nat /\ kept \in [1..n -> T]
    BY <1>5, <1>8
  <2> HIDE DEF n, kept
  <2>2. kept \in Seq(T) /\ Len(kept) = n
    BY <2>1
  <2> QED
    BY <2>2 DEF n, kept
<1>10. \A k \in 1..Len(at) : s[at[k]] \in S /\ Kept(s, S)[k] = s[at[k]]
  BY <1>2, <1>4, <1>6
<1>11. \A i \in 1..Len(s) : s[i] \in S => \E k \in 1..Len(at) : at[k] = i
  BY <1>3, <1>5
<1> QED
  BY <1>5, <1>7, <1>9, <1>10, <1>11 DEF KeepsPlaces

\* Kept(s, S) has the elements of s that are in S, each once if s has.
LEMMA KeptElements ==
    ASSUME NEW T, NEW s \in Seq(T), NEW S
    PROVE  /\ Kept(s, S) \in Seq(T)
           /\ ToSet(Kept(s, S)) = ToSet(s) \cap S
           /\ IsInjective(s) => IsInjective(Kept(s, S))
<1> DEFINE kept == Kept(s, S)
<1>0. PICK at : KeepsPlaces(s, S, at)
  BY KeptPlaces
<1>1. /\ at \in Seq(1..Len(s)) /\ Len(kept) = Len(at) /\ kept \in Seq(T)
      /\ \A k \in 1..Len(at) : s[at[k]] \in S /\ kept[k] = s[at[k]]
      /\ \A i \in 1..Len(s) : s[i] \in S => \E k \in 1..Len(at) : at[k] = i
      /\ \A j, k \in 1..Len(at) : j < k => at[j] < at[k]
  BY <1>0, KeptPlaces DEF KeepsPlaces
<1> HIDE DEF kept
<1>2. /\ DOMAIN s = 1..Len(s) /\ Len(s) \in Nat
      /\ DOMAIN kept = 1..Len(at) /\ Len(at) \in Nat
      /\ \A k \in 1..Len(at) : at[k] \in 1..Len(s)
  BY <1>1
<1>3. ToSet(kept) \subseteq ToSet(s) \cap S
  BY <1>1, <1>2 DEF ToSet
<1>4. ToSet(s) \cap S \subseteq ToSet(kept)
  <2> SUFFICES ASSUME NEW i \in 1..Len(s), s[i] \in S PROVE s[i] \in ToSet(kept)
    BY <1>2 DEF ToSet
  <2>1. PICK k \in 1..Len(at) : at[k] = i
    BY <1>1
  <2>2. kept[k] = s[i] /\ k \in DOMAIN kept
    BY <1>1, <1>2, <2>1
  <2> QED
    BY <2>2 DEF ToSet
<1>5. IsInjective(s) => IsInjective(kept)
  <2> SUFFICES ASSUME IsInjective(s), NEW j \in 1..Len(at), NEW k \in 1..Len(at),
                      kept[j] = kept[k]
               PROVE  j = k
    BY <1>2 DEF IsInjective
  <2>1. at[j] = at[k]
    BY <1>1, <1>2 DEF IsInjective
  <2>2. at[j] \in Int /\ at[k] \in Int
    BY <1>2
  <2>3. ~ (j < k) /\ ~ (k < j)
    BY <1>1, <2>1, <2>2
  <2> QED
    BY <2>3
<1> QED
  BY <1>1, <1>3, <1>4, <1>5 DEF kept

\* A sequence all of whose elements are kept is left as it is.
LEMMA KeptAll ==
    ASSUME NEW T, NEW s \in Seq(T), NEW S, \A i \in 1..Len(s) : s[i] \in S
    PROVE  Kept(s, S) = s
<1> DEFINE n == Len(s)
           at == InOrder({i \in DOMAIN s : s[i] \in S})
<1>1. n \in Nat /\ DOMAIN s = 1..n /\ {i \in DOMAIN s : s[i] \in S} = 1..n
  OBVIOUS
<1>2. at = InOrder(1..n)
  BY <1>1
<1>3. 1..n \in SUBSET Int /\ IsFiniteSet(1..n) /\ Cardinality(1..n) = n
  <2>1. /\ IsFiniteSet(1..n)
        /\ Cardinality(1..n) = IF 1 > n THEN 0 ELSE n - 1 + 1
    BY <1>1, FS_Interval
  <2> QED
    BY <1>1, <2>1
<1>4. \A i \in 1..n : InOrder(1..n)[i] = i
  <2> SUFFICES ASSUME NEW i \in 1..n PROVE InOrder(1..n)[i] = i
    OBVIOUS
  <2>1. {e \in 1..n : e < i} = 1..i - 1
    BY <1>1
  <2>2. Cardinality(1..i - 1) = IF 1 > i - 1 THEN 0 ELSE i - 1 - 1 + 1
    <3>1. 1 \in Int /\ i - 1 \in Int
      OBVIOUS
    <3> QED
      BY <3>1, FS_Interval
  <2>3. Rank(1..n, i) = i - 1
    <3>1. Cardinality(1..i - 1) = i - 1
      BY <1>1, <2>2
    <3> QED
      BY <2>1, <3>1 DEF Rank
  <2>4. \A d, e \in 1..n : Rank(1..n, d) = Rank(1..n, e) => d = e
    BY <1>3, RanksFill
  <2>5. InOrder(1..n)[i] = CHOOSE d \in 1..n : Rank(1..n, d) = i - 1
    BY <1>3 DEF InOrder
  <2> QED
    BY <2>3, <2>4, <2>5
<1>5. DOMAIN InOrder(1..n) = 1..n
  BY <1>3 DEF InOrder
<1>6. Kept(s, S) = [k \in DOMAIN at |-> s[at[k]]]
  BY DEF Kept
<1> HIDE DEF at
<1>7. Kept(s, S) = [k \in 1..n |-> s[k]]
  BY <1>2, <1>4, <1>5, <1>6
<1> QED
  BY <1>1, <1>7

\* i comes before j, or is j, in the sorted s.
Upto(s, i, j) == s[i] < s[j] \/ (s[i] = s[j] /\ i <= j)

\* The places of a sequence's elements are 1 up to its length, each once: by the
\* pigeonhole again.
LEMMA PlacesFill ==
    ASSUME NEW s \in Seq(Int)
    PROVE  \A k \in 1..Len(s) : \E j \in 1..Len(s) : Place(s, j) = k
<1> DEFINE n == Len(s)
           U(j) == {i \in 1..n : Upto(s, i, j)}
           f == [j \in 1..n |-> Cardinality(U(j))]
<1>1. n \in Nat /\ DOMAIN s = 1..n /\ \A j \in 1..n : s[j] \in Int
  BY ElementOfSeq
<1>2. IsFiniteSet(1..n) /\ Cardinality(1..n) = n
  <2>1. /\ IsFiniteSet(1..n)
        /\ Cardinality(1..n) = IF 1 > n THEN 0 ELSE n - 1 + 1
    BY <1>1, FS_Interval
  <2> QED
    BY <1>1, <2>1
<1>3. \A j \in 1..n : U(j) \subseteq 1..n /\ j \in U(j)
  BY <1>1 DEF Upto
<1>4. \A j \in 1..n : /\ IsFiniteSet(U(j)) /\ Cardinality(U(j)) \in 1..n
                      /\ Place(s, j) = Cardinality(U(j))
  <2> SUFFICES ASSUME NEW j \in 1..n
               PROVE  /\ IsFiniteSet(U(j)) /\ Cardinality(U(j)) \in 1..n
                      /\ Place(s, j) = Cardinality(U(j))
    OBVIOUS
  <2>1. Place(s, j) = Cardinality(U(j))
    BY <1>1 DEF Place, Upto
  <2>2. U(j) \subseteq 1..n /\ j \in U(j)
    BY <1>3
  <2> HIDE DEF U
  <2>3. IsFiniteSet(U(j)) /\ Cardinality(U(j)) <= n
    BY <1>2, <2>2, FS_Subset
  <2>4. Cardinality(U(j)) \in Nat /\ Cardinality(U(j)) # 0
    BY <2>2, <2>3, FS_CardinalityType, FS_EmptySet
  <2> QED
    BY <1>1, <2>1, <2>3, <2>4
<1>5. \A i, j \in 1..n : i # j => Cardinality(U(i)) # Cardinality(U(j))
  <2>1. ASSUME NEW i \in 1..n, NEW j \in 1..n, i # j, Upto(s, i, j)
        PROVE  Cardinality(U(i)) # Cardinality(U(j))
    <3>1. U(i) \subseteq U(j)
      <4> SUFFICES ASSUME NEW k \in 1..n, Upto(s, k, i) PROVE Upto(s, k, j)
        OBVIOUS
      <4>1. s[i] \in Int /\ s[j] \in Int /\ s[k] \in Int
        BY <1>1
      <4> QED
        BY <2>1, <4>1 DEF Upto
    <3>2. j \in U(j) /\ j \notin U(i)
      <4>1. s[i] \in Int /\ s[j] \in Int
        BY <1>1
      <4> QED
        BY <1>3, <2>1, <4>1 DEF Upto
    <3>3. IsFiniteSet(U(j))
      BY <1>4
    <3> HIDE DEF U
    <3> QED
      BY <3>1, <3>2, <3>3, FS_Subset
  <2>2. \A i, j \in 1..n : Upto(s, i, j) \/ Upto(s, j, i)
    BY <1>1 DEF Upto
  <2> HIDE DEF U
  <2> QED
    BY <2>1, <2>2
<1> HIDE DEF U
<1>6. f \in Injection(1..n, 1..n)
  BY <1>4, <1>5 DEF Injection, IsInjective
<1>7. f \in Surjection(1..n, 1..n)
  BY <1>2, <1>6, FS_Injection
<1>8. \A k \in 1..n : \E j \in 1..n : f[j] = k
  BY <1>7 DEF Surjection
<1> QED
  BY <1>4, <1>8

\* Sorted(s) has the elements of s, and no others.
LEMMA SortedElements ==
    ASSUME NEW T \in SUBSET Int, NEW s \in Seq(T)
    PROVE  /\ Sorted(s) \in Seq(T) /\ Len(Sorted(s)) = Len(s)
           /\ ToSet(Sorted(s)) = ToSet(s)
<1> DEFINE n == Len(s)
           at == [k \in 1..n |-> CHOOSE j \in 1..n : Place(s, j) = k]
<1>1. n \in Nat /\ DOMAIN s = 1..n /\ s \in Seq(Int) /\ \A j \in 1..n : s[j] \in T
  <2>1. s \in [1..n -> T] /\ n \in Nat
    OBVIOUS
  <2>2. s \in [1..n -> Int]
    BY <2>1
  <2> QED
    BY <2>1, <2>2
<1>2. \A k \in 1..n : at[k] \in 1..n /\ Place(s, at[k]) = k
  BY <1>1, PlacesFill
<1>3. IsFiniteSet(1..n)
  BY <1>1, FS_Interval
<1>4. Sorted(s) = [k \in 1..n |-> s[at[k]]]
  BY <1>1 DEF Sorted
<1> HIDE DEF at
<1>5. at \in Injection(1..n, 1..n)
  <2>1. at \in [1..n -> 1..n]
    BY <1>2 DEF at
  <2> QED
    BY <1>2, <2>1 DEF Injection, IsInjective
<1>6. at \in Surjection(1..n, 1..n)
  BY <1>3, <1>5, FS_Injection
<1>7. Sorted(s) \in [1..n -> T]
  BY <1>1, <1>2, <1>4
<1>8. Sorted(s) \in Seq(T) /\ Len(Sorted(s)) = n
  <2> DEFINE sorted == Sorted(s)
  <2>1. sorted \in [1..n -> T]
    BY <1>7
  <2> HIDE DEF sorted
  <2>2. sorted \in Seq(T) /\ Len(sorted) = n
    BY <1>1, <2>1
  <2> QED
    BY <2>2 DEF sorted
<1>9. ToSet(Sorted(s)) \subseteq ToSet(s)
  BY <1>1, <1>2, <1>4 DEF ToSet
<1>10. ToSet(s) \subseteq ToSet(Sorted(s))
  <2> SUFFICES ASSUME NEW j \in 1..n PROVE s[j] \in ToSet(Sorted(s))
    BY <1>1 DEF ToSet
  <2>1. PICK k \in 1..n : at[k] = j
    BY <1>6 DEF Surjection
  <2>2. Sorted(s)[k] = s[j] /\ k \in DOMAIN Sorted(s)
    BY <1>4, <2>1
  <2> QED
    BY <2>2 DEF ToSet
<1> QED
  BY <1>8, <1>9, <1>10
===============================================================================
