----------------------------- MODULE AnchorProofs -----------------------------
(***************************************************************************)
(* Where a finding goes, for files, hunks and quotes of any length.  What  *)
(* is read of the diff git writes is the edit's runs of shown lines, each  *)
(* with its lines' numbers (HunksAre); what is found in it are the places  *)
(* of the new version that it shows and that read as the quote does        *)
(* (GroupsMatch); so whatever a search says of a finding is true           *)
(* (AnchoredTrulyAlways).                                                  *)
(***************************************************************************)
EXTENDS Anchoring, DataFacts

-----------------------------------------------------------------------------
(* Anchors: counting indexes *)

LEMMA CountType ==
  ASSUME NEW n, NEW S \in SUBSET Nat, IsFiniteSet(S)
  PROVE  /\ IsFiniteSet({i \in S : i <= n})
         /\ CountTo(S, n) \in Nat /\ Cardinality(S) \in Nat /\ CountTo(S, n) <= Cardinality(S)
<1>1. {i \in S : i <= n} \in SUBSET S
  OBVIOUS
<1>2. QED BY <1>1, FS_Subset, FS_CardinalityType DEF CountTo

\* One index more.
LEMMA CountStep ==
  ASSUME NEW S \in SUBSET Nat, NEW n \in Nat, IsFiniteSet(S)
  PROVE  CountTo(S, n + 1) = CountTo(S, n) + (IF n + 1 \in S THEN 1 ELSE 0)
<1> DEFINE T(m) == {i \in S : i <= m}
<1>1. IsFiniteSet(T(n)) /\ Cardinality(T(n)) \in Nat
  BY CountType, FS_CardinalityType
<1>2. \A i \in S : i \in Nat /\ (i <= n + 1 <=> i <= n \/ i = n + 1)
  OBVIOUS
<1>3. CASE n + 1 \in S
  <2>a. \A i : i \in T(n + 1) <=> i \in T(n) \cup {n + 1}
    BY <1>2, <1>3
  <2>b. n + 1 \notin T(n)
    OBVIOUS
  <2>1. T(n + 1) = T(n) \cup {n + 1} /\ n + 1 \notin T(n)
    <3> HIDE DEF T
    <3>1. QED BY <2>a, <2>b
  <2>2. Cardinality(T(n + 1)) = Cardinality(T(n)) + 1
    <3> HIDE DEF T
    <3>1. QED BY <1>1, <2>1, FS_AddElement
  <2>3. QED BY <1>3, <2>2 DEF CountTo
<1>4. CASE n + 1 \notin S
  <2>1. T(n + 1) = T(n)
    BY <1>2, <1>4
  <2>2. CountTo(S, n + 1) = CountTo(S, n)
    BY <2>1 DEF CountTo
  <2>3. QED BY <1>1, <1>4, <2>2, CountType
<1>5. QED BY <1>3, <1>4

LEMMA CountGrows ==
  ASSUME NEW S \in SUBSET Nat, NEW m \in Nat, NEW n \in Nat, IsFiniteSet(S), m <= n
  PROVE  /\ CountTo(S, m) <= CountTo(S, n)
         /\ m < n /\ n \in S => CountTo(S, m) < CountTo(S, n)
<1> DEFINE A == {i \in S : i <= m}
           B == {i \in S : i <= n}
<1>a. \A i \in S : i \in Nat /\ (i <= m => i <= n) /\ (m < n => ~(n <= m)) /\ n <= n
  OBVIOUS
<1>b. m < n /\ n \in S => n \in B /\ n \notin A
  BY <1>a
<1>1. A \in SUBSET B /\ (m < n /\ n \in S => A # B)
  <2>1. A \in SUBSET B
    BY <1>a
  <2> HIDE DEF A, B
  <2>2. QED BY <1>b, <2>1
<1>2. IsFiniteSet(B) /\ CountTo(S, m) = Cardinality(A) /\ CountTo(S, n) = Cardinality(B)
      /\ CountTo(S, m) \in Nat /\ CountTo(S, n) \in Nat
  BY CountType DEF CountTo
<1> HIDE DEF A, B
<1>3. Cardinality(A) <= Cardinality(B) /\ (Cardinality(B) = Cardinality(A) => B = A)
  BY <1>1, <1>2, FS_Subset
<1>4. QED BY <1>1, <1>2, <1>3

\* Two indexes of the set are ordered as their counts are.
LEMMA CountOrder ==
  ASSUME NEW S \in SUBSET Nat, NEW m \in S, NEW n \in S, IsFiniteSet(S)
  PROVE  /\ m < n <=> CountTo(S, m) < CountTo(S, n)
         /\ m = n <=> CountTo(S, m) = CountTo(S, n)
<1>1. m \in Nat /\ n \in Nat /\ CountTo(S, m) \in Nat /\ CountTo(S, n) \in Nat
  BY CountType
<1>2. CASE m < n
  <2>1. CountTo(S, m) < CountTo(S, n)
    BY <1>1, <1>2, CountGrows
  <2>2. QED BY <1>1, <1>2, <2>1
<1>3. CASE n < m
  <2>1. CountTo(S, n) < CountTo(S, m)
    BY <1>1, <1>3, CountGrows
  <2>2. QED BY <1>1, <1>3, <2>1
<1>4. QED BY <1>1, <1>2, <1>3

LEMMA CountEnds ==
  ASSUME NEW S \in SUBSET Nat, NEW m \in Nat, IsFiniteSet(S)
  PROVE  /\ (\A i \in S : i > m) => CountTo(S, m) = 0
         /\ (\A i \in S : i <= m) => CountTo(S, m) = Cardinality(S)
<1>1. ASSUME \A i \in S : i > m PROVE CountTo(S, m) = 0
  <2>1. {i \in S : i <= m} = {}
    <3>1. \A i \in S : i \in Nat /\ ~(i <= m)
      BY <1>1
    <3>2. QED BY <3>1
  <2>2. QED BY <2>1, FS_EmptySet DEF CountTo
<1>2. ASSUME \A i \in S : i <= m PROVE CountTo(S, m) = Cardinality(S)
  <2>1. {i \in S : i <= m} = S
    BY <1>2
  <2>2. QED BY <2>1 DEF CountTo
<1>3. QED BY <1>1, <1>2

\* Every number up to the set's size is the count of one of its members.
LEMMA CountHits ==
  ASSUME NEW S \in SUBSET Nat, IsFiniteSet(S)
  PROVE  /\ \A i \in S : CountTo(S, i) \in 1..Cardinality(S)
         /\ \A k \in 1..Cardinality(S) : \E i \in S : CountTo(S, i) = k
<1> DEFINE N == Cardinality(S)
           f == [i \in S |-> CountTo(S, i)]
<1>1. N \in Nat
  BY FS_CardinalityType
<1>2. ASSUME NEW i \in S PROVE CountTo(S, i) \in 1..N
  <2>1. i \in {j \in S : j <= i}
    OBVIOUS
  <2>2. CountTo(S, i) \in Nat /\ CountTo(S, i) <= N /\ IsFiniteSet({j \in S : j <= i})
    BY CountType
  <2>3. Cardinality({j \in S : j <= i}) # 0
    BY <2>1, <2>2, FS_EmptySet
  <2>4. CountTo(S, i) # 0
    BY <2>3 DEF CountTo
  <2>5. QED BY <1>1, <2>2, <2>4
<1>3. f \in [S -> 1..N]
  BY <1>2
<1>4. \A a, b \in S : f[a] = f[b] => a = b
  BY CountOrder
<1>5. \A i \in S : f[i] = CountTo(S, i)
  OBVIOUS
<1> HIDE DEF f, N
<1>6. f \in Injection(S, 1..N)
  BY <1>3, <1>4 DEF Injection, IsInjective
<1>7. IsFiniteSet(1..N) /\ Cardinality(1..N) = N
  BY <1>1, FS_Interval
<1>8. f \in Surjection(S, 1..N)
  BY <1>6, <1>7, FS_Injection DEF N
<1>9. \A k \in 1..N : \E i \in S : f[i] = k
  BY <1>8 DEF Surjection
<1>10. QED BY <1>2, <1>5, <1>9 DEF N

\* What is chosen: each of the indexes, at its count.
LEMMA ChosenIs ==
  ASSUME NEW seq, NEW I \in SUBSET Nat, IsFiniteSet(I)
  PROVE  /\ Cardinality(I) \in Nat /\ Len(Chosen(seq, I)) = Cardinality(I)
         /\ DOMAIN Chosen(seq, I) = 1..Cardinality(I)
         /\ \A i \in I : CountTo(I, i) \in 1..Cardinality(I) /\ Chosen(seq, I)[CountTo(I, i)] = seq[i]
         /\ \A k \in 1..Cardinality(I) : \E i \in I : CountTo(I, i) = k /\ Chosen(seq, I)[k] = seq[i]
<1>1. Cardinality(I) \in Nat
  BY FS_CardinalityType
<1>2. DOMAIN Chosen(seq, I) = 1..Cardinality(I)
  BY DEF Chosen
<1>3. Len(Chosen(seq, I)) = Cardinality(I)
  BY <1>1 DEF Chosen
<1>4. ASSUME NEW i \in I
      PROVE  CountTo(I, i) \in 1..Cardinality(I) /\ Chosen(seq, I)[CountTo(I, i)] = seq[i]
  <2>1. CountTo(I, i) \in 1..Cardinality(I)
    BY CountHits
  <2>2. PICK j : j = CHOOSE x \in I : CountTo(I, x) = CountTo(I, i)
    OBVIOUS
  <2>3. j \in I /\ CountTo(I, j) = CountTo(I, i)
    BY <2>2
  <2>4. j = i
    BY <2>3, CountOrder
  <2>5. Chosen(seq, I)[CountTo(I, i)] = seq[CHOOSE x \in I : CountTo(I, x) = CountTo(I, i)]
    BY <2>1 DEF Chosen
  <2>6. QED BY <2>1, <2>2, <2>4, <2>5
<1>5. \A k \in 1..Cardinality(I) : \E i \in I : CountTo(I, i) = k
  BY CountHits
<1>6. QED BY <1>1, <1>2, <1>3, <1>4, <1>5

\* A part of the set that lies between two numbers.
LEMMA CountPart ==
  ASSUME NEW S \in SUBSET Nat, NEW a \in Nat, NEW b \in Nat, NEW n \in Nat,
         IsFiniteSet(S), a <= n, n <= b
  PROVE  CountTo({i \in S : a < i /\ i <= b}, n) = CountTo(S, n) - CountTo(S, a)
<1> DEFINE A == {i \in S : i <= a}
           B == {i \in S : i <= n}
           P == {i \in {j \in S : a < j /\ j <= b} : i <= n}
<1>a. \A i \in S : (i <= a => i <= n) /\ (a < i <=> ~(i <= a)) /\ (i <= n => i <= b)
  <2>1. \A i \in S : i \in Nat
    OBVIOUS
  <2>2. QED BY <2>1
<1>1. P = B \ A /\ B \cap A = A
  <2>1. \A i : i \in P <=> i \in S /\ a < i /\ i <= b /\ i <= n
    OBVIOUS
  <2>2. \A i : i \in B \ A <=> i \in S /\ i <= n /\ ~(i <= a)
    OBVIOUS
  <2>3. B \cap A = A
    BY <1>a
  <2>4. \A i : i \in P <=> i \in B \ A
    BY <1>a, <2>1, <2>2
  <2> HIDE DEF P, A, B
  <2>5. QED BY <2>3, <2>4
<1>2. IsFiniteSet(B) /\ CountTo(S, a) = Cardinality(A) /\ CountTo(S, n) = Cardinality(B)
      /\ CountTo({i \in S : a < i /\ i <= b}, n) = Cardinality(P)
  BY CountType DEF CountTo
<1> HIDE DEF A, B, P
<1>3. Cardinality(B \ A) = Cardinality(B) - Cardinality(B \cap A)
  BY <1>2, FS_Difference
<1>4. Cardinality(P) = Cardinality(B) - Cardinality(A)
  BY <1>1, <1>3
<1>5. QED BY <1>2, <1>4

\* Two sets whose members go together in their order are counted alike.
LEMMA CountAlike ==
  ASSUME NEW S \in SUBSET Nat, NEW T \in SUBSET Nat, NEW f \in [S -> T], IsFiniteSet(S),
         \A i, j \in S : i < j => f[i] < f[j], \A t \in T : \E i \in S : f[i] = t
  PROVE  /\ IsFiniteSet(T) /\ Cardinality(T) = Cardinality(S)
         /\ \A i \in S : CountTo(T, f[i]) = CountTo(S, i)
<1>1. \A i, j \in S : i \in Nat /\ j \in Nat /\ f[i] \in Nat /\ f[j] \in Nat /\ (f[i] = f[j] => i = j)
                       /\ (i <= j <=> f[i] <= f[j])
  <2>1. ASSUME NEW i \in S, NEW j \in S
        PROVE i \in Nat /\ j \in Nat /\ f[i] \in Nat /\ f[j] \in Nat /\ (i < j => f[i] < f[j]) /\ (j < i => f[j] < f[i])
    OBVIOUS
  <2>2. ASSUME NEW i \in S, NEW j \in S
        PROVE i \in Nat /\ j \in Nat /\ f[i] \in Nat /\ f[j] \in Nat /\ (f[i] = f[j] => i = j)
                       /\ (i <= j <=> f[i] <= f[j])
    <3>1. i \in Nat /\ j \in Nat /\ f[i] \in Nat /\ f[j] \in Nat /\ (i < j => f[i] < f[j]) /\ (j < i => f[j] < f[i])
      BY <2>1
    <3>2. CASE i = j
      BY <3>1, <3>2
    <3>3. CASE i < j
      BY <3>1, <3>3
    <3>4. CASE j < i
      BY <3>1, <3>4
    <3>5. QED BY <3>1, <3>2, <3>3, <3>4
  <2>3. QED BY <2>2
<1>2. f \in Bijection(S, T)
  BY <1>1 DEF Bijection, Injection, Surjection, IsInjective
<1>3. IsFiniteSet(T) /\ Cardinality(T) = Cardinality(S)
  BY <1>2, FS_Bijection DEF ExistsBijection
<1>4. ASSUME NEW i \in S PROVE CountTo(T, f[i]) = CountTo(S, i)
  <2> DEFINE A == {j \in S : j <= i}
             B == {t \in T : t <= f[i]}
             g == [j \in A |-> f[j]]
  <2>1. g \in [A -> B] /\ \A j \in A : g[j] = f[j]
    BY <1>1
  <2>2. \A t \in B : \E j \in A : g[j] = t
    BY <1>1
  <2>3. \A j, k \in A : g[j] = g[k] => j = k
    BY <1>1
  <2>4. IsFiniteSet(A) /\ CountTo(S, i) = Cardinality(A) /\ CountTo(T, f[i]) = Cardinality(B)
    BY CountType DEF CountTo
  <2> HIDE DEF A, B, g
  <2>5. g \in Bijection(A, B)
    BY <2>1, <2>2, <2>3 DEF Bijection, Injection, Surjection, IsInjective
  <2>6. QED BY <2>4, <2>5, FS_Bijection DEF ExistsBijection
<1>5. QED BY <1>3, <1>4

-----------------------------------------------------------------------------
(* Anchors: lines in order, and what fits them *)

\* g holds lines of a file in order: those numbered L; those numbered A are added.
Lists(g, c, L, A) ==
  /\ L \in SUBSET (Nat \ {0}) /\ IsFiniteSet(L)
  /\ Len(g) = Cardinality(L) /\ DOMAIN g = 1..Cardinality(L)
  /\ \A n \in L : LET l == g[CountTo(L, n)]
                 IN l.line = n /\ l.text = c[n].text /\ (l.kind = "add" <=> n \in A)

LEMMA ListsAt ==
  ASSUME NEW g, NEW c, NEW L, NEW A, Lists(g, c, L, A), NEW n \in L
  PROVE  /\ g[CountTo(L, n)].line = n /\ g[CountTo(L, n)].text = c[n].text
         /\ g[CountTo(L, n)].kind = "add" <=> n \in A
BY DEF Lists

\* The lines from a to b are the window of g that begins at a.
Window(g, c, F, A, a, b, i, m) ==
  /\ i \in 1..Len(g) /\ m \in Nat /\ m >= 1 /\ i + m - 1 <= Len(g) /\ Len(g) \in Nat
  /\ g[i].line = a /\ g[i + m - 1].line = b
  /\ Len(Chosen(c, F)) = m /\ DOMAIN Chosen(c, F) = 1..m
  /\ \A k \in 1..m : Chosen(c, F)[k].text = g[i + k - 1].text
  /\ (\E k \in i..(i + m - 1) : g[k].kind = "add") <=> F \cap A # {}

LEMMA WindowIs ==
  ASSUME NEW g, NEW c, NEW L, NEW A, Lists(g, c, L, A), NEW a \in L, NEW b \in L, a <= b,
         NEW F \in SUBSET L, \A n \in L : n \in F <=> a <= n /\ n <= b
  PROVE  /\ Window(g, c, F, A, a, b, CountTo(L, a), Cardinality(F))
         /\ CountTo(L, b) = CountTo(L, a) + Cardinality(F) - 1
<1> DEFINE i == CountTo(L, a)
           m == Cardinality(F)
<1>1. /\ L \in SUBSET Nat /\ IsFiniteSet(L) /\ a \in Nat \ {0} /\ b \in Nat \ {0}
      /\ Len(g) = Cardinality(L) /\ \A n \in L : n \in Nat \ {0}
  BY DEF Lists
<1>2. F \in SUBSET Nat /\ IsFiniteSet(F) /\ a \in F /\ b \in F
  <2>1. F \in SUBSET L /\ a <= a /\ b <= b
    BY <1>1
  <2>2. IsFiniteSet(F)
    BY <1>1, <2>1, FS_Subset
  <2>3. QED BY <1>1, <2>1, <2>2
<1>3. \A n \in L : CountTo(L, n) \in 1..Len(g)
  BY <1>1, CountHits
<1>4. Len(g) \in Nat /\ m \in Nat
  BY <1>1, <1>2, FS_CardinalityType
<1>5. CountTo(L, a - 1) = i - 1
  <2>1. a - 1 \in Nat /\ (a - 1) + 1 = a
    BY <1>1
  <2>2. CountTo(L, (a - 1) + 1) = CountTo(L, a - 1) + (IF (a - 1) + 1 \in L THEN 1 ELSE 0)
    BY <1>1, <2>1, CountStep
  <2>3. CountTo(L, a) = CountTo(L, a - 1) + 1 /\ CountTo(L, a - 1) \in Nat
    BY <1>1, <2>1, <2>2, CountType
  <2>4. QED BY <2>3
<1>6. ASSUME NEW n \in F PROVE n \in L /\ CountTo(F, n) = CountTo(L, n) - i + 1
  <2>1. n \in L /\ n \in Nat /\ a - 1 \in Nat /\ a - 1 <= n /\ n <= b
    BY <1>1
  <2>2. F = {j \in L : a - 1 < j /\ j <= b}
    <3>1. \A j \in L : a - 1 < j <=> a <= j
      BY <1>1
    <3>2. QED BY <3>1
  <2>3. CountTo({j \in L : a - 1 < j /\ j <= b}, n) = CountTo(L, n) - CountTo(L, a - 1)
    BY <1>1, <2>1, CountPart
  <2>4. CountTo(F, n) = CountTo(L, n) - (i - 1)
    BY <1>5, <2>2, <2>3
  <2>5. QED BY <1>3, <2>1, <2>4
<1>7. m = CountTo(L, b) - i + 1
  <2>1. \A n \in F : n <= b
    OBVIOUS
  <2>2. CountTo(F, b) = m
    BY <1>1, <1>2, <2>1, CountEnds
  <2>3. QED BY <1>2, <1>6, <2>2
<1>8. i \in 1..Len(g) /\ CountTo(L, b) \in 1..Len(g) /\ CountTo(L, b) = i + m - 1
  BY <1>3, <1>4, <1>7
<1>9. m >= 1
  <2>1. m # 0
    BY <1>2, FS_EmptySet
  <2>2. QED BY <1>4, <2>1
<1>10. g[i].line = a /\ g[i + m - 1].line = b
  BY <1>8, ListsAt
<1>11. /\ Len(Chosen(c, F)) = m /\ DOMAIN Chosen(c, F) = 1..m
       /\ \A k \in 1..m : \E n \in F : CountTo(F, n) = k /\ Chosen(c, F)[k] = c[n]
       /\ \A n \in F : CountTo(F, n) \in 1..m
  <2>1. /\ Cardinality(F) \in Nat /\ Len(Chosen(c, F)) = Cardinality(F)
        /\ DOMAIN Chosen(c, F) = 1..Cardinality(F)
        /\ \A n \in F : CountTo(F, n) \in 1..Cardinality(F) /\ Chosen(c, F)[CountTo(F, n)] = c[n]
        /\ \A k \in 1..Cardinality(F) : \E n \in F : CountTo(F, n) = k /\ Chosen(c, F)[k] = c[n]
    BY <1>2, ChosenIs
  <2>2. QED BY <2>1
<1> HIDE DEF m, i
<1>12. ASSUME NEW k \in 1..m PROVE Chosen(c, F)[k].text = g[i + k - 1].text
  <2>1. PICK n \in F : CountTo(F, n) = k /\ Chosen(c, F)[k] = c[n]
    BY <1>11
  <2>2. n \in L /\ CountTo(L, n) = i + k - 1
    BY <1>3, <1>6, <1>8, <2>1
  <2>3. g[i + k - 1].text = c[n].text
    BY <2>2, ListsAt
  <2>4. QED BY <2>1, <2>3
<1>13. ASSUME NEW k \in i..(i + m - 1), g[k].kind = "add" PROVE F \cap A # {}
  <2>1. k - i + 1 \in 1..m
    BY <1>4, <1>8
  <2>2. PICK n \in F : CountTo(F, n) = k - i + 1
    BY <1>11, <2>1
  <2>3. n \in L /\ CountTo(L, n) = k
    BY <1>3, <1>6, <1>8, <2>2
  <2>4. n \in A
    BY <1>13, <2>3, ListsAt
  <2>5. QED BY <2>4
<1>14. ASSUME NEW n \in F \cap A PROVE \E k \in i..(i + m - 1) : g[k].kind = "add"
  <2>1. n \in L /\ CountTo(F, n) \in 1..m /\ CountTo(L, n) = CountTo(F, n) + i - 1
    BY <1>3, <1>6, <1>8, <1>11
  <2>2. CountTo(L, n) \in i..(i + m - 1)
    BY <1>4, <1>8, <2>1
  <2>3. g[CountTo(L, n)].kind = "add"
    BY <2>1, ListsAt
  <2>4. QED BY <2>2, <2>3
<1>15. Window(g, c, F, A, a, b, i, m)
  <2>1. i + m - 1 <= Len(g)
    BY <1>4, <1>8
  <2>2. (\E k \in i..(i + m - 1) : g[k].kind = "add") <=> F \cap A # {}
    BY <1>13, <1>14
  <2>3. QED BY <1>4, <1>8, <1>9, <1>10, <1>11, <1>12, <2>1, <2>2 DEF Window
<1>16. QED BY <1>8, <1>15 DEF i, m

LEMMA FilledIs ==
  ASSUME NEW c, NEW x \in Nat, NEW y \in Nat
  PROVE  Filled(c, x, y) \in SUBSET Nat /\ IsFiniteSet(Filled(c, x, y)) /\ Filled(c, x, y) \in SUBSET (x..y)
<1>1. x..y \in SUBSET Nat /\ Filled(c, x, y) \in SUBSET (x..y)
  BY DEF Filled
<1>2. IsFiniteSet(x..y)
  BY FS_Interval
<1>3. QED BY <1>1, <1>2, FS_Subset

\* The filled lines from a to b, of those from x to y.
LEMMA FilledWithin ==
  ASSUME NEW c, NEW x \in Nat, NEW y \in Nat, NEW a \in Filled(c, x, y), NEW b \in Filled(c, x, y)
  PROVE  /\ Filled(c, a, b) \in SUBSET Filled(c, x, y)
         /\ \A n \in Filled(c, x, y) : n \in Filled(c, a, b) <=> a <= n /\ n <= b
<1>1. \A n \in a..b : n \in x..y
  BY DEF Filled
<1>2. \A n \in x..y : n \in a..b <=> a <= n /\ n <= b
  BY DEF Filled
<1>3. QED BY <1>1, <1>2 DEF Filled

\* The filled lines from a to b are those looked for.
ReadsAt(c, a, b, target, partly) ==
  LET there == Chosen(c, Filled(c, a, b))
  IN Len(there) = Len(target) /\ \A k \in DOMAIN there : Fits(there[k].text, target[k], partly)

MatchOf(c, A, a, b) == [range |-> <<a, b>>, added |-> Filled(c, a, b) \cap A # {}]

Sized(s, n) == n \in Nat /\ Len(s) = n /\ DOMAIN s = 1..n

\* The matches among lines in order are the places of the file that read so.
LEMMA MatchesAre ==
  ASSUME NEW g, NEW c, NEW A, NEW x \in Nat, NEW y \in Nat, NEW target, NEW partly, NEW m,
         Lists(g, c, Filled(c, x, y), A), m # 0, Sized(target, m)
  PROVE  \A z : z \in Matches(g, target, partly) <=>
           \E a, b \in Filled(c, x, y) : /\ a <= b /\ ReadsAt(c, a, b, target, partly)
                                       /\ z = MatchOf(c, A, a, b)
<1> DEFINE L == Filled(c, x, y)
           Fit(i) == \A k \in DOMAIN target : Fits(g[i + k - 1].text, target[k], partly)
           Of(i) == [range |-> <<g[i].line, g[i + m - 1].line>>,
                     added |-> \E k \in i..(i + m - 1) : g[k].kind = "add"]
<1>0. m \in Nat /\ Len(target) = m /\ DOMAIN target = 1..m
  BY DEF Sized
<1>1. L \in SUBSET Nat /\ IsFiniteSet(L)
  BY FilledIs
<1>2. Len(g) = Cardinality(L) /\ DOMAIN g = 1..Len(g) /\ Len(g) \in Nat
  BY <1>1, FS_CardinalityType DEF Lists
<1>3. \A z : z \in Matches(g, target, partly) <=>
        \E i \in DOMAIN g : i + m - 1 <= Len(g) /\ Fit(i) /\ z = Of(i)
  BY <1>0 DEF Matches
<1>4. ASSUME NEW a \in L, NEW b \in L, a <= b
      PROVE  /\ Window(g, c, Filled(c, a, b), A, a, b, CountTo(L, a), Cardinality(Filled(c, a, b)))
             /\ CountTo(L, b) = CountTo(L, a) + Cardinality(Filled(c, a, b)) - 1
  BY <1>4, FilledWithin, WindowIs
<1> HIDE DEF L
<1>5. ASSUME NEW i \in DOMAIN g, i + m - 1 <= Len(g), Fit(i)
      PROVE  \E a, b \in L : a <= b /\ ReadsAt(c, a, b, target, partly) /\ Of(i) = MatchOf(c, A, a, b)
  <2>1. i \in 1..Cardinality(L) /\ i + m - 1 \in 1..Cardinality(L)
    BY <1>0, <1>2, <1>5
  <2>2. PICK a \in L : CountTo(L, a) = i
    BY <1>1, <2>1, CountHits
  <2>3. PICK b \in L : CountTo(L, b) = i + m - 1
    BY <1>1, <2>1, CountHits
  <2>4. a <= b
    <3>1. a \in Nat /\ b \in Nat
      BY <1>1
    <3>2. ~(b < a)
      <4>1. ~(CountTo(L, b) < CountTo(L, a))
        BY <1>0, <2>1, <2>2, <2>3
      <4>2. QED BY <1>1, <4>1, CountOrder
    <3>3. QED BY <3>1, <3>2
  <2> DEFINE F == Filled(c, a, b)
  <2>5. Window(g, c, F, A, a, b, CountTo(L, a), Cardinality(F)) /\ CountTo(L, b) = CountTo(L, a) + Cardinality(F) - 1
    BY <1>4, <2>4
  <2> HIDE DEF F
  <2>6. Cardinality(F) = m
    <3>1. Cardinality(F) \in Nat
      BY <2>5 DEF Window
    <3>2. QED BY <1>0, <2>1, <2>2, <2>3, <2>5, <3>1
  <2>7. Window(g, c, F, A, a, b, i, m)
    BY <2>2, <2>5, <2>6
  <2>8. Of(i) = MatchOf(c, A, a, b)
    BY <2>7 DEF Window, MatchOf, F
  <2>9. ReadsAt(c, a, b, target, partly)
    BY <1>0, <1>5, <2>7 DEF Window, ReadsAt, F
  <2>10. QED BY <2>4, <2>8, <2>9
<1>6. ASSUME NEW a \in L, NEW b \in L, a <= b, ReadsAt(c, a, b, target, partly)
      PROVE  \E i \in DOMAIN g : i + m - 1 <= Len(g) /\ Fit(i) /\ MatchOf(c, A, a, b) = Of(i)
  <2> DEFINE F == Filled(c, a, b)
             i == CountTo(L, a)
  <2>1. Window(g, c, F, A, a, b, i, Cardinality(F))
    BY <1>4, <1>6
  <2> HIDE DEF F, i
  <2>2. Cardinality(F) = m
    BY <1>0, <1>6, <2>1 DEF Window, ReadsAt, F
  <2>3. Window(g, c, F, A, a, b, i, m)
    BY <2>1, <2>2
  <2>4. i \in DOMAIN g /\ i + m - 1 <= Len(g)
    BY <1>2, <2>3 DEF Window
  <2>5. Fit(i)
    BY <1>0, <1>6, <2>3 DEF Window, ReadsAt, F
  <2>6. MatchOf(c, A, a, b) = Of(i)
    BY <2>3 DEF Window, MatchOf, F
  <2>7. QED BY <2>4, <2>5, <2>6
<1> HIDE DEF Fit, Of
<1>7. QED BY <1>3, <1>5, <1>6 DEF L

-----------------------------------------------------------------------------
(* Anchors: what the diff shows *)

EditLines == [did : {"same", "context", "add", "delete"}, text : Texts]

LEMMA EditIs ==
  ASSUME NEW e \in Seq(EditLines)
  PROVE  /\ Len(e) \in Nat /\ DOMAIN e = 1..Len(e)
         /\ \A i \in 1..Len(e) : e[i].did \in {"same", "context", "add", "delete"} /\ e[i].text \in Texts
         /\ \A i : Shown(e, i) => i \in 1..Len(e)
         /\ NewLines(e) \in SUBSET (1..Len(e)) /\ NewLines(e) \in SUBSET Nat /\ IsFiniteSet(NewLines(e))
         /\ OldLines(e) \in SUBSET (1..Len(e)) /\ OldLines(e) \in SUBSET Nat /\ IsFiniteSet(OldLines(e))
<1>1. Len(e) \in Nat /\ DOMAIN e = 1..Len(e) /\ \A i \in 1..Len(e) : e[i] \in EditLines
  BY LenProperties
<1>2. \A i \in 1..Len(e) : e[i].did \in {"same", "context", "add", "delete"} /\ e[i].text \in Texts
  BY <1>1 DEF EditLines
<1>3. IsFiniteSet(1..Len(e)) /\ 1..Len(e) \in SUBSET Nat
  BY <1>1, FS_Interval
<1>4. NewLines(e) \in SUBSET (1..Len(e)) /\ OldLines(e) \in SUBSET (1..Len(e))
  BY <1>1 DEF NewLines, OldLines
<1>5. IsFiniteSet(NewLines(e)) /\ IsFiniteSet(OldLines(e))
  BY <1>3, <1>4, FS_Subset
<1>6. \A i : Shown(e, i) => i \in 1..Len(e)
  BY <1>1 DEF Shown
<1>7. QED BY <1>1, <1>2, <1>3, <1>4, <1>5, <1>6

\* The new version's lines.
LEMMA AfterIs ==
  ASSUME NEW e \in Seq(EditLines)
  PROVE  /\ Len(After(e)) = Cardinality(NewLines(e)) /\ Len(After(e)) \in Nat
         /\ DOMAIN After(e) = 1..Len(After(e))
         /\ \A i \in NewLines(e) : LineOf(e, i) \in 1..Len(After(e)) /\ After(e)[LineOf(e, i)] = e[i]
         /\ \A n \in 1..Len(After(e)) : \E i \in NewLines(e) : LineOf(e, i) = n /\ After(e)[n] = e[i]
<1>1. NewLines(e) \in SUBSET Nat /\ IsFiniteSet(NewLines(e))
  BY EditIs
<1>2. QED BY <1>1, ChosenIs DEF After, LineOf

RunTo(e, i, j) == j \in i..Len(e) /\ ~Shown(e, j + 1) /\ \A k \in i..j : Shown(e, k)

LEMMA EndIs ==
  ASSUME NEW e \in Seq(EditLines), NEW i, Shown(e, i)
  PROVE  RunTo(e, i, EndOf(e, i)) /\ i \in 1..Len(e) /\ EndOf(e, i) \in 1..Len(e) /\ i <= EndOf(e, i)
<1>1. Len(e) \in Nat /\ i \in 1..Len(e) /\ \A k : Shown(e, k) => k \in 1..Len(e)
  BY EditIs
<1> DEFINE T == {n \in Nat : n >= i /\ ~Shown(e, n + 1)}
<1>2. Len(e) \in T
  BY <1>1
<1>3. PICK j \in T : \A n \in T : j <= n
  <2>1. T \in SUBSET Nat /\ T # {}
    BY <1>2
  <2> HIDE DEF T
  <2>2. QED BY <2>1, LeastNumber
<1>4. j \in i..Len(e) /\ ~Shown(e, j + 1)
  BY <1>1, <1>2, <1>3
<1>5. ASSUME NEW k \in i..j PROVE Shown(e, k)
  <2>1. CASE k = i
    BY <2>1
  <2>2. CASE k # i
    <3>1. k - 1 \in Nat /\ k - 1 >= i /\ (k - 1) + 1 = k /\ ~(j <= k - 1)
      BY <1>1, <1>4, <2>2
    <3>2. k - 1 \notin T
      BY <1>3, <3>1
    <3>3. QED BY <3>1, <3>2
  <2>3. QED BY <2>1, <2>2
<1>6. \E x \in i..Len(e) : ~Shown(e, x + 1) /\ \A k \in i..x : Shown(e, k)
  BY <1>4, <1>5
<1>7. RunTo(e, i, EndOf(e, i))
  BY <1>6 DEF RunTo, EndOf
<1>8. QED BY <1>1, <1>7 DEF RunTo

LEMMA EndOnly ==
  ASSUME NEW e \in Seq(EditLines), NEW i \in Nat, NEW j, NEW k, RunTo(e, i, j), RunTo(e, i, k)
  PROVE  j = k
<1>1. j \in Nat /\ k \in Nat /\ i <= j /\ i <= k
  BY EditIs DEF RunTo
<1>2. ~(j < k)
  <2>1. SUFFICES ASSUME j < k PROVE FALSE
    OBVIOUS
  <2>2. j + 1 \in i..k
    BY <1>1, <2>1
  <2>3. QED BY <2>2 DEF RunTo
<1>3. ~(k < j)
  <2>1. SUFFICES ASSUME k < j PROVE FALSE
    OBVIOUS
  <2>2. k + 1 \in i..j
    BY <1>1, <2>1
  <2>3. QED BY <2>2 DEF RunTo
<1>4. QED BY <1>1, <1>2, <1>3

LEMMA EndSame ==
  ASSUME NEW e \in Seq(EditLines), NEW i, NEW k, Shown(e, i), k \in i..EndOf(e, i)
  PROVE  EndOf(e, k) = EndOf(e, i) /\ Shown(e, k) /\ k \in Nat
<1>1. RunTo(e, i, EndOf(e, i)) /\ i \in 1..Len(e) /\ EndOf(e, i) \in 1..Len(e) /\ Len(e) \in Nat
  BY EndIs, EditIs
<1>2. k \in Nat /\ RunTo(e, k, EndOf(e, i)) /\ Shown(e, k)
  <2>1. k \in Nat /\ EndOf(e, i) \in k..Len(e) /\ \A n \in k..EndOf(e, i) : n \in i..EndOf(e, i)
    BY <1>1
  <2>2. QED BY <1>1, <2>1 DEF RunTo
<1>3. RunTo(e, k, EndOf(e, k))
  BY <1>2, EndIs
<1>4. QED BY <1>2, <1>3, EndOnly

Starts(e) == {i \in DOMAIN e : Shown(e, i) /\ ~Shown(e, i - 1)}

\* A line that is shown is of a run that begins somewhere.
LEMMA StartIs ==
  ASSUME NEW e \in Seq(EditLines), NEW i, Shown(e, i)
  PROVE  \E s \in Starts(e) : s \in Nat /\ s <= i /\ i \in s..EndOf(e, s)
<1>1. Len(e) \in Nat /\ DOMAIN e = 1..Len(e) /\ i \in 1..Len(e) /\ \A k : Shown(e, k) => k \in 1..Len(e)
  BY EditIs
<1> DEFINE T == {d \in Nat : d < i /\ ~Shown(e, i - d - 1)}
<1>2. i - 1 \in T
  <2>1. i - 1 \in Nat /\ i - 1 < i /\ i - (i - 1) - 1 = 0 /\ ~(0 \in 1..Len(e))
    BY <1>1
  <2>2. QED BY <1>1, <2>1
<1>3. PICK d \in T : \A n \in T : d <= n
  <2>1. T \in SUBSET Nat /\ T # {}
    BY <1>2
  <2> HIDE DEF T
  <2>2. QED BY <2>1, LeastNumber
<1>4. PICK s : s = i - d
  OBVIOUS
<1>5. s \in 1..Len(e) /\ s <= i /\ ~Shown(e, s - 1) /\ s \in Nat
  BY <1>1, <1>3, <1>4
<1>6. ASSUME NEW k \in s..i PROVE Shown(e, k)
  <2>1. CASE k = i
    BY <2>1
  <2>2. CASE k # i
    <3>1. i - k - 1 \in Nat /\ i - k - 1 < i /\ i - (i - k - 1) - 1 = k /\ ~(d <= i - k - 1)
      BY <1>1, <1>3, <1>4, <1>5, <2>2
    <3>2. i - k - 1 \notin T
      BY <1>3, <3>1
    <3>3. QED BY <3>1, <3>2
  <2>3. QED BY <2>1, <2>2
<1>7. Shown(e, s) /\ s \in Starts(e)
  <2>1. Shown(e, s)
    BY <1>1, <1>5, <1>6
  <2>2. QED BY <1>1, <1>5, <2>1 DEF Starts
<1>8. RunTo(e, s, EndOf(e, s)) /\ EndOf(e, s) \in Nat /\ s <= EndOf(e, s)
  BY <1>1, <1>7, EndIs
<1>9. ~(EndOf(e, s) < i)
  <2>1. SUFFICES ASSUME EndOf(e, s) < i PROVE FALSE
    OBVIOUS
  <2>2. EndOf(e, s) + 1 \in s..i
    BY <1>1, <1>5, <1>8, <2>1
  <2>3. QED BY <1>6, <1>8, <2>2 DEF RunTo
<1>10. QED BY <1>1, <1>5, <1>7, <1>8, <1>9

\* The lines of a hunk: those of the new version after the ones before it.
SideOf(e, s) == Side(NewLines(e), s, EndOf(e, s))
Spans(e, s, a, b) == CountTo(NewLines(e), s - 1) < a /\ b <= CountTo(NewLines(e), EndOf(e, s))

LEMMA SideIs ==
  ASSUME NEW e \in Seq(EditLines), NEW s \in Starts(e), NEW a \in Nat, NEW b \in Nat, a <= b
  PROVE  /\ SideOf(e, s).start \in Nat /\ SideOf(e, s).count \in Nat
         /\ SideOf(e, s).start <= a /\ b <= SideOf(e, s).start + SideOf(e, s).count - 1 <=> Spans(e, s, a, b)
<1>1. s \in 1..Len(e) /\ Shown(e, s) /\ NewLines(e) \in SUBSET Nat /\ IsFiniteSet(NewLines(e)) /\ Len(e) \in Nat
  BY EditIs DEF Starts
<1>2. EndOf(e, s) \in 1..Len(e) /\ s <= EndOf(e, s)
  BY <1>1, EndIs
<1> DEFINE x == CountTo(NewLines(e), s - 1)
           y == CountTo(NewLines(e), EndOf(e, s))
<1>3. x \in Nat /\ y \in Nat /\ x <= y
  <2>1. s - 1 \in Nat /\ EndOf(e, s) \in Nat /\ s - 1 <= EndOf(e, s)
    BY <1>1, <1>2
  <2>2. QED BY <1>1, <2>1, CountGrows, CountType
<1>4. SideOf(e, s) = [start |-> IF y - x = 0 THEN x ELSE x + 1, count |-> y - x]
  BY DEF SideOf, Side
<1>5. Spans(e, s, a, b) <=> x < a /\ b <= y
  BY DEF Spans
<1> HIDE DEF x, y
<1>6. CASE y = x
  BY <1>3, <1>4, <1>5, <1>6
<1>7. CASE y # x
  BY <1>3, <1>4, <1>5, <1>7
<1>8. QED BY <1>6, <1>7

\* The diff shows lines when one hunk spans them: two runs are apart by a line of
\* the new version that is not shown.
LEMMA ShowsIs ==
  ASSUME NEW e \in Seq(EditLines), NEW a \in Nat, NEW b \in Nat, a <= b
  PROVE  Shows(e, <<a, b>>) <=> \E s \in Starts(e) : Spans(e, s, a, b)
<1> DEFINE N == NewLines(e)
<1>1. /\ Len(e) \in Nat /\ DOMAIN e = 1..Len(e) /\ N \in SUBSET (1..Len(e)) /\ N \in SUBSET Nat /\ IsFiniteSet(N)
      /\ \A i : Shown(e, i) => i \in 1..Len(e)
  BY EditIs
<1>2. Shows(e, <<a, b>>) <=> \A n \in a..b : \E i \in N : Shown(e, i) /\ CountTo(N, i) = n
  <2>1. Shows(e, <<a, b>>) <=> a..b \subseteq ShownLines(e)
    BY DEF Shows
  <2>2. \A n : n \in ShownLines(e) <=> \E i \in N : Shown(e, i) /\ CountTo(N, i) = n
    BY DEF ShownLines, LineOf
  <2>3. QED BY <2>1, <2>2
<1> HIDE DEF N
<1>3. ASSUME NEW s \in Starts(e), Spans(e, s, a, b), NEW n \in a..b
      PROVE  \E i \in N : Shown(e, i) /\ CountTo(N, i) = n
  <2>1. s \in 1..Len(e) /\ Shown(e, s) /\ RunTo(e, s, EndOf(e, s)) /\ EndOf(e, s) \in 1..Len(e)
    BY <1>1, EndIs DEF Starts
  <2>2. CountTo(N, s - 1) < a /\ b <= CountTo(N, EndOf(e, s))
    BY <1>3 DEF Spans, N
  <2>3. CountTo(N, s - 1) \in Nat /\ CountTo(N, EndOf(e, s)) \in Nat /\ Cardinality(N) \in Nat
        /\ CountTo(N, EndOf(e, s)) <= Cardinality(N)
    BY <1>1, CountType
  <2>4. n \in 1..Cardinality(N)
    BY <2>2, <2>3
  <2>5. PICK i \in N : CountTo(N, i) = n
    BY <1>1, <2>4, CountHits
  <2>6. i \in Nat /\ s - 1 \in Nat /\ EndOf(e, s) \in Nat
    BY <1>1, <2>1
  <2>7. ~(i <= s - 1)
    <3>1. i <= s - 1 => CountTo(N, i) <= CountTo(N, s - 1)
      BY <1>1, <2>6, CountGrows
    <3>2. QED BY <2>2, <2>3, <2>5, <3>1
  <2>8. ~(EndOf(e, s) < i)
    <3>1. EndOf(e, s) < i => CountTo(N, EndOf(e, s)) < CountTo(N, i)
      BY <1>1, <2>6, CountGrows
    <3>2. QED BY <2>2, <2>3, <2>5, <3>1
  <2>9. i \in s..EndOf(e, s)
    BY <2>1, <2>6, <2>7, <2>8
  <2>10. QED BY <2>1, <2>5, <2>9 DEF RunTo
<1>4. ASSUME \A n \in a..b : \E i \in N : Shown(e, i) /\ CountTo(N, i) = n
      PROVE  \E s \in Starts(e) : Spans(e, s, a, b)
  <2>1. PICK i \in N : Shown(e, i) /\ CountTo(N, i) = a
    <3>1. a \in a..b
      OBVIOUS
    <3>2. QED BY <1>4, <3>1
  <2>2. PICK s \in Starts(e) : s \in Nat /\ s <= i /\ i \in s..EndOf(e, s)
    BY <2>1, StartIs
  <2>3. s \in 1..Len(e) /\ Shown(e, s) /\ RunTo(e, s, EndOf(e, s)) /\ EndOf(e, s) \in 1..Len(e)
    BY <1>1, EndIs DEF Starts
  <2>4. i \in Nat /\ s - 1 \in Nat /\ EndOf(e, s) \in Nat /\ i <= EndOf(e, s) /\ s - 1 < i
    BY <1>1, <2>2, <2>3
  <2>5. CountTo(N, s - 1) < a
    BY <1>1, <2>1, <2>4, CountGrows
  <2> DEFINE j == EndOf(e, s)
             z == CountTo(N, j)
  <2>6. z \in Nat /\ a <= z
    BY <1>1, <2>1, <2>4, CountGrows, CountType
  <2>7. b <= z
    <3>1. SUFFICES ASSUME ~(b <= z) PROVE FALSE
      OBVIOUS
    <3>2. z + 1 \in a..b
      BY <2>6, <3>1
    <3>3. PICK k \in N : Shown(e, k) /\ CountTo(N, k) = z + 1
      BY <1>4, <3>2
    <3>4. k \in Nat /\ k \in 1..Len(e)
      BY <1>1
    <3>5. j < k
      <4>1. ~(k <= j)
        <5>1. k <= j => CountTo(N, k) <= CountTo(N, j)
          BY <1>1, <2>4, <3>4, CountGrows
        <5>2. QED BY <2>6, <3>3, <5>1
      <4>2. QED BY <2>4, <3>4, <4>1
    <3>6. j + 1 \in 1..Len(e) /\ ~Shown(e, j + 1)
      BY <2>3, <3>4, <3>5 DEF RunTo
    <3>7. j + 1 \in N
      BY <1>1, <3>6 DEF Shown, NewLines, N
    <3>8. CountTo(N, j + 1) = z + 1
      BY <1>1, <2>4, <3>7, CountStep
    <3>9. j + 1 = k
      <4>1. PICK x : x = j + 1
        OBVIOUS
      <4>2. x \in N /\ CountTo(N, x) = CountTo(N, k)
        BY <3>3, <3>7, <3>8, <4>1
      <4>3. x = k
        BY <1>1, <4>2, CountOrder
      <4>4. QED BY <4>1, <4>3
    <3>10. QED BY <3>3, <3>6, <3>9
  <2>8. QED BY <2>5, <2>7 DEF Spans, N
<1>5. QED BY <1>2, <1>3, <1>4

-----------------------------------------------------------------------------
(* Anchors: what a hunk and a file hold *)

\* A hunk as it is read: the run that begins at s, up to line j.
IsHunk(h, e, s, j) ==
  /\ h.start = SideOf(e, s).start /\ h.count = SideOf(e, s).count
  /\ Len(h.lines) = j - s + 1 /\ DOMAIN h.lines = 1..(j - s + 1)
  /\ \A p \in s..j : LET l == h.lines[p - s + 1]
                    IN /\ l.kind = e[p].did /\ l.text = e[p].text
                       /\ p \in NewLines(e) => l.line = LineOf(e, p)

LEMMA HunkLine ==
  ASSUME NEW h, NEW e, NEW s \in Nat, NEW j \in Nat, IsHunk(h, e, s, j), NEW k \in 1..(j - s + 1)
  PROVE  /\ s - 1 + k \in s..j /\ h.lines[k].kind = e[s - 1 + k].did /\ h.lines[k].text = e[s - 1 + k].text
         /\ s - 1 + k \in NewLines(e) => h.lines[k].line = LineOf(e, s - 1 + k)
<1>1. s - 1 + k \in s..j /\ (s - 1 + k) - s + 1 = k
  OBVIOUS
<1>2. QED BY <1>1 DEF IsHunk

LinesOf(e, s) ==
  Filled(After(e), CountTo(NewLines(e), s - 1) + 1, CountTo(NewLines(e), EndOf(e, s)))

LEMMA GroupLists ==
  ASSUME NEW e \in Seq(EditLines), NEW s \in Starts(e), NEW h, IsHunk(h, e, s, EndOf(e, s))
  PROVE  Lists(Group(h), After(e), LinesOf(e, s), AddedLines(e))
<1> DEFINE N == NewLines(e)
           j == EndOf(e, s)
           c == After(e)
           x == CountTo(N, s - 1)
           y == CountTo(N, j)
           I == {k \in DOMAIN h.lines : h.lines[k].kind # "delete" /\ h.lines[k].text # Blank}
           L == LinesOf(e, s)
<1>1. /\ Len(e) \in Nat /\ DOMAIN e = 1..Len(e) /\ N \in SUBSET (1..Len(e)) /\ N \in SUBSET Nat /\ IsFiniteSet(N)
  BY EditIs
<1>2. s \in 1..Len(e) /\ Shown(e, s) /\ j \in 1..Len(e) /\ s <= j /\ s \in Nat /\ j \in Nat /\ s - 1 \in Nat
  BY <1>1, EndIs DEF Starts
<1>3. x \in Nat /\ y \in Nat /\ y <= Cardinality(N) /\ Cardinality(N) \in Nat
  BY <1>1, CountType
<1>4. /\ Len(c) = Cardinality(N)
      /\ \A i \in N : CountTo(N, i) = LineOf(e, i) /\ c[LineOf(e, i)] = e[i]
      /\ \A n \in 1..Cardinality(N) : \E i \in N : LineOf(e, i) = n /\ c[n] = e[i]
  BY AfterIs DEF LineOf
<1>5. \A k : k \in I <=> /\ k \in 1..(j - s + 1) /\ h.lines[k].kind # "delete" /\ h.lines[k].text # Blank
  BY DEF IsHunk
<1>6. I \in SUBSET Nat /\ IsFiniteSet(I)
  <2>1. I \in SUBSET (1..(j - s + 1)) /\ j - s + 1 \in Nat
    BY <1>2, <1>5
  <2>2. IsFiniteSet(1..(j - s + 1))
    BY <2>1, FS_Interval
  <2>3. QED BY <2>1, <2>2, FS_Subset
<1>7. Group(h) = Chosen(h.lines, I)
  BY DEF Group
<1>8. \A n : n \in L <=> n \in (x + 1)..y /\ c[n].text # Blank
  BY DEF LinesOf, Filled
<1>9. AddedLines(e) = {LineOf(e, i) : i \in {k \in DOMAIN e : e[k].did = "add" /\ e[k].text # Blank}}
  BY DEF AddedLines
<1>10. \A p \in DOMAIN e : p \in N <=> e[p].did # "delete"
  BY DEF NewLines
<1>11. ASSUME NEW k \in 1..(j - s + 1)
       PROVE  /\ s - 1 + k \in s..j /\ h.lines[k].kind = e[s - 1 + k].did /\ h.lines[k].text = e[s - 1 + k].text
              /\ s - 1 + k \in N => h.lines[k].line = LineOf(e, s - 1 + k)
  BY <1>2, HunkLine
<1> HIDE DEF I, L, j, c
<1>12. ASSUME NEW p \in N PROVE p \in s..j <=> LineOf(e, p) \in (x + 1)..y
  <2>1. p \in Nat /\ CountTo(N, p) = LineOf(e, p) /\ CountTo(N, p) \in Nat
    BY <1>1, <1>4, CountType
  <2>2. CASE p <= s - 1
    <3>1. CountTo(N, p) <= x
      BY <1>1, <1>2, <2>1, <2>2, CountGrows
    <3>2. QED BY <1>2, <1>3, <2>1, <2>2, <3>1
  <2>3. CASE j < p
    <3>1. y < CountTo(N, p)
      BY <1>1, <1>2, <2>1, <2>3, CountGrows
    <3>2. QED BY <1>2, <1>3, <2>1, <2>3, <3>1
  <2>4. CASE s - 1 < p /\ p <= j
    <3>1. x < CountTo(N, p)
      BY <1>1, <1>2, <2>1, <2>4, CountGrows
    <3>2. CountTo(N, p) <= y
      BY <1>1, <1>2, <2>1, <2>4, CountGrows
    <3>3. QED BY <1>2, <1>3, <2>1, <2>4, <3>1, <3>2
  <2>5. QED BY <1>2, <2>1, <2>2, <2>3, <2>4
<1> HIDE DEF x, y, N
<1> DEFINE f == [k \in I |-> LineOf(e, s - 1 + k)]
<1>13. ASSUME NEW k \in I
       PROVE  /\ s - 1 + k \in N /\ LineOf(e, s - 1 + k) \in L /\ h.lines[k].line = LineOf(e, s - 1 + k)
              /\ h.lines[k].kind = e[s - 1 + k].did /\ h.lines[k].text = e[s - 1 + k].text
  <2>1. k \in 1..(j - s + 1) /\ h.lines[k].kind # "delete" /\ h.lines[k].text # Blank
    BY <1>5
  <2>2. /\ s - 1 + k \in s..j /\ h.lines[k].kind = e[s - 1 + k].did /\ h.lines[k].text = e[s - 1 + k].text
        /\ s - 1 + k \in N => h.lines[k].line = LineOf(e, s - 1 + k)
    BY <1>11, <2>1
  <2>3. s - 1 + k \in DOMAIN e
    BY <1>1, <1>2, <2>2
  <2>4. s - 1 + k \in N
    BY <1>10, <2>1, <2>2, <2>3
  <2>5. c[LineOf(e, s - 1 + k)].text # Blank
    BY <1>4, <2>1, <2>2, <2>4
  <2>6. LineOf(e, s - 1 + k) \in (x + 1)..y
    BY <1>12, <2>2, <2>4
  <2>7. QED BY <1>8, <2>2, <2>4, <2>5, <2>6
<1>14. ASSUME NEW n \in L PROVE \E k \in I : LineOf(e, s - 1 + k) = n /\ c[n] = e[s - 1 + k]
  <2>1. n \in (x + 1)..y /\ c[n].text # Blank
    BY <1>8
  <2>2. n \in 1..Cardinality(N)
    BY <1>3, <2>1
  <2>3. PICK p \in N : LineOf(e, p) = n /\ c[n] = e[p]
    BY <1>4, <2>2
  <2>4. p \in s..j
    BY <1>12, <2>1, <2>3
  <2>5. p - s + 1 \in 1..(j - s + 1) /\ s - 1 + (p - s + 1) = p
    BY <1>2, <2>4
  <2>6. p - s + 1 \in I
    <3>1. h.lines[p - s + 1].kind = e[p].did /\ h.lines[p - s + 1].text = e[p].text
      BY <1>11, <2>5
    <3>2. e[p].did # "delete" /\ e[p].text # Blank
      BY <1>1, <1>10, <2>1, <2>3
    <3>3. QED BY <1>5, <2>5, <3>1, <3>2
  <2>7. QED BY <2>3, <2>5, <2>6
<1>15. L \in SUBSET Nat /\ \A n \in L : n \in Nat \ {0}
  BY <1>3, <1>8
<1>16. f \in [I -> L] /\ \A k \in I : f[k] = LineOf(e, s - 1 + k)
  BY <1>13
<1>17. ASSUME NEW k \in I, NEW m \in I, k < m PROVE f[k] < f[m]
  <2>1. s - 1 + k \in N /\ s - 1 + m \in N /\ s - 1 + k < s - 1 + m
    BY <1>2, <1>6, <1>13, <1>17
  <2>2. PICK u, v : u = s - 1 + k /\ v = s - 1 + m
    OBVIOUS
  <2>3. CountTo(N, u) < CountTo(N, v)
    BY <1>1, <2>1, <2>2, CountOrder
  <2>4. LineOf(e, u) < LineOf(e, v)
    BY <1>4, <2>1, <2>2, <2>3
  <2>5. QED BY <1>16, <2>2, <2>4
<1>18. \A n \in L : \E k \in I : f[k] = n
  BY <1>14, <1>16
<1> HIDE DEF f
<1>19. IsFiniteSet(L) /\ Cardinality(L) = Cardinality(I) /\ \A k \in I : CountTo(L, f[k]) = CountTo(I, k)
  BY <1>6, <1>15, <1>16, <1>17, <1>18, CountAlike
<1> DEFINE g == Group(h)
<1>20. /\ Len(g) = Cardinality(I) /\ DOMAIN g = 1..Cardinality(I)
       /\ \A k \in I : g[CountTo(I, k)] = h.lines[k]
  BY <1>6, <1>7, ChosenIs
<1> HIDE DEF g
<1>21. ASSUME NEW n \in L
       PROVE  /\ g[CountTo(L, n)].line = n /\ g[CountTo(L, n)].text = c[n].text
              /\ g[CountTo(L, n)].kind = "add" <=> n \in AddedLines(e)
  <2>1. PICK k \in I : LineOf(e, s - 1 + k) = n /\ c[n] = e[s - 1 + k]
    BY <1>14
  <2>2. PICK p : p = s - 1 + k
    OBVIOUS
  <2>3. /\ p \in N /\ LineOf(e, p) = n /\ c[n] = e[p] /\ f[k] = n /\ h.lines[k].line = n
        /\ h.lines[k].kind = e[p].did /\ h.lines[k].text = e[p].text
    BY <1>13, <1>16, <2>1, <2>2
  <2>4. g[CountTo(L, n)] = h.lines[k]
    BY <1>19, <1>20, <2>3
  <2>5. c[n].text # Blank
    BY <1>8
  <2>6. ASSUME e[p].did = "add" PROVE n \in AddedLines(e)
    BY <1>1, <1>9, <2>3, <2>5, <2>6
  <2>7. ASSUME n \in AddedLines(e) PROVE e[p].did = "add"
    <3>1. PICK i \in DOMAIN e : e[i].did = "add" /\ LineOf(e, i) = n
      BY <1>9, <2>7
    <3>2. i \in N
      BY <1>10, <3>1
    <3>3. CountTo(N, i) = CountTo(N, p)
      BY <1>4, <2>3, <3>1, <3>2
    <3>4. i = p
      BY <1>1, <2>3, <3>2, <3>3, CountOrder
    <3>5. QED BY <3>1, <3>4
  <2>8. QED BY <2>3, <2>4, <2>6, <2>7
<1>22. Lists(g, c, L, AddedLines(e))
  BY <1>15, <1>19, <1>20, <1>21 DEF Lists
<1>23. QED BY <1>22 DEF g, c, L

LEMMA WholeLists ==
  ASSUME NEW c, Len(c) \in Nat, DOMAIN c = 1..Len(c)
  PROVE  Lists(Whole(c), c, Filled(c, 1, Len(c)), {})
<1> DEFINE L == Filled(c, 1, Len(c))
           s == [n \in DOMAIN c |-> [kind |-> "context", text |-> c[n].text, line |-> n]]
<1>1. L \in SUBSET Nat /\ IsFiniteSet(L) /\ L \in SUBSET (1..Len(c))
  BY FilledIs
<1>2. L \in SUBSET (Nat \ {0})
  BY <1>1
<1>3. Whole(c) = Chosen(s, L)
  BY DEF Whole
<1>4. \A n \in L : s[n].line = n /\ s[n].text = c[n].text /\ s[n].kind = "context"
  BY <1>1
<1> HIDE DEF s, L
<1>5. /\ Len(Whole(c)) = Cardinality(L) /\ DOMAIN Whole(c) = 1..Cardinality(L)
      /\ \A n \in L : Whole(c)[CountTo(L, n)] = s[n]
  BY <1>1, <1>3, ChosenIs
<1>6. Lists(Whole(c), c, L, {})
  BY <1>1, <1>2, <1>4, <1>5 DEF Lists
<1>7. QED BY <1>6 DEF L

-----------------------------------------------------------------------------
(* Anchors: lines read one after another *)

ReadsUpTo(u, r, lines, n) ==
  u = [m \in 0..n |-> IF m = 0 THEN r ELSE ReadLine(u[m - 1], lines[m])]

LEMMA ReadAllBy ==
  ASSUME NEW r, NEW lines, Len(lines) \in Nat
  PROVE  \E u : ReadsUpTo(u, r, lines, Len(lines)) /\ ReadAll(r, lines) = u[Len(lines)]
<1> DEFINE N == Len(lines)
           T == {n \in 0..N : \E u : ReadsUpTo(u, r, lines, n)}
<1>1. 0 \in T
  <2> DEFINE h == [m \in 0..0 |-> r]
  <2>1. h = [m \in 0..0 |-> IF m = 0 THEN r ELSE ReadLine(h[m - 1], lines[m])]
    <3>1. \A m \in 0..0 : m = 0
      OBVIOUS
    <3>2. QED BY <3>1
  <2> HIDE DEF h
  <2>2. ReadsUpTo(h, r, lines, 0)
    BY <2>1 DEF ReadsUpTo
  <2>3. QED BY <2>2
<1>2. ASSUME NEW n \in T, n + 1 \in 0..N PROVE n + 1 \in T
  <2>1. n \in Nat /\ n + 1 \in Nat
    OBVIOUS
  <2>2. PICK u : ReadsUpTo(u, r, lines, n)
    OBVIOUS
  <2>3. \A m \in 0..n : u[m] = IF m = 0 THEN r ELSE ReadLine(u[m - 1], lines[m])
    BY <2>2 DEF ReadsUpTo
  <2> DEFINE new == ReadLine(u[n], lines[n + 1])
             h == [m \in 0..(n + 1) |-> IF m = n + 1 THEN new ELSE u[m]]
  <2>4. \A m \in 0..(n + 1) : h[m] = IF m = n + 1 THEN new ELSE u[m]
    OBVIOUS
  <2>5. h = [m \in 0..(n + 1) |-> h[m]]
    OBVIOUS
  <2> HIDE DEF h
  <2>6. ASSUME NEW m \in 0..(n + 1) PROVE h[m] = IF m = 0 THEN r ELSE ReadLine(h[m - 1], lines[m])
    <3>1. CASE m = n + 1
      <4>1. m - 1 = n /\ n \in 0..(n + 1) /\ n # n + 1 /\ m # 0
        BY <2>1, <3>1
      <4>2. h[m - 1] = u[n] /\ h[m] = new
        BY <2>4, <3>1, <4>1
      <4>3. QED BY <3>1, <4>1, <4>2
    <3>2. CASE m = 0
      <4>1. m # n + 1 /\ m \in 0..n
        BY <2>1, <3>2
      <4>2. h[m] = u[m]
        BY <2>4, <4>1
      <4>3. QED BY <2>3, <3>2, <4>1, <4>2
    <3>3. CASE m # n + 1 /\ m # 0
      <4>1. m - 1 \in 0..(n + 1) /\ m - 1 # n + 1 /\ m \in 0..n
        BY <2>1, <3>3
      <4>2. h[m] = u[m] /\ h[m - 1] = u[m - 1]
        BY <2>4, <3>3, <4>1
      <4>3. u[m] = ReadLine(u[m - 1], lines[m])
        BY <2>3, <3>3, <4>1
      <4>4. QED BY <3>3, <4>2, <4>3
    <3>4. QED BY <3>1, <3>2, <3>3
  <2>7. h = [m \in 0..(n + 1) |-> IF m = 0 THEN r ELSE ReadLine(h[m - 1], lines[m])]
    BY <2>5, <2>6
  <2>8. ReadsUpTo(h, r, lines, n + 1)
    BY <2>7 DEF ReadsUpTo
  <2>9. QED BY <1>2, <2>8
<1>3. T \in SUBSET (0..N) /\ N \in 0..N
  OBVIOUS
<1> HIDE DEF T
<1>4. T = 0..N
  BY <1>1, <1>2, <1>3, AllUpTo
<1>5. \E u : ReadsUpTo(u, r, lines, N)
  BY <1>3, <1>4 DEF T
<1> DEFINE w == CHOOSE u : ReadsUpTo(u, r, lines, N)
<1>6. ReadAll(r, lines) = w[N]
  BY DEF ReadAll, ReadsUpTo
<1>7. ReadsUpTo(w, r, lines, N)
  BY <1>5
<1>8. QED BY <1>6, <1>7

\* It is determined, line by line.
LEMMA ReadAllIs ==
  ASSUME NEW r, NEW lines, NEW u, Len(lines) \in Nat,
         u[0] = r, \A m \in 1..Len(lines) : u[m] = ReadLine(u[m - 1], lines[m])
  PROVE  ReadAll(r, lines) = u[Len(lines)]
<1> DEFINE N == Len(lines)
<1>1. PICK w : ReadsUpTo(w, r, lines, N) /\ ReadAll(r, lines) = w[N]
  BY ReadAllBy
<1>2. \A m \in 0..N : w[m] = IF m = 0 THEN r ELSE ReadLine(w[m - 1], lines[m])
  BY <1>1 DEF ReadsUpTo
<1>3. N \in Nat /\ \A m \in 1..N : u[m] = ReadLine(u[m - 1], lines[m])
  OBVIOUS
<1> DEFINE T == {n \in 0..N : w[n] = u[n]}
<1> HIDE DEF N
<1>4. 0 \in T
  <2>1. 0 \in 0..N
    BY <1>3
  <2>2. QED BY <1>2, <2>1
<1>5. ASSUME NEW n \in T, n + 1 \in 0..N PROVE n + 1 \in T
  <2>1. n + 1 \in 1..N /\ (n + 1) - 1 = n /\ n + 1 # 0
    BY <1>3, <1>5
  <2>2. w[n + 1] = ReadLine(w[n], lines[n + 1]) /\ u[n + 1] = ReadLine(u[n], lines[n + 1])
    BY <1>2, <1>3, <1>5, <2>1
  <2>3. QED BY <1>5, <2>2
<1>6. T \in SUBSET (0..N) /\ N \in 0..N
  BY <1>3
<1> HIDE DEF T
<1>7. T = 0..N
  BY <1>3, <1>4, <1>5, <1>6, AllUpTo
<1>8. w[N] = u[N]
  BY <1>6, <1>7 DEF T
<1>9. QED BY <1>1, <1>8 DEF N

LEMMA ReadAllNone == ASSUME NEW r PROVE ReadAll(r, <<>>) = r
<1>1. PICK u : ReadsUpTo(u, r, <<>>, 0) /\ ReadAll(r, <<>>) = u[0]
  <2>1. Len(<<>>) = 0
    OBVIOUS
  <2>2. PICK u : ReadsUpTo(u, r, <<>>, Len(<<>>)) /\ ReadAll(r, <<>>) = u[Len(<<>>)]
    BY <2>1, ReadAllBy
  <2>3. QED BY <2>1, <2>2
<1>2. u[0] = r
  <2>1. 0 \in 0..0
    OBVIOUS
  <2>2. QED BY <1>1, <2>1 DEF ReadsUpTo
<1>3. QED BY <1>1, <1>2

\* One line more.
LEMMA ReadAllOne ==
  ASSUME NEW r, NEW S, NEW s \in Seq(S), NEW x \in S
  PROVE  ReadAll(r, s \o <<x>>) = ReadLine(ReadAll(r, s), x)
<1> DEFINE N == Len(s)
           t == s \o <<x>>
<1>1. <<x>> \in Seq(S) /\ Len(<<x>>) = 1 /\ <<x>>[1] = x /\ N \in Nat
  BY LenProperties
<1>2. Len(t) = N + 1 /\ \A i \in 1..(N + 1) : t[i] = IF i <= N THEN s[i] ELSE <<x>>[i - N]
  BY <1>1, ConcatProperties
<1>3. t[N + 1] = x /\ \A i \in 1..N : t[i] = s[i]
  <2>1. N + 1 \in 1..(N + 1) /\ ~(N + 1 <= N) /\ (N + 1) - N = 1
    BY <1>1
  <2>2. \A i \in 1..N : i \in 1..(N + 1) /\ i <= N
    BY <1>1
  <2>3. QED BY <1>1, <1>2, <2>1, <2>2
<1>4. PICK w : ReadsUpTo(w, r, s, N) /\ ReadAll(r, s) = w[N]
  BY <1>1, ReadAllBy
<1>5. \A m \in 0..N : w[m] = IF m = 0 THEN r ELSE ReadLine(w[m - 1], s[m])
  BY <1>4 DEF ReadsUpTo
<1> HIDE DEF N, t
<1> DEFINE last == ReadLine(w[N], x)
           u == [m \in 0..(N + 1) |-> IF m = N + 1 THEN last ELSE w[m]]
<1>6. \A m \in 0..(N + 1) : u[m] = IF m = N + 1 THEN last ELSE w[m]
  OBVIOUS
<1> HIDE DEF u
<1>7. u[0] = r /\ u[N + 1] = last
  <2>1. 0 \in 0..(N + 1) /\ N + 1 \in 0..(N + 1) /\ 0 # N + 1 /\ 0 \in 0..N
    BY <1>1
  <2>2. w[0] = r
    BY <1>5, <2>1
  <2>3. QED BY <1>6, <2>1, <2>2
<1>8. ASSUME NEW m \in 1..(N + 1) PROVE u[m] = ReadLine(u[m - 1], t[m])
  <2>1. m \in 0..(N + 1) /\ m - 1 \in 0..(N + 1) /\ m - 1 # N + 1 /\ m # 0
    BY <1>1
  <2>2. u[m - 1] = w[m - 1]
    BY <1>6, <2>1
  <2>3. CASE m = N + 1
    <3>1. m - 1 = N
      BY <1>1, <2>3
    <3>2. QED BY <1>3, <1>7, <2>2, <2>3, <3>1
  <2>4. CASE m # N + 1
    <3>1. m \in 0..N /\ m \in 1..N
      BY <1>1, <2>4
    <3>2. u[m] = w[m] /\ w[m] = ReadLine(w[m - 1], s[m]) /\ t[m] = s[m]
      BY <1>3, <1>5, <1>6, <2>1, <2>4, <3>1
    <3>3. QED BY <2>2, <3>2
  <2>5. QED BY <2>3, <2>4
<1>9. ReadAll(r, t) = u[N + 1]
  <2>1. N + 1 \in Nat
    BY <1>1
  <2>2. Len(t) \in Nat /\ \A m \in 1..Len(t) : u[m] = ReadLine(u[m - 1], t[m])
    BY <1>2, <1>8, <2>1 DEF t, N
  <2>3. ReadAll(r, t) = u[Len(t)]
    <3> HIDE DEF last
    <3>1. QED BY <1>7, <2>2, ReadAllIs
  <2>4. QED BY <1>2, <2>3 DEF t, N
<1>10. QED BY <1>4, <1>7, <1>9 DEF t

LEMMA ReadAllPerhaps ==
  ASSUME NEW r, NEW S, NEW s \in Seq(S), NEW x \in S, NEW b \in BOOLEAN
  PROVE  /\ s \o (IF b THEN <<x>> ELSE <<>>) \in Seq(S)
         /\ ReadAll(r, s \o (IF b THEN <<x>> ELSE <<>>)) = IF b THEN ReadLine(ReadAll(r, s), x) ELSE ReadAll(r, s)
<1>1. CASE b
  <2>1. <<x>> \in Seq(S)
    OBVIOUS
  <2>2. s \o <<x>> \in Seq(S)
    BY <2>1, ConcatProperties
  <2>3. QED BY <1>1, <2>2, ReadAllOne
<1>2. CASE ~b
  <2>1. s \o <<>> = s
    BY ConcatEmptySeq
  <2>2. QED BY <1>2, <2>1
<1>3. QED BY <1>1, <1>2

\* What git writes at a line, read.
Opened(e, i, r) == IF Shown(e, i) /\ ~Shown(e, i - 1) THEN ReadLine(r, Header(e, i)) ELSE r
Taken(e, i, r) == IF Shown(e, i) THEN ReadLine(r, RawLine(e[i])) ELSE r
Closed(e, i, r) == IF bare /\ Shown(e, i) /\ i = Len(e) THEN ReadLine(r, [mark |-> "\\"]) ELSE r

LEMMA WrittenRead ==
  ASSUME NEW e, NEW i, NEW r, NEW S, NEW s \in Seq(S), bare \in BOOLEAN,
         Header(e, i) \in S, RawLine(e[i]) \in S, [mark |-> "\\"] \in S
  PROVE  /\ Written(e, i) \in Seq(S)
         /\ ReadAll(r, s \o Written(e, i)) = Closed(e, i, Taken(e, i, Opened(e, i, ReadAll(r, s))))
<1> DEFINE a == IF Shown(e, i) /\ ~Shown(e, i - 1) THEN <<Header(e, i)>> ELSE <<>>
           b == IF Shown(e, i) THEN <<RawLine(e[i])>> ELSE <<>>
           c == IF bare /\ Shown(e, i) /\ i = Len(e) THEN <<[mark |-> "\\"]>> ELSE <<>>
<1>1. Shown(e, i) \in BOOLEAN /\ Shown(e, i - 1) \in BOOLEAN
  BY DEF Shown
<1>2. PICK p, q, t, x, y, z : /\ p = (Shown(e, i) /\ ~Shown(e, i - 1)) /\ q = Shown(e, i)
                     /\ t = (bare /\ Shown(e, i) /\ i = Len(e))
                     /\ x = Header(e, i) /\ y = RawLine(e[i]) /\ z = [mark |-> "\\"]
  OBVIOUS
<1>3. p \in BOOLEAN /\ q \in BOOLEAN /\ t \in BOOLEAN /\ x \in S /\ y \in S /\ z \in S
  BY <1>1, <1>2
<1>4. a = (IF p THEN <<x>> ELSE <<>>) /\ b = (IF q THEN <<y>> ELSE <<>>) /\ c = (IF t THEN <<z>> ELSE <<>>)
  BY <1>2
<1>5. Written(e, i) = (a \o b) \o c
  BY DEF Written
<1>6. \A R : Closed(e, i, Taken(e, i, Opened(e, i, R))) =
               LET first == IF p THEN ReadLine(R, x) ELSE R
                   second == IF q THEN ReadLine(first, y) ELSE first
               IN IF t THEN ReadLine(second, z) ELSE second
  BY <1>2 DEF Closed, Taken, Opened
<1> HIDE DEF a, b, c
<1>7. a \in Seq(S) /\ b \in Seq(S) /\ c \in Seq(S)
  BY <1>3, <1>4
<1>8. /\ a \o b \in Seq(S) /\ (a \o b) \o c \in Seq(S)
      /\ s \o ((a \o b) \o c) = ((s \o a) \o b) \o c
  <2>1. a \o b \in Seq(S)
    BY <1>7, ConcatProperties
  <2>2. (a \o b) \o c \in Seq(S)
    BY <1>7, <2>1, ConcatProperties
  <2>3. s \o ((a \o b) \o c) = (s \o (a \o b)) \o c
    <3>1. PICK ab : ab = a \o b
      OBVIOUS
    <3>a. ab \in Seq(S)
      BY <2>1, <3>1
    <3>2. (s \o ab) \o c = s \o (ab \o c)
      <4>1. Associates(s, ab, c)
        BY <1>7, <3>a, Associativity
      <4>2. QED BY <4>1 DEF Associates
    <3>3. QED BY <3>1, <3>2
  <2>4. s \o (a \o b) = (s \o a) \o b
    <3>1. Associates(s, a, b)
      BY <1>7, Associativity
    <3>2. QED BY <3>1 DEF Associates
  <2>5. QED BY <2>1, <2>2, <2>3, <2>4
<1>9. /\ s \o a \in Seq(S)
      /\ ReadAll(r, s \o a) = IF p THEN ReadLine(ReadAll(r, s), x) ELSE ReadAll(r, s)
  BY <1>3, <1>4, ReadAllPerhaps
<1>10. /\ (s \o a) \o b \in Seq(S)
       /\ ReadAll(r, (s \o a) \o b) = IF q THEN ReadLine(ReadAll(r, s \o a), y) ELSE ReadAll(r, s \o a)
  <2>1. PICK sa : sa = s \o a
    OBVIOUS
  <2>2. sa \in Seq(S)
    BY <1>9, <2>1
  <2>3. sa \o b \in Seq(S) /\ ReadAll(r, sa \o b) = IF q THEN ReadLine(ReadAll(r, sa), y) ELSE ReadAll(r, sa)
    BY <1>3, <1>4, <2>2, ReadAllPerhaps
  <2>4. QED BY <2>1, <2>3
<1>11. ReadAll(r, ((s \o a) \o b) \o c) =
         IF t THEN ReadLine(ReadAll(r, (s \o a) \o b), z) ELSE ReadAll(r, (s \o a) \o b)
  <2>1. PICK sab : sab = (s \o a) \o b
    OBVIOUS
  <2>2. sab \in Seq(S)
    BY <1>10, <2>1
  <2>3. ReadAll(r, sab \o c) = IF t THEN ReadLine(ReadAll(r, sab), z) ELSE ReadAll(r, sab)
    BY <1>3, <1>4, <2>2, ReadAllPerhaps
  <2>4. QED BY <2>1, <2>3
<1>12. QED BY <1>5, <1>6, <1>8, <1>9, <1>10, <1>11

-----------------------------------------------------------------------------
(* Anchors: the hunks that are read are those of the edit *)

HunkLines == [kind : {"add", "delete", "context"}, text : Texts, line : Nat]
HunkRecords == [start : Nat, count : Nat, lines : Seq(HunkLines)]
Sides == [left : Nat, line : Nat]
Readings == [hunks : Seq(HunkRecords), old : Sides, new : Sides]

\* The hunks up to line i's have been opened, and read up to line k.
Left(S, e, i, k) == IF Shown(e, i) THEN CountTo(S, EndOf(e, i)) - CountTo(S, k) ELSE 0
Till(e, s, k) == IF EndOf(e, s) <= k THEN EndOf(e, s) ELSE k
HunksTo(e, hs, i, k) ==
  /\ Len(hs) = CountTo(Starts(e), i)
  /\ \A s \in Starts(e) : s <= i => IsHunk(hs[CountTo(Starts(e), s)], e, s, Till(e, s, k))
LeftTo(e, r, i, k) ==
  /\ r.old.left = Left(OldLines(e), e, i, k) /\ r.new.left = Left(NewLines(e), e, i, k)
  /\ Shown(e, i) /\ r.new.left > 0 => r.new.line = CountTo(NewLines(e), k) + 1
AtLine(e, r, i, k) == r \in Readings /\ HunksTo(e, r.hunks, i, k) /\ LeftTo(e, r, i, k)

LEMMA StartsAre ==
  ASSUME NEW e \in Seq(EditLines)
  PROVE  /\ Starts(e) \in SUBSET (1..Len(e)) /\ Starts(e) \in SUBSET Nat /\ IsFiniteSet(Starts(e))
         /\ \A s \in Starts(e) : /\ s \in 1..Len(e) /\ Shown(e, s) /\ ~Shown(e, s - 1)
                                /\ EndOf(e, s) \in 1..Len(e) /\ s <= EndOf(e, s) /\ s \in Nat /\ EndOf(e, s) \in Nat
<1>1. Len(e) \in Nat /\ DOMAIN e = 1..Len(e)
  BY EditIs
<1>2. Starts(e) \in SUBSET (1..Len(e)) /\ 1..Len(e) \in SUBSET Nat /\ IsFiniteSet(1..Len(e))
  BY <1>1, FS_Interval DEF Starts
<1>3. IsFiniteSet(Starts(e))
  BY <1>2, FS_Subset
<1>4. ASSUME NEW s \in Starts(e)
      PROVE  /\ s \in 1..Len(e) /\ Shown(e, s) /\ ~Shown(e, s - 1)
             /\ EndOf(e, s) \in 1..Len(e) /\ s <= EndOf(e, s) /\ s \in Nat /\ EndOf(e, s) \in Nat
  <2>1. s \in 1..Len(e) /\ Shown(e, s) /\ ~Shown(e, s - 1)
    BY <1>2 DEF Starts
  <2>2. EndOf(e, s) \in 1..Len(e) /\ s <= EndOf(e, s)
    BY <2>1, EndIs
  <2>3. QED BY <1>1, <2>1, <2>2
<1>5. QED BY <1>2, <1>3, <1>4

\* A run ends before the next begins.
LEMMA RunsApart ==
  ASSUME NEW e \in Seq(EditLines), NEW s \in Starts(e), NEW t \in Starts(e), s < t
  PROVE  EndOf(e, s) < t
<1>1. /\ s \in Nat /\ t \in Nat /\ Shown(e, s) /\ ~Shown(e, t - 1) /\ EndOf(e, s) \in Nat
  BY StartsAre
<1>2. SUFFICES ASSUME ~(EndOf(e, s) < t) PROVE FALSE
  OBVIOUS
<1>3. t - 1 \in s..EndOf(e, s)
  BY <1>1, <1>2
<1>4. QED BY <1>1, <1>3, EndSame

\* The last run that began is the one the line is of.
LEMMA LastStart ==
  ASSUME NEW e \in Seq(EditLines), NEW i, Shown(e, i)
  PROVE  \E s \in Starts(e) : /\ s <= i /\ i \in s..EndOf(e, s) /\ EndOf(e, i) = EndOf(e, s)
                             /\ CountTo(Starts(e), i) = CountTo(Starts(e), s)
                             /\ \A t \in Starts(e) : t <= i /\ t # s => t < s /\ EndOf(e, t) < s
<1>1. PICK s \in Starts(e) : s \in Nat /\ s <= i /\ i \in s..EndOf(e, s)
  BY StartIs
<1>2. Shown(e, s) /\ EndOf(e, s) \in Nat /\ i \in Nat /\ i <= EndOf(e, s)
  BY <1>1, StartsAre
<1>3. EndOf(e, i) = EndOf(e, s)
  BY <1>1, <1>2, EndSame
<1>4. ASSUME NEW t \in Starts(e), t <= i PROVE t <= s /\ t \in Nat
  <2>1. t \in Nat
    BY StartsAre
  <2>2. ~(s < t)
    <3>1. SUFFICES ASSUME s < t PROVE FALSE
      OBVIOUS
    <3>2. EndOf(e, s) < t
      BY <3>1, RunsApart
    <3>3. QED BY <1>2, <1>4, <2>1, <3>2
  <2>3. QED BY <1>1, <2>1, <2>2
<1>5. CountTo(Starts(e), i) = CountTo(Starts(e), s)
  <2>1. \A t \in Starts(e) : t <= i <=> t <= s
    BY <1>1, <1>2, <1>4, StartsAre
  <2>2. {t \in Starts(e) : t <= i} = {t \in Starts(e) : t <= s}
    BY <2>1
  <2>3. QED BY <2>2 DEF CountTo
<1>6. ASSUME NEW t \in Starts(e), t <= i, t # s PROVE t < s /\ EndOf(e, t) < s
  <2>1. t < s
    BY <1>1, <1>4, <1>6
  <2>2. QED BY <2>1, RunsApart
<1>7. QED BY <1>1, <1>3, <1>5, <1>6

LEMMA HunkTakes ==
  ASSUME NEW e, NEW h \in HunkRecords, NEW s \in Nat, NEW i \in Nat, NEW l \in HunkLines, NEW g,
         1 <= s, s <= i, IsHunk(h, e, s, i - 1),
         l.kind = e[i].did, l.text = e[i].text, i \in NewLines(e) => l.line = LineOf(e, i),
         g = [h EXCEPT !.lines = Append(h.lines, l)]
  PROVE  g \in HunkRecords /\ IsHunk(g, e, s, i)
<1>1. h.lines \in Seq(HunkLines) /\ Len(h.lines) = i - s /\ DOMAIN h.lines = 1..(i - s)
      /\ h = [start |-> h.start, count |-> h.count, lines |-> h.lines] /\ h.start \in Nat /\ h.count \in Nat
  <2>1. Len(h.lines) = (i - 1) - s + 1 /\ DOMAIN h.lines = 1..((i - 1) - s + 1)
    BY DEF IsHunk
  <2>2. (i - 1) - s + 1 = i - s
    OBVIOUS
  <2>3. QED BY <2>1, <2>2 DEF HunkRecords
<1>2. PICK new : new = Append(h.lines, l)
  OBVIOUS
<1>3. /\ new \in Seq(HunkLines) /\ Len(new) = i - s + 1 /\ new[i - s + 1] = l
      /\ \A k \in 1..(i - s) : new[k] = h.lines[k]
  BY <1>1, <1>2, AppendProperties
<1>4. DOMAIN new = 1..(i - s + 1)
  BY <1>3, LenProperties
<1>5. g = [start |-> h.start, count |-> h.count, lines |-> new]
  BY <1>1, <1>2
<1>6. ASSUME NEW p \in s..i
      PROVE  /\ new[p - s + 1].kind = e[p].did /\ new[p - s + 1].text = e[p].text
             /\ p \in NewLines(e) => new[p - s + 1].line = LineOf(e, p)
  <2>1. CASE p = i
    <3>1. new[p - s + 1] = l
      BY <1>3, <2>1
    <3>2. QED BY <2>1, <3>1
  <2>2. CASE p # i
    <3>1. p \in s..(i - 1) /\ p - s + 1 \in 1..(i - s)
      BY <2>2
    <3>2. new[p - s + 1] = h.lines[p - s + 1]
      BY <1>3, <3>1
    <3>3. /\ h.lines[p - s + 1].kind = e[p].did /\ h.lines[p - s + 1].text = e[p].text
          /\ p \in NewLines(e) => h.lines[p - s + 1].line = LineOf(e, p)
      BY <3>1 DEF IsHunk
    <3>4. QED BY <3>2, <3>3
  <2>3. QED BY <2>1, <2>2
<1>7. g.start = SideOf(e, s).start /\ g.count = SideOf(e, s).count
  BY <1>5 DEF IsHunk
<1>8. g \in HunkRecords
  <2>1. h.start \in Nat /\ h.count \in Nat /\ new \in Seq(HunkLines)
    BY <1>1, <1>3
  <2>2. [start |-> h.start, count |-> h.count, lines |-> new] \in HunkRecords
    BY <2>1 DEF HunkRecords
  <2>3. QED BY <1>5, <2>2
<1>9. QED BY <1>3, <1>4, <1>5, <1>6, <1>7, <1>8 DEF IsHunk

LEMMA ExtendedIs ==
  ASSUME NEW hs \in Seq(HunkRecords), NEW K, NEW g \in HunkRecords, NEW l, NEW r,
         K \in 1..Len(hs), K = Len(hs), r.hunks = hs, g = [hs[K] EXCEPT !.lines = Append(hs[K].lines, l)]
  PROVE  /\ Extended(r, l) \in Seq(HunkRecords) /\ Len(Extended(r, l)) = K /\ Extended(r, l)[K] = g
         /\ \A k \in 1..K : k # K => Extended(r, l)[k] = hs[k]
<1>1. hs \in [1..K -> HunkRecords] /\ K \in Nat
  BY LenProperties
<1>2. Extended(r, l) = [hs EXCEPT ![K] = g]
  BY <1>1 DEF Extended
<1>3. [hs EXCEPT ![K] = g] \in [1..K -> HunkRecords]
  BY <1>1
<1>4. PICK x : x = Extended(r, l)
  OBVIOUS
<1>5. x \in [1..K -> HunkRecords] /\ x[K] = g /\ \A k \in 1..K : k # K => x[k] = hs[k]
  BY <1>1, <1>2, <1>3, <1>4
<1>6. x \in Seq(HunkRecords) /\ Len(x) = K
  BY <1>1, <1>5, AreSeq
<1>7. QED BY <1>4, <1>5, <1>6

\* A line that is not shown: nothing is written, nothing is read.
LEMMA NotShownRead ==
  ASSUME NEW e \in Seq(EditLines), NEW i \in 1..Len(e), NEW r, AtLine(e, r, i - 1, i - 1), ~Shown(e, i)
  PROVE  AtLine(e, r, i, i)
<1>1. i \in Nat /\ i - 1 \in Nat /\ (i - 1) + 1 = i /\ Len(e) \in Nat
  BY EditIs
<1>2. i \notin Starts(e)
  BY DEF Starts
<1>3. CountTo(Starts(e), i) = CountTo(Starts(e), i - 1)
  <2>1. CountTo(Starts(e), (i - 1) + 1) = CountTo(Starts(e), i - 1) + (IF (i - 1) + 1 \in Starts(e) THEN 1 ELSE 0)
    BY <1>1, StartsAre, CountStep
  <2>2. CountTo(Starts(e), i - 1) \in Nat
    BY StartsAre, CountType
  <2>3. QED BY <1>1, <1>2, <2>1, <2>2
<1>4. ASSUME NEW s \in Starts(e), s <= i PROVE s <= i - 1 /\ Till(e, s, i) = Till(e, s, i - 1)
  <2>1. s \in Nat /\ s # i /\ EndOf(e, s) \in Nat /\ Shown(e, s)
    BY <1>2, StartsAre
  <2>2. ~(i <= EndOf(e, s))
    <3>1. SUFFICES ASSUME i <= EndOf(e, s) PROVE FALSE
      OBVIOUS
    <3>2. i \in s..EndOf(e, s)
      BY <1>1, <1>4, <2>1, <3>1
    <3>3. QED BY <2>1, <3>2, EndSame
  <2>3. s <= i - 1 /\ EndOf(e, s) <= i - 1 /\ EndOf(e, s) <= i
    BY <1>1, <1>4, <2>1, <2>2
  <2>4. QED BY <2>3 DEF Till
<1>5. HunksTo(e, r.hunks, i, i)
  BY <1>3, <1>4 DEF AtLine, HunksTo
<1>6. r.old.left = 0 /\ r.new.left = 0
  <2>1. CASE ~Shown(e, i - 1)
    BY <2>1 DEF AtLine, LeftTo, Left
  <2>2. CASE Shown(e, i - 1)
    <3>1. RunTo(e, i - 1, EndOf(e, i - 1)) /\ EndOf(e, i - 1) \in Nat /\ i - 1 <= EndOf(e, i - 1)
      BY <1>1, <2>2, EndIs
    <3>2. EndOf(e, i - 1) = i - 1
      <4>1. SUFFICES ASSUME EndOf(e, i - 1) # i - 1 PROVE FALSE
        OBVIOUS
      <4>2. i \in (i - 1)..EndOf(e, i - 1)
        BY <1>1, <3>1, <4>1
      <4>3. QED BY <3>1, <4>2 DEF RunTo
    <3>3. CountTo(OldLines(e), i - 1) \in Nat /\ CountTo(NewLines(e), i - 1) \in Nat
      BY EditIs, CountType
    <3>4. Left(OldLines(e), e, i - 1, i - 1) = 0 /\ Left(NewLines(e), e, i - 1, i - 1) = 0
      BY <2>2, <3>2, <3>3 DEF Left
    <3>5. QED BY <3>4 DEF AtLine, LeftTo
  <2>3. QED BY <2>1, <2>2
<1>7. LeftTo(e, r, i, i)
  BY <1>6 DEF LeftTo, Left
<1>8. QED BY <1>5, <1>7 DEF AtLine

LEMMA HeaderIs ==
  ASSUME NEW e \in Seq(EditLines), NEW i \in Starts(e)
  PROVE  /\ SideOf(e, i).start \in Nat
         /\ SideOf(e, i).count \in Nat
         /\ SideOf(e, i).count = CountTo(NewLines(e), EndOf(e, i)) - CountTo(NewLines(e), i - 1)
         /\ SideOf(e, i).count > 0 => SideOf(e, i).start = CountTo(NewLines(e), i - 1) + 1
         /\ Header(e, i).mark = "@" /\ Header(e, i).new = SideOf(e, i)
         /\ Header(e, i).old.start \in Nat /\ Header(e, i).old.count \in Nat
         /\ Header(e, i).old.count = CountTo(OldLines(e), EndOf(e, i)) - CountTo(OldLines(e), i - 1)
<1>1. i \in Nat /\ i - 1 \in Nat /\ EndOf(e, i) \in Nat /\ i - 1 <= EndOf(e, i)
  <2>1. i \in 1..Len(e) /\ i \in Nat /\ EndOf(e, i) \in Nat /\ i <= EndOf(e, i)
    BY StartsAre
  <2>2. QED BY <2>1
<1>2. ASSUME NEW S \in SUBSET Nat, IsFiniteSet(S), NEW d, d = Side(S, i, EndOf(e, i))
      PROVE  /\ d.start \in Nat /\ d.count \in Nat /\ d.count = CountTo(S, EndOf(e, i)) - CountTo(S, i - 1)
             /\ d.count > 0 => d.start = CountTo(S, i - 1) + 1
  <2> DEFINE x == CountTo(S, i - 1)
             y == CountTo(S, EndOf(e, i))
  <2>1. x \in Nat /\ y \in Nat /\ x <= y
    BY <1>1, <1>2, CountGrows, CountType
  <2>2. d = [start |-> IF y - x = 0 THEN x ELSE x + 1, count |-> y - x]
    BY <1>2 DEF Side
  <2> HIDE DEF x, y
  <2>3. d.start = (IF y - x = 0 THEN x ELSE x + 1) /\ d.count = y - x
    BY <2>2
  <2>4. d.start \in Nat /\ d.count \in Nat /\ d.count = y - x /\ (d.count > 0 => d.start = x + 1)
    BY <2>1, <2>3
  <2>5. QED BY <2>4 DEF x, y
<1>3. /\ NewLines(e) \in SUBSET Nat /\ IsFiniteSet(NewLines(e))
      /\ OldLines(e) \in SUBSET Nat /\ IsFiniteSet(OldLines(e))
  BY EditIs
<1>4. Header(e, i).mark = "@" /\ Header(e, i).new = SideOf(e, i)
      /\ Header(e, i).old = Side(OldLines(e), i, EndOf(e, i)) /\ SideOf(e, i) = Side(NewLines(e), i, EndOf(e, i))
  BY DEF Header, SideOf
<1>5. /\ SideOf(e, i).start \in Nat /\ SideOf(e, i).count \in Nat
      /\ SideOf(e, i).count = CountTo(NewLines(e), EndOf(e, i)) - CountTo(NewLines(e), i - 1)
      /\ SideOf(e, i).count > 0 => SideOf(e, i).start = CountTo(NewLines(e), i - 1) + 1
  BY <1>2, <1>3, <1>4
<1>6. /\ Header(e, i).old.start \in Nat /\ Header(e, i).old.count \in Nat
      /\ Header(e, i).old.count = CountTo(OldLines(e), EndOf(e, i)) - CountTo(OldLines(e), i - 1)
  BY <1>2, <1>3, <1>4
<1>7. QED BY <1>4, <1>5, <1>6

\* A hunk is opened where a run begins.
LEMMA StartRead ==
  ASSUME NEW e \in Seq(EditLines), NEW i \in Starts(e), NEW r, AtLine(e, r, i - 1, i - 1)
  PROVE  AtLine(e, ReadLine(r, Header(e, i)), i, i - 1)
<1>1. i \in 1..Len(e) /\ i \in Nat /\ i - 1 \in Nat /\ (i - 1) + 1 = i /\ Shown(e, i) /\ ~Shown(e, i - 1)
  BY StartsAre
<1>2. r.old.left = 0 /\ r.new.left = 0
  BY <1>1 DEF AtLine, LeftTo, Left
<1> DEFINE raw == Header(e, i)
           new == [start |-> raw.new.start, count |-> raw.new.count, lines |-> <<>>]
           hs == Append(r.hunks, new)
           u == Reading(hs, [left |-> raw.old.count, line |-> raw.old.start],
                        [left |-> raw.new.count, line |-> raw.new.start])
           K == CountTo(Starts(e), i)
<1>3. raw.mark = "@" /\ raw.new = SideOf(e, i) /\ raw.new.start \in Nat /\ raw.new.count \in Nat
      /\ raw.old.start \in Nat /\ raw.old.count \in Nat
  BY HeaderIs
<1>4. ReadLine(r, raw) = u
  BY <1>2, <1>3 DEF ReadLine, Outside
<1>5. new \in HunkRecords
  BY <1>3 DEF HunkRecords
<1>6. K = CountTo(Starts(e), i - 1) + 1 /\ K \in Nat /\ CountTo(Starts(e), i - 1) \in Nat
  <2>1. CountTo(Starts(e), (i - 1) + 1) = CountTo(Starts(e), i - 1) + (IF (i - 1) + 1 \in Starts(e) THEN 1 ELSE 0)
    BY <1>1, StartsAre, CountStep
  <2>2. CountTo(Starts(e), i - 1) \in Nat /\ CountTo(Starts(e), i) \in Nat
    BY StartsAre, CountType
  <2>3. QED BY <1>1, <2>1, <2>2
<1>7. r.hunks \in Seq(HunkRecords) /\ Len(r.hunks) = K - 1
  BY <1>6 DEF AtLine, HunksTo, Readings
<1> HIDE DEF new, hs, K
<1>8. /\ hs \in Seq(HunkRecords) /\ Len(hs) = K /\ hs[K] = new
      /\ \A k \in 1..(K - 1) : hs[k] = r.hunks[k]
  <2>1. /\ hs \in Seq(HunkRecords) /\ Len(hs) = Len(r.hunks) + 1 /\ hs[Len(r.hunks) + 1] = new
        /\ \A k \in 1..Len(r.hunks) : hs[k] = r.hunks[k]
    BY <1>5, <1>7, AppendProperties DEF hs
  <2>2. (K - 1) + 1 = K
    BY <1>6
  <2>3. QED BY <1>7, <2>1, <2>2
<1>9. IsHunk(new, e, i, i - 1)
  <2>1. (i - 1) - i + 1 = 0 /\ \A p \in i..(i - 1) : FALSE
    BY <1>1
  <2>2. new.start = SideOf(e, i).start /\ new.count = SideOf(e, i).count /\ new.lines = <<>>
    BY <1>3 DEF new
  <2>3. Len(new.lines) = (i - 1) - i + 1 /\ DOMAIN new.lines = 1..((i - 1) - i + 1)
    BY <2>1, <2>2
  <2>4. QED BY <2>1, <2>2, <2>3 DEF IsHunk
<1>10. ASSUME NEW s \in Starts(e), s <= i
       PROVE  IsHunk(hs[CountTo(Starts(e), s)], e, s, Till(e, s, i - 1))
  <2>1. s \in Nat /\ EndOf(e, s) \in Nat /\ s <= EndOf(e, s)
    BY StartsAre
  <2>2. CASE s = i
    <3>1. Till(e, s, i - 1) = i - 1
      BY <1>1, <2>1, <2>2 DEF Till
    <3>2. hs[CountTo(Starts(e), s)] = new
      BY <1>8, <2>2 DEF K
    <3>3. QED BY <1>9, <2>2, <3>1, <3>2
  <2>3. CASE s # i
    <3>1. s <= i - 1
      BY <1>1, <1>10, <2>1, <2>3
    <3>2. CountTo(Starts(e), s) \in 1..(K - 1)
      <4>1. CountTo(Starts(e), s) \in 1..Cardinality(Starts(e))
        BY StartsAre, CountHits
      <4>2. CountTo(Starts(e), s) <= CountTo(Starts(e), i - 1)
        BY <1>1, <2>1, <3>1, StartsAre, CountGrows
      <4>3. CountTo(Starts(e), s) \in Nat /\ CountTo(Starts(e), s) >= 1
        BY <4>1, StartsAre, CountType
      <4>4. QED BY <1>6, <4>2, <4>3
    <3>3. IsHunk(r.hunks[CountTo(Starts(e), s)], e, s, Till(e, s, i - 1))
      BY <3>1 DEF AtLine, HunksTo
    <3>4. QED BY <1>8, <3>2, <3>3
  <2>4. QED BY <2>2, <2>3
<1>11. HunksTo(e, hs, i, i - 1)
  BY <1>8, <1>10 DEF HunksTo, K
<1>12. u \in Readings
  BY <1>3, <1>8 DEF Readings, Sides, Reading
<1>13. LeftTo(e, u, i, i - 1)
  <2>1. u.old.left = raw.old.count /\ u.new.left = raw.new.count /\ u.new.line = raw.new.start
    BY DEF Reading
  <2>2. /\ raw.old.count = CountTo(OldLines(e), EndOf(e, i)) - CountTo(OldLines(e), i - 1)
        /\ raw.new.count = CountTo(NewLines(e), EndOf(e, i)) - CountTo(NewLines(e), i - 1)
        /\ raw.new.count > 0 => raw.new.start = CountTo(NewLines(e), i - 1) + 1
    BY HeaderIs
  <2> HIDE DEF raw, u
  <2>3. QED BY <1>1, <2>1, <2>2 DEF LeftTo, Left
<1>14. u.hunks = hs
  BY DEF Reading
<1> HIDE DEF u, raw
<1>15. AtLine(e, u, i, i - 1)
  BY <1>11, <1>12, <1>13, <1>14 DEF AtLine
<1>16. QED BY <1>4, <1>15 DEF raw

\* A run goes on.
LEMMA GoesOn ==
  ASSUME NEW e \in Seq(EditLines), NEW i \in 1..Len(e), NEW r, AtLine(e, r, i - 1, i - 1),
         Shown(e, i), Shown(e, i - 1)
  PROVE  AtLine(e, r, i, i - 1)
<1>1. i \in Nat /\ i - 1 \in Nat /\ (i - 1) + 1 = i /\ Len(e) \in Nat
  BY EditIs
<1>2. i \notin Starts(e)
  BY DEF Starts
<1>3. CountTo(Starts(e), i) = CountTo(Starts(e), i - 1)
  <2>1. CountTo(Starts(e), (i - 1) + 1) = CountTo(Starts(e), i - 1) + (IF (i - 1) + 1 \in Starts(e) THEN 1 ELSE 0)
    BY <1>1, StartsAre, CountStep
  <2>2. CountTo(Starts(e), i - 1) \in Nat
    BY StartsAre, CountType
  <2>3. QED BY <1>1, <1>2, <2>1, <2>2
<1>4. \A s \in Starts(e) : s <= i => s <= i - 1
  <2>1. ASSUME NEW s \in Starts(e), s <= i PROVE s <= i - 1
    <3>1. s \in Nat /\ s # i
      BY <1>2, StartsAre
    <3>2. QED BY <1>1, <2>1, <3>1
  <2>2. QED BY <2>1
<1>5. HunksTo(e, r.hunks, i, i - 1)
  BY <1>3, <1>4 DEF AtLine, HunksTo
<1>6. EndOf(e, i) = EndOf(e, i - 1)
  <2>1. RunTo(e, i - 1, EndOf(e, i - 1)) /\ EndOf(e, i - 1) \in Nat /\ i - 1 <= EndOf(e, i - 1)
    BY <1>1, EndIs
  <2>2. EndOf(e, i - 1) # i - 1
    BY <1>1, <2>1 DEF RunTo
  <2>3. i \in (i - 1)..EndOf(e, i - 1)
    BY <1>1, <2>1, <2>2
  <2>4. QED BY <2>3, EndSame
<1>7. \A S : Left(S, e, i, i - 1) = Left(S, e, i - 1, i - 1)
  BY <1>6 DEF Left
<1>8. LeftTo(e, r, i, i - 1)
  BY <1>7 DEF AtLine, LeftTo
<1>9. QED BY <1>5, <1>8 DEF AtLine

\* How many are left of a side, at a line that is of it, and at one that is not.
LEMMA LeftStep ==
  ASSUME NEW e \in Seq(EditLines), NEW i \in 1..Len(e), NEW S \in SUBSET Nat, IsFiniteSet(S), Shown(e, i)
  PROVE  /\ Left(S, e, i, i) \in Nat
         /\ i \in S => /\ Left(S, e, i, i - 1) = Left(S, e, i, i) + 1
                       /\ CountTo(S, i) = CountTo(S, i - 1) + 1
         /\ i \notin S => /\ Left(S, e, i, i - 1) = Left(S, e, i, i)
                          /\ CountTo(S, i) = CountTo(S, i - 1)
<1>1. i \in Nat /\ i - 1 \in Nat /\ (i - 1) + 1 = i /\ EndOf(e, i) \in Nat /\ i <= EndOf(e, i)
  <2>1. Len(e) \in Nat /\ EndOf(e, i) \in 1..Len(e) /\ i <= EndOf(e, i)
    BY EditIs, EndIs
  <2>2. QED BY <2>1
<1> DEFINE x == CountTo(S, i - 1)
           y == CountTo(S, i)
           z == CountTo(S, EndOf(e, i))
<1>2. x \in Nat /\ y \in Nat /\ z \in Nat /\ y <= z
  BY <1>1, CountType, CountGrows
<1>3. y = x + (IF i \in S THEN 1 ELSE 0)
  <2>1. CountTo(S, (i - 1) + 1) = CountTo(S, i - 1) + (IF (i - 1) + 1 \in S THEN 1 ELSE 0)
    BY <1>1, CountStep
  <2>2. QED BY <1>1, <2>1
<1>4. Left(S, e, i, i) = z - y /\ Left(S, e, i, i - 1) = z - x
  BY DEF Left
<1> HIDE DEF x, y, z
<1>5. /\ Left(S, e, i, i) \in Nat
      /\ i \in S => Left(S, e, i, i - 1) = Left(S, e, i, i) + 1 /\ y = x + 1
      /\ i \notin S => Left(S, e, i, i - 1) = Left(S, e, i, i) /\ y = x
  BY <1>2, <1>3, <1>4
<1>6. QED BY <1>5 DEF x, y

\* The line read, by what was done to it.
TakenAs(e, i, r, u, l) ==
  /\ u = Reading(Extended(r, l), u.old, u.new) /\ u.old \in Sides /\ u.new \in Sides
  /\ l \in HunkLines /\ l.kind = e[i].did /\ l.text = e[i].text
  /\ i \in NewLines(e) => l.line = LineOf(e, i)
  /\ LeftTo(e, u, i, i)

LEMMA LineTaken ==
  ASSUME NEW e \in Seq(EditLines), NEW i \in 1..Len(e), NEW r \in Readings, LeftTo(e, r, i, i - 1), Shown(e, i)
  PROVE  \E l : TakenAs(e, i, r, ReadLine(r, RawLine(e[i])), l)
<1> DEFINE raw == RawLine(e[i])
           O == OldLines(e)
           N == NewLines(e)
<1>1. /\ e[i].did \in {"context", "add", "delete"} /\ e[i].text \in Texts /\ i \in DOMAIN e
      /\ i \in O <=> e[i].did # "add"
      /\ i \in N <=> e[i].did # "delete"
  BY EditIs DEF Shown, OldLines, NewLines
<1>2. O \in SUBSET Nat /\ IsFiniteSet(O) /\ N \in SUBSET Nat /\ IsFiniteSet(N)
  BY EditIs
<1>3. /\ Left(O, e, i, i) \in Nat
      /\ i \in O => Left(O, e, i, i - 1) = Left(O, e, i, i) + 1
      /\ i \notin O => Left(O, e, i, i - 1) = Left(O, e, i, i)
  BY <1>2, LeftStep
<1>4. /\ Left(N, e, i, i) \in Nat
      /\ i \in N => Left(N, e, i, i - 1) = Left(N, e, i, i) + 1 /\ CountTo(N, i) = CountTo(N, i - 1) + 1
      /\ i \notin N => Left(N, e, i, i - 1) = Left(N, e, i, i) /\ CountTo(N, i) = CountTo(N, i - 1)
  BY <1>2, LeftStep
<1>5. /\ r.old.left = Left(O, e, i, i - 1) /\ r.new.left = Left(N, e, i, i - 1)
      /\ r.new.left > 0 => r.new.line = CountTo(N, i - 1) + 1
  BY DEF LeftTo
<1>6. /\ r.old.left \in Nat /\ r.old.line \in Nat /\ r.new.left \in Nat /\ r.new.line \in Nat
      /\ r.old \in Sides /\ r.new \in Sides
  BY DEF Readings, Sides
<1>7. CountTo(N, i) \in Nat /\ CountTo(N, i - 1) \in Nat /\ LineOf(e, i) = CountTo(N, i)
  BY <1>2, CountType DEF LineOf
<1>8. raw.text = e[i].text /\ raw.mark = IF bare /\ e[i].did = "context" /\ e[i].text = Blank THEN "" ELSE Mark[e[i].did]
  BY DEF RawLine
<1>9. \A side \in Sides : side.left > 0 => /\ Passed(side) \in Sides /\ Passed(side).left = side.left - 1
                                         /\ Passed(side).line = side.line + 1
  BY DEF Passed, Sides
<1>10. \A u, l, hs, old, new :
         u = Reading(hs, old, new) => u.hunks = hs /\ u.old = old /\ u.new = new
  BY DEF Reading
<1> DEFINE More(u) == /\ u.old.left = Left(O, e, i, i) /\ u.new.left = Left(N, e, i, i)
                      /\ u.new.left > 0 => u.new.line = CountTo(N, i) + 1
<1>11. \A u : More(u) => LeftTo(e, u, i, i)
  BY DEF LeftTo
<1> HIDE DEF raw, O, N, More
<1>12. CASE e[i].did = "add"
  <2>1. raw.mark = "+"
    BY <1>8, <1>12 DEF Mark
  <2>2. i \in N /\ i \notin O
    BY <1>1, <1>12
  <2>3. r.new.left > 0 /\ r.new.line = CountTo(N, i)
    BY <1>3, <1>4, <1>5, <1>6, <1>7, <2>2
  <2> DEFINE l == [kind |-> "add", text |-> raw.text, line |-> r.new.line]
  <2>4. PICK u : u = ReadLine(r, raw)
    OBVIOUS
  <2>5. u = Reading(Extended(r, l), r.old, Passed(r.new))
    BY <2>1, <2>3, <2>4 DEF ReadLine, NewLine
  <2>6. l \in HunkLines /\ l.kind = e[i].did /\ l.text = e[i].text /\ l.line = LineOf(e, i)
    BY <1>1, <1>6, <1>7, <1>8, <1>12, <2>3 DEF HunkLines
  <2> HIDE DEF l
  <2>7. u.old = r.old /\ u.new = Passed(r.new) /\ u.new \in Sides /\ u.new.left = r.new.left - 1 /\ u.new.line = r.new.line + 1
    BY <1>6, <1>9, <1>10, <2>3, <2>5
  <2>8. More(u)
    BY <1>3, <1>4, <1>5, <1>6, <1>7, <2>2, <2>3, <2>7 DEF More
  <2>9. TakenAs(e, i, r, u, l)
    BY <1>6, <1>11, <2>5, <2>6, <2>7, <2>8 DEF TakenAs
  <2>10. QED BY <2>4, <2>9 DEF raw
<1>13. CASE e[i].did = "delete"
  <2>1. raw.mark = "-"
    BY <1>8, <1>13 DEF Mark
  <2>2. i \notin N /\ i \in O
    BY <1>1, <1>13
  <2>3. r.old.left > 0
    BY <1>3, <1>5, <1>6, <2>2
  <2> DEFINE l == [kind |-> "delete", text |-> raw.text, line |-> r.old.line]
  <2>4. PICK u : u = ReadLine(r, raw)
    OBVIOUS
  <2>5. u = Reading(Extended(r, l), Passed(r.old), r.new)
    BY <2>1, <2>3, <2>4 DEF ReadLine
  <2>6. l \in HunkLines /\ l.kind = e[i].did /\ l.text = e[i].text
    BY <1>1, <1>6, <1>8, <1>13 DEF HunkLines
  <2> HIDE DEF l
  <2>7. u.new = r.new /\ u.old = Passed(r.old) /\ u.old \in Sides /\ u.old.left = r.old.left - 1
    BY <1>6, <1>9, <1>10, <2>3, <2>5
  <2>8. More(u)
    BY <1>3, <1>4, <1>5, <1>6, <1>7, <2>2, <2>3, <2>7 DEF More
  <2>9. TakenAs(e, i, r, u, l)
    BY <1>6, <1>11, <2>2, <2>5, <2>6, <2>7, <2>8 DEF TakenAs, N
  <2>10. QED BY <2>4, <2>9 DEF raw
<1>14. CASE e[i].did = "context"
  <2>1. raw.mark = " " \/ raw.mark = ""
    <3>1. Mark["context"] = " "
      BY DEF Mark
    <3>2. raw.mark = "" \/ raw.mark = Mark[e[i].did]
      BY <1>8
    <3>3. QED BY <1>14, <3>1, <3>2
  <2>2. i \in N /\ i \in O
    BY <1>1, <1>14
  <2>3. r.old.left > 0 /\ r.new.left > 0 /\ r.new.line = CountTo(N, i)
    BY <1>3, <1>4, <1>5, <1>6, <1>7, <2>2
  <2> DEFINE l == [kind |-> "context", text |-> raw.text, line |-> r.new.line]
  <2>4. PICK u : u = ReadLine(r, raw)
    OBVIOUS
  <2>5. u = Reading(Extended(r, l), Passed(r.old), Passed(r.new))
    <3>1. /\ raw.mark \in {" ", ""}
          /\ raw.mark # "\\" /\ raw.mark # "+" /\ raw.mark # "-"
      BY <2>1
    <3>2. r.old.left > 0 /\ r.new.left > 0 /\ ~(r.old.left = 0 /\ r.new.left = 0)
      BY <1>6, <2>3
    <3>3. NewLine("context", r, raw) = l
      BY DEF NewLine
    <3> HIDE DEF l
    <3>4. QED BY <2>4, <3>1, <3>2, <3>3, ZenonT(60) DEF ReadLine
  <2>6. l \in HunkLines /\ l.kind = e[i].did /\ l.text = e[i].text /\ l.line = LineOf(e, i)
    BY <1>1, <1>6, <1>7, <1>8, <1>14, <2>3 DEF HunkLines
  <2> HIDE DEF l
  <2>7. /\ u.old = Passed(r.old) /\ u.old \in Sides /\ u.old.left = r.old.left - 1
        /\ u.new = Passed(r.new) /\ u.new \in Sides /\ u.new.left = r.new.left - 1 /\ u.new.line = r.new.line + 1
    BY <1>6, <1>9, <1>10, <2>3, <2>5, SMTT(60)
  <2>8. More(u)
    BY <1>3, <1>4, <1>5, <1>6, <1>7, <2>2, <2>3, <2>7 DEF More
  <2>9. TakenAs(e, i, r, u, l)
    BY <1>6, <1>11, <2>5, <2>6, <2>7, <2>8 DEF TakenAs
  <2>10. QED BY <2>4, <2>9 DEF raw
<1>15. QED BY <1>1, <1>12, <1>13, <1>14

LEMMA LineRead ==
  ASSUME NEW e \in Seq(EditLines), NEW i \in 1..Len(e), NEW r, AtLine(e, r, i, i - 1), Shown(e, i)
  PROVE  AtLine(e, ReadLine(r, RawLine(e[i])), i, i)
<1>1. i \in Nat /\ i - 1 \in Nat /\ Len(e) \in Nat
  BY EditIs
<1>2. r \in Readings /\ HunksTo(e, r.hunks, i, i - 1) /\ LeftTo(e, r, i, i - 1)
  BY DEF AtLine
<1>3. PICK u : u = ReadLine(r, RawLine(e[i]))
  OBVIOUS
<1>4. PICK l : TakenAs(e, i, r, u, l)
  BY <1>2, <1>3, LineTaken
<1>5. PICK s \in Starts(e) : /\ s <= i /\ i \in s..EndOf(e, s) /\ EndOf(e, i) = EndOf(e, s)
                             /\ CountTo(Starts(e), i) = CountTo(Starts(e), s)
                             /\ \A t \in Starts(e) : t <= i /\ t # s => t < s /\ EndOf(e, t) < s
  BY LastStart
<1>6. s \in Nat /\ 1 <= s /\ EndOf(e, s) \in Nat /\ i <= EndOf(e, s)
  <2>1. s \in 1..Len(e) /\ s \in Nat /\ EndOf(e, s) \in Nat
    BY StartsAre
  <2>2. QED BY <1>1, <1>5, <2>1
<1> DEFINE K == CountTo(Starts(e), s)
           hs == r.hunks
<1>7. hs \in Seq(HunkRecords) /\ Len(hs) = K
  BY <1>2, <1>5 DEF HunksTo, Readings
<1>8. K \in 1..Len(hs)
  <2>1. K \in 1..Cardinality(Starts(e))
    BY StartsAre, CountHits
  <2>2. Cardinality(Starts(e)) \in Nat
    BY StartsAre, CountType
  <2>3. QED BY <1>7, <2>1, <2>2
<1>9. \A t \in Starts(e) : t <= i => IsHunk(hs[CountTo(Starts(e), t)], e, t, Till(e, t, i - 1))
  BY <1>2 DEF HunksTo
<1>10. Till(e, s, i - 1) = i - 1 /\ Till(e, s, i) = i
  BY <1>1, <1>6 DEF Till
<1>11. IsHunk(hs[K], e, s, i - 1)
  BY <1>5, <1>9, <1>10
<1> HIDE DEF K, hs
<1>12. hs[K] \in HunkRecords
  BY <1>7, <1>8, ElementOfSeq
<1>13. PICK h, g : h = hs[K] /\ g = [h EXCEPT !.lines = Append(h.lines, l)]
  OBVIOUS
<1>14. g \in HunkRecords /\ IsHunk(g, e, s, i)
  <2>1. l \in HunkLines /\ l.kind = e[i].did /\ l.text = e[i].text /\ (i \in NewLines(e) => l.line = LineOf(e, i))
    BY <1>4 DEF TakenAs
  <2>2. h \in HunkRecords /\ IsHunk(h, e, s, i - 1)
    BY <1>11, <1>12, <1>13
  <2>3. i \in Nat /\ s \in Nat /\ 1 <= s /\ s <= i /\ g = [h EXCEPT !.lines = Append(h.lines, l)]
    BY <1>1, <1>5, <1>6, <1>13
  <2>4. QED BY <2>1, <2>2, <2>3, HunkTakes, SMTT(60)
<1>15. PICK xs : xs = Extended(r, l)
  OBVIOUS
<1>16. /\ xs \in Seq(HunkRecords) /\ Len(xs) = K /\ xs[K] = g
       /\ \A k \in 1..K : k # K => xs[k] = hs[k]
  <2>1. g = [hs[K] EXCEPT !.lines = Append(hs[K].lines, l)] /\ r.hunks = hs
    BY <1>13 DEF hs
  <2>2. QED BY <1>7, <1>8, <1>14, <1>15, <2>1, ExtendedIs, SMTT(60)
<1>17. ASSUME NEW t \in Starts(e), t <= i
       PROVE  IsHunk(xs[CountTo(Starts(e), t)], e, t, Till(e, t, i))
  <2>1. CASE t = s
    BY <1>10, <1>14, <1>16, <2>1 DEF K
  <2>2. CASE t # s
    <3>1. t < s /\ EndOf(e, t) < s
      BY <1>5, <1>17, <2>2
    <3>2. t \in Nat /\ EndOf(e, t) \in Nat
      BY StartsAre
    <3>3. EndOf(e, t) <= i - 1 /\ EndOf(e, t) <= i
      BY <1>1, <1>5, <1>6, <3>1, <3>2
    <3>4. Till(e, t, i) = Till(e, t, i - 1)
      BY <3>3 DEF Till
    <3>5. CountTo(Starts(e), t) \in 1..K /\ CountTo(Starts(e), t) # K
      <4>1. CountTo(Starts(e), t) < CountTo(Starts(e), s)
        BY <3>1, StartsAre, CountOrder
      <4>2. CountTo(Starts(e), t) \in 1..Cardinality(Starts(e)) /\ Cardinality(Starts(e)) \in Nat
        BY StartsAre, CountHits, CountType
      <4>3. K \in Nat
        BY StartsAre, CountType DEF K
      <4>4. QED BY <4>1, <4>2, <4>3 DEF K
    <3>6. IsHunk(hs[CountTo(Starts(e), t)], e, t, Till(e, t, i - 1))
      BY <1>9, <1>17
    <3>7. QED BY <1>16, <3>4, <3>5, <3>6
  <2>3. QED BY <2>1, <2>2
<1>18. HunksTo(e, xs, i, i)
  <2>1. Len(xs) = CountTo(Starts(e), i)
    BY <1>5, <1>16 DEF K
  <2>2. QED BY <1>17, <2>1 DEF HunksTo
<1>19. PICK old, new : old = u.old /\ new = u.new
  OBVIOUS
<1>20. u = Reading(xs, old, new) /\ old \in Sides /\ new \in Sides /\ LeftTo(e, u, i, i)
  BY <1>4, <1>15, <1>19 DEF TakenAs
<1>21. u \in Readings /\ u.hunks = xs
  BY <1>16, <1>20 DEF Reading, Readings
<1>22. AtLine(e, u, i, i)
  BY <1>18, <1>20, <1>21 DEF AtLine
<1>23. QED BY <1>3, <1>22

\* That no newline follows says nothing of the lines.
LEMMA EndRead ==
  ASSUME NEW r
  PROVE  ReadLine(r, [mark |-> "\\"]) = r
<1>1. CASE r.old.left = 0 /\ r.new.left = 0
  BY <1>1 DEF ReadLine, Outside
<1>2. CASE ~(r.old.left = 0 /\ r.new.left = 0)
  BY <1>2 DEF ReadLine
<1>3. QED BY <1>1, <1>2

LEMMA WrittenTaken ==
  ASSUME NEW e \in Seq(EditLines), NEW i \in 1..Len(e), NEW r, AtLine(e, r, i - 1, i - 1)
  PROVE  AtLine(e, Closed(e, i, Taken(e, i, Opened(e, i, r))), i, i)
<1>1. CASE ~Shown(e, i)
  <2>1. Closed(e, i, Taken(e, i, Opened(e, i, r))) = r
    BY <1>1 DEF Closed, Taken, Opened
  <2>2. QED BY <1>1, <2>1, NotShownRead
<1>2. CASE Shown(e, i)
  <2>1. AtLine(e, Opened(e, i, r), i, i - 1)
    <3>1. CASE Shown(e, i - 1)
      <4>1. Opened(e, i, r) = r
        BY <3>1 DEF Opened
      <4>2. QED BY <1>2, <3>1, <4>1, GoesOn
    <3>2. CASE ~Shown(e, i - 1)
      <4>1. Opened(e, i, r) = ReadLine(r, Header(e, i)) /\ i \in Starts(e)
        BY <1>2, <3>2 DEF Opened, Starts, Shown
      <4>2. QED BY <4>1, StartRead
    <3>3. QED BY <3>1, <3>2
  <2>2. AtLine(e, Taken(e, i, Opened(e, i, r)), i, i)
    <3>1. Taken(e, i, Opened(e, i, r)) = ReadLine(Opened(e, i, r), RawLine(e[i]))
      BY <1>2 DEF Taken
    <3>2. QED BY <1>2, <2>1, <3>1, LineRead
  <2>3. Closed(e, i, Taken(e, i, Opened(e, i, r))) = Taken(e, i, Opened(e, i, r))
    BY EndRead DEF Closed
  <2>4. QED BY <2>2, <2>3
<1>3. QED BY <1>1, <1>2

\* A hunk for each of the edit's runs, and no other.
HunksRead(e, hunks) ==
  /\ \A s \in Starts(e) : \E h \in hunks : IsHunk(h, e, s, EndOf(e, s))
  /\ \A h \in hunks : \E s \in Starts(e) : IsHunk(h, e, s, EndOf(e, s))

\* For an edit of any length, and either way git may write it: reading its diff by
\* the counts of the headers gives back the edit's runs of shown lines, every line
\* with what was done to it and its number in the new version (hunks.ts:6-77).
THEOREM HunksAre ==
  ASSUME NEW e \in Seq(EditLines), bare \in BOOLEAN
  PROVE  HunksRead(e, Range(Hunks(e)))
<1> DEFINE N == Len(e)
           Heads == {Header(e, i) : i \in 1..N}
           Raws == {RawLine(e[i]) : i \in 1..N}
           S == Heads \cup Raws \cup {[mark |-> "\\"]}
           list == [i \in DOMAIN e |-> Written(e, i)]
           r == Reading(<<>>, NoSide, NoSide)
<1>1. N \in Nat /\ DOMAIN e = 1..N
  BY EditIs
<1>2. /\ \A i \in 1..N : Header(e, i) \in S /\ RawLine(e[i]) \in S
      /\ [mark |-> "\\"] \in S /\ <<>> \in Seq(S)
  <2>1. ASSUME NEW i \in 1..N PROVE Header(e, i) \in Heads /\ RawLine(e[i]) \in Raws
    OBVIOUS
  <2> HIDE DEF Heads, Raws, N
  <2>2. [mark |-> "\\"] \in S
    OBVIOUS
  <2> HIDE DEF S
  <2>3. <<>> \in Seq(S)
    OBVIOUS
  <2>4. Heads \subseteq S /\ Raws \subseteq S
    BY DEF S
  <2>5. QED BY <2>1, <2>2, <2>3, <2>4
<1> HIDE DEF S
<1>3. ASSUME NEW i \in 1..N PROVE Written(e, i) \in Seq(S)
  <2>1. PICK t : t = <<>>
    OBVIOUS
  <2>2. t \in Seq(S) /\ Header(e, i) \in S /\ RawLine(e[i]) \in S /\ [mark |-> "\\"] \in S
    BY <1>2, <2>1
  <2>3. QED BY <2>2, WrittenRead
<1>4. list \in Seq(Seq(S)) /\ Len(list) = N /\ \A i \in 1..N : list[i] = Written(e, i)
  <2>1. list \in [1..N -> Seq(S)]
    BY <1>1, <1>3
  <2>2. \A i \in 1..N : list[i] = Written(e, i)
    BY <1>1
  <2> HIDE DEF list, N
  <2>3. QED BY <1>1, <2>1, <2>2, AreSeq
<1>5. PICK g : Flattens(list, g, S) /\ FlattenSeq(list) = g[Len(list)]
  <2> HIDE DEF list
  <2>1. QED BY <1>4, FlattenBy
<1>6. Hunks(e) = ReadAll(r, g[N]).hunks
  <2>1. Diff(e) = g[N]
    BY <1>4, <1>5 DEF Diff
  <2>2. QED BY <2>1 DEF Hunks
<1> HIDE DEF list, N, r
<1>7. g[0] = <<>> /\ \A i \in 1..N : g[i] = g[i - 1] \o Written(e, i) /\ g[i - 1] \in Seq(S)
  <2>1. g[0] = <<>> /\ g \in [0..N -> Seq(S)] /\ \A i \in 1..N : g[i] = g[i - 1] \o list[i]
    BY <1>4, <1>5 DEF Flattens
  <2>2. \A i \in 1..N : i - 1 \in 0..N
    BY <1>1
  <2>3. QED BY <1>4, <2>1, <2>2
<1> DEFINE ReadTo(i) == AtLine(e, ReadAll(r, g[i]), i, i)
           T == {i \in 0..N : ReadTo(i)}
<1>8. 0 \in T
  <2>1. ReadAll(r, g[0]) = r
    BY <1>7, ReadAllNone
  <2>2. r.hunks = <<>> /\ r.old = NoSide /\ r.new = NoSide /\ r = [hunks |-> <<>>, old |-> NoSide, new |-> NoSide]
    BY DEF r, Reading
  <2>3. NoSide \in Sides /\ NoSide.left = 0
    BY DEF NoSide, Sides
  <2>4. r \in Readings
    BY <2>2, <2>3 DEF Readings
  <2>5. ~Shown(e, 0) /\ \A s \in Starts(e) : s \in Nat /\ s >= 1
    <3>1. ~(0 \in 1..N)
      BY <1>1
    <3>2. \A s \in Starts(e) : s \in 1..N
      BY StartsAre DEF N
    <3>3. QED BY <1>1, <3>1, <3>2, EditIs DEF N
  <2>6. CountTo(Starts(e), 0) = 0
    <3>1. \A s \in Starts(e) : s > 0
      BY <2>5
    <3>2. QED BY <3>1, StartsAre, CountEnds
  <2>7. HunksTo(e, r.hunks, 0, 0)
    <3>1. Len(<<>>) = 0 /\ \A s \in Starts(e) : ~(s <= 0)
      BY <2>5
    <3>2. QED BY <2>2, <2>6, <3>1 DEF HunksTo
  <2>8. LeftTo(e, r, 0, 0)
    BY <2>2, <2>3, <2>5 DEF LeftTo, Left
  <2>9. ReadTo(0)
    BY <2>1, <2>4, <2>7, <2>8 DEF AtLine
  <2>10. 0 \in 0..N
    BY <1>1
  <2>11. QED BY <2>9, <2>10
<1>9. ASSUME NEW i \in T, i + 1 \in 0..N PROVE i + 1 \in T
  <2>1. PICK n : n = i + 1
    OBVIOUS
  <2>2. n \in 1..N /\ n - 1 = i /\ ReadTo(n - 1)
    BY <1>1, <1>9, <2>1
  <2>3. g[n] = g[n - 1] \o Written(e, n) /\ g[n - 1] \in Seq(S)
    BY <1>7, <2>2
  <2>4. PICK t, x, y : t = g[n - 1] /\ x = ReadAll(r, t) /\ y = ReadAll(r, t \o Written(e, n))
    OBVIOUS
  <2>5. y = Closed(e, n, Taken(e, n, Opened(e, n, x)))
    <3>1. Header(e, n) \in S /\ RawLine(e[n]) \in S /\ [mark |-> "\\"] \in S /\ t \in Seq(S)
      BY <1>2, <2>2, <2>3, <2>4
    <3>2. QED BY <2>4, <3>1, WrittenRead
  <2>6. AtLine(e, x, n - 1, n - 1) /\ n \in 1..Len(e)
    BY <2>2, <2>4 DEF N
  <2>7. AtLine(e, y, n, n)
    BY <2>5, <2>6, WrittenTaken
  <2>8. ReadTo(n)
    BY <2>3, <2>4, <2>7
  <2>9. QED BY <1>9, <2>1, <2>8
<1>10. T \in SUBSET (0..N) /\ N \in 0..N
  BY <1>1
<1>11. ReadTo(N)
  <2> HIDE DEF T
  <2>1. T = 0..N
    BY <1>1, <1>8, <1>9, <1>10, AllUpTo
  <2>2. QED BY <1>10, <2>1 DEF T
<1>12. PICK hs : hs = Hunks(e)
  OBVIOUS
<1>13. hs \in Seq(HunkRecords) /\ HunksTo(e, hs, N, N)
  BY <1>6, <1>11, <1>12 DEF AtLine, Readings
<1>14. Range(hs) = {hs[k] : k \in 1..Len(hs)}
  BY <1>13, LenProperties DEF Range
<1>15. CountTo(Starts(e), N) = Cardinality(Starts(e)) /\ Cardinality(Starts(e)) \in Nat
  <2>1. \A s \in Starts(e) : s <= N
    BY <1>1, StartsAre DEF N
  <2>2. QED BY <1>1, <2>1, StartsAre, CountEnds, CountType
<1>16. ASSUME NEW s \in Starts(e)
       PROVE  IsHunk(hs[CountTo(Starts(e), s)], e, s, EndOf(e, s)) /\ CountTo(Starts(e), s) \in 1..Len(hs)
  <2>1. s <= N /\ EndOf(e, s) <= N
    BY <1>1, StartsAre DEF N
  <2>2. Till(e, s, N) = EndOf(e, s)
    BY <2>1 DEF Till
  <2>3. CountTo(Starts(e), s) \in 1..Cardinality(Starts(e))
    BY StartsAre, CountHits
  <2>4. QED BY <1>13, <1>15, <2>1, <2>2, <2>3 DEF HunksTo
<1>17. ASSUME NEW k \in 1..Len(hs) PROVE \E s \in Starts(e) : CountTo(Starts(e), s) = k
  <2>1. k \in 1..Cardinality(Starts(e))
    BY <1>13, <1>15 DEF HunksTo
  <2>2. QED BY <2>1, StartsAre, CountHits
<1>18. HunksRead(e, Range(hs))
  <2>1. \A s \in Starts(e) : \E h \in Range(hs) : IsHunk(h, e, s, EndOf(e, s))
    BY <1>14, <1>16
  <2>2. ASSUME NEW h \in Range(hs) PROVE \E s \in Starts(e) : IsHunk(h, e, s, EndOf(e, s))
    <3>1. PICK k \in 1..Len(hs) : h = hs[k]
      BY <1>14
    <3>2. PICK s \in Starts(e) : CountTo(Starts(e), s) = k
      BY <1>17
    <3>3. QED BY <1>16, <3>1, <3>2
  <2>3. QED BY <2>1, <2>2 DEF HunksRead
<1>19. QED BY <1>12, <1>18

-----------------------------------------------------------------------------
(* Anchors: what is found *)

\* The matches are the places R of the file, each added to where A says.
MatchesOf(Z, c, A, R) == \A z : z \in Z <=> \E r \in R : z = MatchOf(c, A, r[1], r[2])
BestOf(c, A, R) ==
  IF \E r \in R : Filled(c, r[1], r[2]) \cap A # {} THEN {r \in R : Filled(c, r[1], r[2]) \cap A # {}} ELSE R

\* Of the places R that read so, and P that do so partly: what was picked.
Picked(Z, c, A, R, P) ==
  /\ \A m \in Z : m.range \in P
  /\ \A m : Z = {m} => BestOf(c, A, R) \subseteq {m.range}
  /\ Z = {} => R = {}
  /\ \A r : BestOf(c, A, R) = {r} => \E m : Z = {m} /\ m.range = r

LEMMA MatchRange ==
  ASSUME NEW c, NEW A, NEW r \in Ranges(c)
  PROVE  /\ r \in (DOMAIN c) \X (DOMAIN c) /\ r = <<r[1], r[2]>> /\ r[1] <= r[2]
         /\ r[1] \in DOMAIN c /\ r[2] \in DOMAIN c
         /\ MatchOf(c, A, r[1], r[2]).range = r
         /\ MatchOf(c, A, r[1], r[2]).added = (Filled(c, r[1], r[2]) \cap A # {})
<1>1. r \in (DOMAIN c) \X (DOMAIN c) /\ r[1] <= r[2]
  BY DEF Ranges
<1>2. r = <<r[1], r[2]>> /\ r[1] \in DOMAIN c /\ r[2] \in DOMAIN c
  BY <1>1
<1>3. QED BY <1>1, <1>2 DEF MatchOf

LEMMA BestIs ==
  ASSUME NEW Z, NEW c, NEW A, NEW R \in SUBSET Ranges(c), MatchesOf(Z, c, A, R)
  PROVE  MatchesOf(Best(Z), c, A, BestOf(c, A, R)) /\ BestOf(c, A, R) \in SUBSET R /\ (Best(Z) = {} => Z = {})
<1> DEFINE M(r) == MatchOf(c, A, r[1], r[2])
           Adding(r) == Filled(c, r[1], r[2]) \cap A # {}
<1>1. \A r \in R : M(r).added <=> Adding(r)
  BY MatchRange
<1>2. \A z : z \in Z <=> \E r \in R : z = M(r)
  BY DEF MatchesOf
<1>3. /\ (\E r \in R : Adding(r)) => BestOf(c, A, R) = {r \in R : Adding(r)}
      /\ ~(\E r \in R : Adding(r)) => BestOf(c, A, R) = R
  BY DEF BestOf
<1> HIDE DEF M, Adding
<1>4. (\E z \in Z : z.added) <=> \E r \in R : Adding(r)
  BY <1>1, <1>2
<1>5. CASE \E r \in R : Adding(r)
  <2>1. Best(Z) = {z \in Z : z.added} /\ BestOf(c, A, R) = {r \in R : Adding(r)}
    BY <1>3, <1>4, <1>5 DEF Best
  <2>2. \A z : z \in Best(Z) <=> \E r \in BestOf(c, A, R) : z = M(r)
    BY <1>1, <1>2, <2>1
  <2>3. Best(Z) # {}
    BY <1>4, <1>5, <2>1
  <2>4. BestOf(c, A, R) \in SUBSET R
    BY <2>1
  <2>5. QED BY <2>2, <2>3, <2>4 DEF MatchesOf, M
<1>6. CASE ~\E r \in R : Adding(r)
  <2>1. Best(Z) = Z /\ BestOf(c, A, R) = R
    BY <1>3, <1>4, <1>6 DEF Best
  <2>2. QED BY <2>1
<1>7. QED BY <1>5, <1>6

LEMMA FoundIs ==
  ASSUME NEW groups, NEW quote, NEW c, NEW A, NEW P \in SUBSET Ranges(c), NEW R \in SUBSET P,
         Target(quote) # <<>>,
         MatchesOf(Across(groups, Target(quote), FALSE), c, A, R),
         MatchesOf(Across(groups, Target(quote), TRUE), c, A, P)
  PROVE  Picked(Found(groups, quote), c, A, R, P)
<1> DEFINE T == Target(quote)
           M(r) == MatchOf(c, A, r[1], r[2])
<1>1. PICK X, Y, Z : X = Across(groups, T, FALSE) /\ Y = Across(groups, T, TRUE) /\ Z = Found(groups, quote)
  OBVIOUS
<1>2. MatchesOf(X, c, A, R) /\ MatchesOf(Y, c, A, P) /\ R \in SUBSET Ranges(c)
  BY <1>1
<1>3. /\ \A z : z \in X <=> \E r \in R : z = M(r)
      /\ \A z : z \in Y <=> \E r \in P : z = M(r)
  BY <1>2 DEF MatchesOf
<1>4. ASSUME NEW r \in P PROVE M(r).range = r
  <2>1. r \in Ranges(c)
    OBVIOUS
  <2>2. r = <<r[1], r[2]>>
    BY <2>1 DEF Ranges
  <2>3. QED BY <2>2 DEF MatchOf
<1>5. PICK F : F = FindMatches(groups, T)
  OBVIOUS
<1>6. Z = Best(F)
  BY <1>1, <1>5 DEF Found
<1>7. /\ X # {} => F = X
      /\ X = {} => F = {} \/ F = Y
  BY <1>1, <1>5 DEF FindMatches
<1> HIDE DEF M
<1>8. X = {} => R = {}
  BY <1>3
<1>9. CASE X # {}
  <2>1. MatchesOf(Z, c, A, BestOf(c, A, R)) /\ BestOf(c, A, R) \in SUBSET R /\ Z # {}
    BY <1>2, <1>6, <1>7, <1>9, BestIs
  <2>2. PICK B : B = BestOf(c, A, R)
    OBVIOUS
  <2>3. \A z : z \in Z <=> \E r \in B : z = M(r)
    BY <2>1, <2>2 DEF MatchesOf, M
  <2>4. \A r \in B : r \in P /\ M(r).range = r
    BY <1>4, <2>1, <2>2
  <2>5. \A m \in Z : m.range \in P
    BY <2>3, <2>4
  <2>6. ASSUME NEW m, Z = {m} PROVE B \subseteq {m.range}
    BY <2>3, <2>4, <2>6
  <2>7. ASSUME NEW r, B = {r} PROVE \E m : Z = {m} /\ m.range = r
    <3>1. r \in B
      BY <2>7
    <3>2. \A z : z \in Z <=> z = M(r)
      BY <2>3, <2>7
    <3>3. Z = {M(r)} /\ M(r).range = r
      BY <2>4, <3>1, <3>2
    <3>4. QED BY <3>3
  <2>8. QED BY <1>1, <2>1, <2>2, <2>5, <2>6, <2>7 DEF Picked
<1>10. CASE X = {}
  <2>1. R = {} /\ BestOf(c, A, R) = {}
    BY <1>8, <1>10 DEF BestOf
  <2>2. \A m \in Z : m \in Y
    BY <1>6, <1>7, <1>10 DEF Best
  <2>3. \A m \in Z : m.range \in P
    BY <1>3, <1>4, <2>2
  <2>4. QED BY <1>1, <2>1, <2>3 DEF Picked
<1>11. QED BY <1>9, <1>10

\* What is looked for: the lines of the quote that are not blank.
LEMMA TargetIs ==
  ASSUME NEW quote \in Seq(Texts)
  PROVE  /\ Len(Target(quote)) \in Nat /\ DOMAIN Target(quote) = 1..Len(Target(quote))
         /\ Target(quote) # <<>> => Len(Target(quote)) # 0
<1> DEFINE I == {k \in DOMAIN quote : quote[k] # Blank}
           T == Chosen(quote, I)
<1>1. I \in SUBSET Nat /\ IsFiniteSet(I)
  <2>1. DOMAIN quote = 1..Len(quote) /\ Len(quote) \in Nat
    OBVIOUS
  <2>2. I \in SUBSET (1..Len(quote)) /\ IsFiniteSet(1..Len(quote))
    BY <2>1, FS_Interval
  <2>3. \A k \in 1..Len(quote) : k \in Nat
    BY <2>1
  <2>4. QED BY <2>2, <2>3, FS_Subset
<1> HIDE DEF I
<1>2. Cardinality(I) \in Nat /\ Len(T) = Cardinality(I) /\ DOMAIN T = 1..Cardinality(I)
  BY <1>1, ChosenIs
<1>3. Cardinality(I) = 0 => T = <<>>
  <2>1. SUFFICES ASSUME Cardinality(I) = 0 PROVE T = <<>>
    OBVIOUS
  <2>2. T = [k \in 1..0 |-> quote[CHOOSE i \in I : CountTo(I, i) = k]]
    BY <2>1 DEF Chosen
  <2>3. QED BY <2>2
<1>4. Target(quote) = T
  BY DEF Target, I
<1>5. QED BY <1>2, <1>3, <1>4

\* The places of a file: the pairs of its filled lines.
Paired(c, x, y) ==
  \A a, b : (a \in Filled(c, x, y) /\ b \in Filled(c, x, y) /\ a <= b)
              <=> (<<a, b>> \in Ranges(c) /\ x <= a /\ b <= y)

LEMMA FilledRanges ==
  ASSUME NEW c, NEW x \in Nat, NEW y \in Nat, NEW n, Sized(c, n), 1 <= x, y <= n
  PROVE  Paired(c, x, y)
<1>0. n \in Nat /\ DOMAIN c = 1..n
  BY DEF Sized
<1>1. \A a : a \in Filled(c, x, y) <=> a \in x..y /\ c[a].text # Blank
  BY DEF Filled
<1>2. \A a, b : <<a, b>> \in Ranges(c) <=>
        a \in 1..n /\ b \in 1..n /\ a <= b /\ c[a].text # Blank /\ c[b].text # Blank
  BY <1>0 DEF Ranges
<1>3. ASSUME NEW a, NEW b, a \in Filled(c, x, y), b \in Filled(c, x, y), a <= b
      PROVE  <<a, b>> \in Ranges(c) /\ x <= a /\ b <= y
  <2>1. a \in x..y /\ b \in x..y /\ c[a].text # Blank /\ c[b].text # Blank
    BY <1>1, <1>3
  <2>2. a \in 1..n /\ b \in 1..n /\ x <= a /\ b <= y
    BY <1>0, <2>1
  <2>3. QED BY <1>2, <1>3, <2>1, <2>2
<1>4. ASSUME NEW a, NEW b, <<a, b>> \in Ranges(c), x <= a, b <= y
      PROVE  a \in Filled(c, x, y) /\ b \in Filled(c, x, y) /\ a <= b
  <2>1. a \in 1..n /\ b \in 1..n /\ a <= b /\ c[a].text # Blank /\ c[b].text # Blank
    BY <1>2, <1>4
  <2>2. a \in x..y /\ b \in x..y
    BY <1>0, <1>4, <2>1
  <2>3. QED BY <1>1, <2>1, <2>2
<1>5. QED BY <1>3, <1>4 DEF Paired

\* The places that read so.
ReadPlaces(c, target, partly) == {r \in Ranges(c) : ReadsAt(c, r[1], r[2], target, partly)}

\* What lines in order match: the places among them.
LEMMA ListMatches ==
  ASSUME NEW g, NEW c, NEW A, NEW T, NEW partly,
         NEW x \in Nat, NEW y \in Nat, NEW n, NEW m,
         Lists(g, c, Filled(c, x, y), A), Sized(c, n), 1 <= x, y <= n, m # 0, Sized(T, m)
  PROVE  MatchesOf(Matches(g, T, partly), c, A, {r \in ReadPlaces(c, T, partly) : x <= r[1] /\ r[2] <= y})
<1> DEFINE R == {r \in ReadPlaces(c, T, partly) : x <= r[1] /\ r[2] <= y}
           Z == Matches(g, T, partly)
           F == Filled(c, x, y)
<1>1. \A z : z \in Z <=> \E a, b \in F : a <= b /\ ReadsAt(c, a, b, T, partly) /\ z = MatchOf(c, A, a, b)
  BY MatchesAre
<1>2. \A a, b : (a \in F /\ b \in F /\ a <= b) <=> (<<a, b>> \in Ranges(c) /\ x <= a /\ b <= y)
  <2>1. Paired(c, x, y)
    BY FilledRanges
  <2>2. QED BY <2>1 DEF Paired
<1>3. /\ \A r \in R : r = <<r[1], r[2]>>
      /\ \A a, b : <<a, b>> \in R <=> <<a, b>> \in Ranges(c) /\ x <= a /\ b <= y /\ ReadsAt(c, a, b, T, partly)
  BY DEF ReadPlaces, Ranges
<1> HIDE DEF R, Z, F
<1>4. ASSUME NEW z PROVE z \in Z <=> \E r \in R : z = MatchOf(c, A, r[1], r[2])
  <2>1. ASSUME z \in Z PROVE \E r \in R : z = MatchOf(c, A, r[1], r[2])
    <3>1. PICK a, b \in F : a <= b /\ ReadsAt(c, a, b, T, partly) /\ z = MatchOf(c, A, a, b)
      BY <1>1, <2>1
    <3>2. PICK r : r = <<a, b>>
      OBVIOUS
    <3>3. r \in R /\ r[1] = a /\ r[2] = b
      BY <1>2, <1>3, <3>1, <3>2
    <3>4. QED BY <3>1, <3>3
  <2>2. ASSUME NEW r \in R, z = MatchOf(c, A, r[1], r[2]) PROVE z \in Z
    <3>1. PICK a, b : a = r[1] /\ b = r[2]
      OBVIOUS
    <3>2. <<a, b>> \in R
      BY <1>3, <3>1
    <3>3. a \in F /\ b \in F /\ a <= b /\ ReadsAt(c, a, b, T, partly)
      BY <1>2, <1>3, <3>2
    <3>4. QED BY <1>1, <2>2, <3>1, <3>3
  <2>3. QED BY <2>1, <2>2
<1>5. QED BY <1>4 DEF MatchesOf, R, Z

\* What a hunk matches: the places it spans.
LEMMA GroupMatches ==
  ASSUME NEW e \in Seq(EditLines), NEW s \in Starts(e), NEW h, NEW T, NEW partly,
         IsHunk(h, e, s, EndOf(e, s)), Len(T) \in Nat, Len(T) # 0, DOMAIN T = 1..Len(T)
  PROVE  MatchesOf(Matches(Group(h), T, partly), After(e), AddedLines(e),
                   {r \in ReadPlaces(After(e), T, partly) : Spans(e, s, r[1], r[2])})
<1>1. NewLines(e) \in SUBSET Nat /\ IsFiniteSet(NewLines(e))
  BY EditIs
<1>2. PICK c, A, g, w, y, n, m :
        /\ c = After(e) /\ A = AddedLines(e) /\ g = Group(h) /\ n = Len(c) /\ m = Len(T)
        /\ w = CountTo(NewLines(e), s - 1) /\ y = CountTo(NewLines(e), EndOf(e, s))
  OBVIOUS
<1>3. n \in Nat /\ DOMAIN c = 1..n /\ n = Cardinality(NewLines(e))
  BY <1>2, AfterIs
<1>4. w \in Nat /\ y \in Nat /\ y <= n
  BY <1>1, <1>2, <1>3, CountType
<1>5. PICK x \in Nat : x = w + 1 /\ 1 <= x
  BY <1>4
<1>6. Lists(g, c, Filled(c, x, y), A)
  <2>1. LinesOf(e, s) = Filled(c, x, y)
    BY <1>2, <1>5 DEF LinesOf
  <2>2. QED BY <1>2, <2>1, GroupLists
<1>7. MatchesOf(Matches(g, T, partly), c, A, {r \in ReadPlaces(c, T, partly) : x <= r[1] /\ r[2] <= y})
  <2>1. m # 0 /\ Sized(T, m) /\ Sized(c, n)
    BY <1>2, <1>3 DEF Sized
  <2>2. QED BY <1>4, <1>5, <1>6, <2>1, ListMatches
<1>8. ASSUME NEW r \in ReadPlaces(c, T, partly)
      PROVE  Spans(e, s, r[1], r[2]) <=> x <= r[1] /\ r[2] <= y
  <2>1. r[1] \in Nat
    BY <1>3 DEF ReadPlaces, Ranges
  <2>2. Spans(e, s, r[1], r[2]) <=> w < r[1] /\ r[2] <= y
    BY <1>2 DEF Spans
  <2>3. QED BY <1>4, <1>5, <2>1, <2>2
<1>9. {r \in ReadPlaces(c, T, partly) : x <= r[1] /\ r[2] <= y}
        = {r \in ReadPlaces(c, T, partly) : Spans(e, s, r[1], r[2])}
  BY <1>8
<1>10. QED BY <1>2, <1>7, <1>9

\* For any diff and any lines looked for: what is found in the hunks, each by
\* itself, are the places of the new version that the diff shows and that read so,
\* each with whether a line was added there (match.ts:65-112).
THEOREM GroupsMatch ==
  ASSUME NEW e \in Seq(EditLines), NEW T, NEW partly,
         bare \in BOOLEAN, Len(T) \in Nat, Len(T) # 0, DOMAIN T = 1..Len(T)
  PROVE  MatchesOf(Across(Groups(e), T, partly), After(e), AddedLines(e),
                   {r \in ReadPlaces(After(e), T, partly) : Shows(e, r)})
<1> DEFINE c == After(e)
           A == AddedLines(e)
           hunks == Range(Hunks(e))
           M(r) == MatchOf(c, A, r[1], r[2])
           Reads1 == ReadPlaces(c, T, partly)
           R == {r \in Reads1 : Shows(e, r)}
<1>1. HunksRead(e, hunks)
  BY HunksAre
<1>2. \A z : z \in Across(Groups(e), T, partly) <=> \E h \in hunks : z \in Matches(Group(h), T, partly)
  BY DEF Across, Groups
<1>3. ASSUME NEW s \in Starts(e), NEW h, IsHunk(h, e, s, EndOf(e, s))
      PROVE  \A z : z \in Matches(Group(h), T, partly) <=>
               \E r \in Reads1 : Spans(e, s, r[1], r[2]) /\ z = M(r)
  <2>1. MatchesOf(Matches(Group(h), T, partly), c, A, {r \in Reads1 : Spans(e, s, r[1], r[2])})
    BY <1>3, GroupMatches
  <2> HIDE DEF c, A, Reads1
  <2>2. QED BY <2>1 DEF MatchesOf
<1>4. ASSUME NEW r \in Reads1
      PROVE  Shows(e, r) <=> \E s \in Starts(e) : Spans(e, s, r[1], r[2])
  <2>1. r \in Ranges(c)
    BY DEF ReadPlaces
  <2>2. DOMAIN c = 1..Len(c) /\ Len(c) \in Nat
    BY AfterIs
  <2>3. r[1] \in DOMAIN c /\ r[2] \in DOMAIN c /\ r[1] <= r[2] /\ r = <<r[1], r[2]>>
    BY <2>1, MatchRange
  <2> HIDE DEF c
  <2>4. PICK a, b : a = r[1] /\ b = r[2]
    OBVIOUS
  <2>5. a \in Nat /\ b \in Nat /\ a <= b /\ r = <<a, b>>
    BY <2>2, <2>3, <2>4
  <2>6. Shows(e, <<a, b>>) <=> \E s \in Starts(e) : Spans(e, s, a, b)
    BY <2>5, ShowsIs
  <2>7. QED BY <2>4, <2>5, <2>6
<1> HIDE DEF c, A, hunks, M, Reads1
<1>5. \A z : z \in Across(Groups(e), T, partly) <=> \E r \in R : z = M(r)
  <2>1. ASSUME NEW z, z \in Across(Groups(e), T, partly) PROVE \E r \in R : z = M(r)
    <3>1. PICK h \in hunks : z \in Matches(Group(h), T, partly)
      BY <1>2, <2>1
    <3>2. PICK s \in Starts(e) : IsHunk(h, e, s, EndOf(e, s))
      BY <1>1 DEF HunksRead
    <3>3. PICK r \in Reads1 : Spans(e, s, r[1], r[2]) /\ z = M(r)
      BY <1>3, <3>1, <3>2
    <3>4. r \in R
      BY <1>4, <3>3
    <3>5. QED BY <3>3, <3>4
  <2>2. ASSUME NEW r \in R PROVE M(r) \in Across(Groups(e), T, partly)
    <3>1. PICK s \in Starts(e) : Spans(e, s, r[1], r[2])
      BY <1>4
    <3>2. PICK h \in hunks : IsHunk(h, e, s, EndOf(e, s))
      BY <1>1 DEF HunksRead
    <3>3. M(r) \in Matches(Group(h), T, partly)
      BY <1>3, <3>1, <3>2
    <3>4. QED BY <1>2, <3>3
  <2>3. QED BY <2>1, <2>2
<1>6. QED BY <1>5 DEF MatchesOf, R, M, c, A, Reads1

\* What a file matches: any place of it.
LEMMA WholeMatches ==
  ASSUME NEW c, NEW T, NEW partly, Len(c) \in Nat, DOMAIN c = 1..Len(c),
         Len(T) \in Nat, Len(T) # 0, DOMAIN T = 1..Len(T)
  PROVE  MatchesOf(Across({Whole(c)}, T, partly), c, {}, ReadPlaces(c, T, partly))
<1>1. PICK A, g, x, n, m : A = {} /\ g = Whole(c) /\ x = 1 /\ n = Len(c) /\ m = Len(T)
  OBVIOUS
<1>2. Lists(g, c, Filled(c, x, n), A)
  BY <1>1, WholeLists
<1>3. Across({g}, T, partly) = Matches(g, T, partly)
  BY DEF Across
<1>4. x \in Nat /\ n \in Nat /\ m # 0 /\ 1 <= x /\ n <= n /\ Sized(c, n) /\ Sized(T, m)
  BY <1>1 DEF Sized
<1>5. MatchesOf(Matches(g, T, partly), c, A, {r \in ReadPlaces(c, T, partly) : x <= r[1] /\ r[2] <= n})
  BY <1>2, <1>4, ListMatches
<1>6. {r \in ReadPlaces(c, T, partly) : x <= r[1] /\ r[2] <= n} = ReadPlaces(c, T, partly)
  <2>1. ASSUME NEW r \in ReadPlaces(c, T, partly) PROVE x <= r[1] /\ r[2] <= n
    <3>1. r[1] \in 1..n /\ r[2] \in 1..n
      BY <1>4 DEF ReadPlaces, Ranges, Sized
    <3>2. QED BY <1>1, <1>4, <3>1
  <2>2. QED BY <2>1
<1>7. QED BY <1>1, <1>3, <1>5, <1>6

\* A place has a line that is not blank: nothing reads as a blank quote.
LEMMA PlaceFilled ==
  ASSUME NEW c, NEW n, Sized(c, n), NEW r \in Ranges(c)
  PROVE  Len(Chosen(c, Filled(c, r[1], r[2]))) # 0
<1>1. n \in Nat /\ DOMAIN c = 1..n
  BY DEF Sized
<1>2. r[1] \in 1..n /\ r[2] \in 1..n /\ r[1] <= r[2] /\ c[r[1]].text # Blank
  BY <1>1 DEF Ranges
<1>3. PICK a, b : a = r[1] /\ b = r[2]
  OBVIOUS
<1>4. a \in Nat /\ b \in Nat /\ a \in a..b
  BY <1>1, <1>2, <1>3
<1>5. PICK F : F = Filled(c, a, b)
  OBVIOUS
<1>6. F \in SUBSET Nat /\ IsFiniteSet(F)
  BY <1>4, <1>5, FilledIs
<1>7. a \in F
  BY <1>2, <1>3, <1>4, <1>5 DEF Filled
<1>8. /\ Cardinality(F) \in Nat /\ Len(Chosen(c, F)) = Cardinality(F)
      /\ CountTo(F, a) \in 1..Cardinality(F)
  BY <1>6, <1>7, ChosenIs
<1>9. QED BY <1>3, <1>5, <1>8

\* An added line that is not blank is one of the filled ones.
LEMMA AddsIs ==
  ASSUME NEW e \in Seq(EditLines), NEW r
  PROVE  Adds(e, r) <=> Filled(After(e), r[1], r[2]) \cap AddedLines(e) # {}
<1>1. ASSUME NEW n \in AddedLines(e) PROVE After(e)[n].text # Blank
  <2>1. PICK i \in DOMAIN e : e[i].did = "add" /\ e[i].text # Blank /\ n = LineOf(e, i)
    BY DEF AddedLines
  <2>2. i \in NewLines(e)
    BY <2>1 DEF NewLines
  <2>3. After(e)[LineOf(e, i)] = e[i]
    BY <2>2, AfterIs
  <2>4. QED BY <2>1, <2>3
<1>2. QED BY <1>1 DEF Adds, Filled

ShownPlaces(e, quote, partly) == {r \in ReadPlaces(After(e), Target(quote), partly) : Shows(e, r)}

\* Only a quote that says something has a place.
LEMMA BlankNowhere ==
  ASSUME NEW c, NEW n, Sized(c, n), NEW quote, NEW partly, Target(quote) = <<>>
  PROVE  ReadPlaces(c, Target(quote), partly) = {}
<1>1. Len(Target(quote)) = 0
  OBVIOUS
<1>2. ASSUME NEW r \in ReadPlaces(c, Target(quote), partly) PROVE FALSE
  <2>1. r \in Ranges(c) /\ Len(Chosen(c, Filled(c, r[1], r[2]))) = 0
    BY <1>1 DEF ReadPlaces, ReadsAt
  <2>2. QED BY <2>1, PlaceFilled
<1>3. QED BY <1>2

\* What reads so in whole does so in part.
LEMMA WholeInPart ==
  ASSUME NEW c, NEW T
  PROVE  /\ ReadPlaces(c, T, FALSE) \in SUBSET ReadPlaces(c, T, TRUE)
         /\ ReadPlaces(c, T, TRUE) \in SUBSET Ranges(c)
BY DEF ReadPlaces, ReadsAt, Fits

LEMMA PlacesAre ==
  ASSUME NEW c, NEW quote
  PROVE  /\ Places(c, quote) = ReadPlaces(c, Target(quote), FALSE)
         /\ \A r \in ReadPlaces(c, Target(quote), TRUE) : r \in Ranges(c) /\ Reads(c, r, quote, TRUE)
BY DEF Places, ReadPlaces, ReadsAt, Reads

LEMMA BestShownIs ==
  ASSUME NEW e \in Seq(EditLines), NEW quote
  PROVE  BestShown(e, quote) = BestOf(After(e), AddedLines(e), ShownPlaces(e, quote, FALSE))
<1> DEFINE R == ShownPlaces(e, quote, FALSE)
           Adding(r) == Filled(After(e), r[1], r[2]) \cap AddedLines(e) # {}
<1>1. R = {r \in Places(After(e), quote) : Shows(e, r)}
  BY PlacesAre DEF ShownPlaces
<1>2. \A r : Adds(e, r) <=> Adding(r)
  BY AddsIs
<1>3. BestShown(e, quote) = IF {r \in R : Adds(e, r)} # {} THEN {r \in R : Adds(e, r)} ELSE R
  BY <1>1 DEF BestShown
<1>4. BestOf(After(e), AddedLines(e), R) = IF \E r \in R : Adding(r) THEN {r \in R : Adding(r)} ELSE R
  BY DEF BestOf
<1> HIDE DEF R, Adding
<1>5. {r \in R : Adds(e, r)} = {r \in R : Adding(r)}
  BY <1>2
<1>6. {r \in R : Adds(e, r)} # {} <=> \E r \in R : Adding(r)
  BY <1>2
<1>7. QED BY <1>3, <1>4, <1>5, <1>6 DEF R

\* What is found in the hunks.
FoundShown(e, quote, Z) ==
  /\ \A m \in Z : /\ m.range \in Ranges(After(e)) /\ Reads(After(e), m.range, quote, TRUE)
                   /\ Shows(e, m.range)
  /\ \A m : Z = {m} => BestShown(e, quote) \subseteq {m.range}
  /\ Z = {} => BestShown(e, quote) = {}
  /\ \A r : BestShown(e, quote) = {r} => \E m : Z = {m} /\ m.range = r

LEMMA HunksFound ==
  ASSUME NEW e \in Seq(EditLines), NEW quote \in Seq(Texts), bare \in BOOLEAN
  PROVE  FoundShown(e, quote, Found(Groups(e), quote))
<1>1. PICK Z, c, A, P, R, T :
        /\ Z = Found(Groups(e), quote) /\ c = After(e) /\ A = AddedLines(e) /\ T = Target(quote)
        /\ P = ShownPlaces(e, quote, TRUE) /\ R = ShownPlaces(e, quote, FALSE)
  OBVIOUS
<1>2. PICK n : Sized(c, n)
  <2>1. Sized(c, Len(c))
    BY <1>1, AfterIs DEF Sized
  <2>2. QED BY <2>1
<1>3. P = {r \in ReadPlaces(c, T, TRUE) : Shows(e, r)} /\ R = {r \in ReadPlaces(c, T, FALSE) : Shows(e, r)}
  BY <1>1 DEF ShownPlaces
<1>4. P \in SUBSET Ranges(c) /\ R \in SUBSET P
  <2>1. ReadPlaces(c, T, FALSE) \in SUBSET ReadPlaces(c, T, TRUE) /\ ReadPlaces(c, T, TRUE) \in SUBSET Ranges(c)
    BY WholeInPart
  <2>2. QED BY <1>3, <2>1
<1>5. Picked(Z, c, A, R, P)
  <2>1. CASE T = <<>>
    <3>1. ReadPlaces(c, T, FALSE) = {}
      BY <1>1, <1>2, <2>1, BlankNowhere
    <3>2. R = {} /\ Z = {}
      BY <1>1, <1>3, <2>1, <3>1 DEF Found
    <3>3. BestOf(c, A, R) = {}
      BY <3>2 DEF BestOf
    <3>4. QED BY <3>2, <3>3 DEF Picked
  <2>2. CASE T # <<>>
    <3>1. Len(T) \in Nat /\ DOMAIN T = 1..Len(T) /\ Len(T) # 0
      BY <1>1, <2>2, TargetIs
    <3>2. MatchesOf(Across(Groups(e), T, FALSE), c, A, R)
      BY <1>1, <1>3, <3>1, GroupsMatch
    <3>3. MatchesOf(Across(Groups(e), T, TRUE), c, A, P)
      BY <1>1, <1>3, <3>1, GroupsMatch
    <3>4. QED BY <1>1, <1>4, <2>2, <3>2, <3>3, FoundIs
  <2>3. QED BY <2>1, <2>2
<1>6. PICK B : B = BestShown(e, quote) /\ B = BestOf(c, A, R)
  BY <1>1, BestShownIs
<1>7. ASSUME NEW m \in Z
      PROVE  m.range \in Ranges(c) /\ Reads(c, m.range, quote, TRUE) /\ Shows(e, m.range)
  <2>1. m.range \in P
    BY <1>5 DEF Picked
  <2>2. m.range \in ReadPlaces(c, Target(quote), TRUE) /\ Shows(e, m.range)
    BY <1>1, <1>3, <2>1
  <2>3. QED BY <2>2, PlacesAre
<1>8. Z = {} => B = {}
  <2>1. Z = {} => R = {}
    BY <1>5 DEF Picked
  <2>2. R = {} => BestOf(c, A, R) = {}
    BY DEF BestOf
  <2>3. QED BY <1>6, <2>1, <2>2
<1>9. /\ \A m : Z = {m} => B \subseteq {m.range}
      /\ \A r : B = {r} => \E m : Z = {m} /\ m.range = r
  BY <1>5, <1>6 DEF Picked
<1>10. FoundShown(e, quote, Z)
  BY <1>1, <1>6, <1>7, <1>8, <1>9 DEF FoundShown
<1>11. QED BY <1>1, <1>10

\* What is found in a file.
FoundWhole(c, quote, Z) ==
  /\ \A m \in Z : m.range \in Ranges(c) /\ Reads(c, m.range, quote, TRUE)
  /\ \A m : Z = {m} => Places(c, quote) \subseteq {m.range}

LEMMA WholeFound ==
  ASSUME NEW c, NEW n, Sized(c, n), NEW quote \in Seq(Texts)
  PROVE  FoundWhole(c, quote, Found({Whole(c)}, quote))
<1>1. PICK Z, A, P, R, T :
        /\ Z = Found({Whole(c)}, quote) /\ A = {} /\ T = Target(quote)
        /\ P = ReadPlaces(c, T, TRUE) /\ R = ReadPlaces(c, T, FALSE)
  OBVIOUS
<1>2. P \in SUBSET Ranges(c) /\ R \in SUBSET P
  BY <1>1, WholeInPart
<1>3. CASE T = <<>>
  <2>1. Z = {}
    BY <1>1, <1>3 DEF Found
  <2>2. QED BY <1>1, <2>1 DEF FoundWhole
<1>4. CASE T # <<>>
  <2>1. Len(T) \in Nat /\ DOMAIN T = 1..Len(T) /\ Len(T) # 0 /\ Len(c) \in Nat /\ DOMAIN c = 1..Len(c)
    BY <1>1, <1>4, TargetIs DEF Sized
  <2>2. MatchesOf(Across({Whole(c)}, T, FALSE), c, A, R)
    BY <1>1, <2>1, WholeMatches
  <2>3. MatchesOf(Across({Whole(c)}, T, TRUE), c, A, P)
    BY <1>1, <2>1, WholeMatches
  <2>4. PICK groups : groups = {Whole(c)}
    OBVIOUS
  <2>5. Picked(Z, c, A, R, P)
    BY <1>1, <1>2, <1>4, <2>2, <2>3, <2>4, FoundIs
  <2>6. BestOf(c, A, R) = R /\ R = Places(c, quote)
    <3>1. BestOf(c, A, R) = R
      BY <1>1 DEF BestOf
    <3>2. QED BY <1>1, <3>1, PlacesAre
  <2>7. ASSUME NEW m \in Z PROVE m.range \in Ranges(c) /\ Reads(c, m.range, quote, TRUE)
    <3>1. m.range \in ReadPlaces(c, Target(quote), TRUE)
      BY <1>1, <2>5 DEF Picked
    <3>2. QED BY <3>1, PlacesAre
  <2>8. \A m : Z = {m} => Places(c, quote) \subseteq {m.range}
    BY <2>5, <2>6 DEF Picked
  <2>9. FoundWhole(c, quote, Z)
    BY <2>7, <2>8 DEF FoundWhole
  <2>10. QED BY <1>1, <2>9
<1>5. QED BY <1>3, <1>4

\* An exact quote's places in a diff.
LEMMA ExactFound ==
  ASSUME NEW e \in Seq(EditLines), NEW quote \in Seq(Texts), bare \in BOOLEAN
  PROVE  \A r : (\E m \in ExactMatches(e, quote) : m.range = r)
               <=> r \in ShownPlaces(e, quote, FALSE)
<1>1. PICK c, A, R, T, Z :
        /\ c = After(e) /\ A = AddedLines(e) /\ T = Target(quote)
        /\ R = ShownPlaces(e, quote, FALSE) /\ Z = ExactMatches(e, quote)
  OBVIOUS
<1>2. R = {r \in ReadPlaces(c, T, FALSE) : Shows(e, r)}
  BY <1>1 DEF ShownPlaces
<1>3. CASE T = <<>>
  <2>1. Sized(c, Len(c))
    BY <1>1, AfterIs DEF Sized
  <2>2. ReadPlaces(c, T, FALSE) = {}
    BY <1>1, <1>3, <2>1, BlankNowhere
  <2>3. R = {} /\ Z = {}
    BY <1>1, <1>2, <1>3, <2>2 DEF ExactMatches
  <2>4. QED BY <1>1, <2>3
<1>4. CASE T # <<>>
  <2>1. Len(T) \in Nat /\ DOMAIN T = 1..Len(T) /\ Len(T) # 0
    BY <1>1, <1>4, TargetIs
  <2>2. Z = Across(Groups(e), T, FALSE)
    BY <1>1, <1>4 DEF ExactMatches
  <2>3. MatchesOf(Z, c, A, R)
    BY <1>1, <1>2, <2>1, <2>2, GroupsMatch
  <2>4. \A r \in R : r \in Ranges(c)
    BY <1>2 DEF ReadPlaces
  <2>5. ASSUME NEW r \in R PROVE MatchOf(c, A, r[1], r[2]).range = r
    <3>1. r = <<r[1], r[2]>>
      BY <2>4 DEF Ranges
    <3>2. QED BY <3>1 DEF MatchOf
  <2>6. \A z : z \in Z <=> \E r \in R : z = MatchOf(c, A, r[1], r[2])
    BY <2>3 DEF MatchesOf
  <2>7. \A r : (\E m \in Z : m.range = r) <=> r \in R
    BY <2>5, <2>6
  <2>8. QED BY <1>1, <2>7
<1>5. QED BY <1>3, <1>4

\* Lines are within the hunks that are read where the diff shows them.
LEMMA WithinIs ==
  ASSUME NEW e \in Seq(EditLines), NEW r \in Ranges(After(e)), bare \in BOOLEAN
  PROVE  IsWithinHunks(e, r) <=> Shows(e, r)
<1>1. PICK a, b, hunks : a = r[1] /\ b = r[2] /\ hunks = Range(Hunks(e))
  OBVIOUS
<1>2. a \in Nat /\ b \in Nat /\ a <= b /\ r = <<a, b>>
  <2>1. r[1] \in DOMAIN After(e) /\ r[2] \in DOMAIN After(e) /\ r[1] <= r[2] /\ r = <<r[1], r[2]>>
    BY DEF Ranges
  <2>2. QED BY <1>1, <2>1, AfterIs
<1>3. HunksRead(e, hunks)
  BY <1>1, HunksAre
<1>4. ASSUME NEW s \in Starts(e), NEW h, IsHunk(h, e, s, EndOf(e, s))
      PROVE  h.start <= a /\ b <= h.start + h.count - 1 <=> Spans(e, s, a, b)
  <2>1. h.start = SideOf(e, s).start /\ h.count = SideOf(e, s).count
    BY <1>4 DEF IsHunk
  <2>2. SideOf(e, s).start <= a /\ b <= SideOf(e, s).start + SideOf(e, s).count - 1 <=> Spans(e, s, a, b)
    BY <1>2, SideIs
  <2>3. QED BY <2>1, <2>2
<1>5. IsWithinHunks(e, r) <=> \E h \in hunks : h.start <= a /\ b <= h.start + h.count - 1
  BY <1>1 DEF IsWithinHunks
<1>6. Shows(e, r) <=> \E s \in Starts(e) : Spans(e, s, a, b)
  BY <1>2, ShowsIs
<1>7. QED BY <1>3, <1>4, <1>5, <1>6 DEF HunksRead

-----------------------------------------------------------------------------
(* Anchors: the search *)

\* What AnchoredTruly says of a place a that was said for the quote q.
PlacedTruly(e, q, a) ==
  /\ a.range \in Ranges(After(e)) /\ Reads(After(e), a.range, q, TRUE)
  /\ a.inDiff <=> Shows(e, a.range)
  /\ a.inDiff => BestShown(e, q) \subseteq {a.range}
  /\ ~a.inDiff => Places(After(e), q) \subseteq {a.range}

\* And of the one place that is not given up.
NotGivenUp(e, q, a) ==
  \A r \in BestShown(e, q) : BestShown(e, q) = {r} => a.method = "hunk" /\ a.range = r

Truly(s, ed, fd, t, a) ==
  /\ a.range # <<>> => PlacedTruly(ed[a.file], t, a)
  /\ s = "done" /\ fd.inDiff => NotGivenUp(ed.own, fd.quote, a)

LEMMA TrulyIs ==
  /\ AnchoredTruly <=> Truly(search, edit, finding, sought, anchor)
  /\ AnchoredTruly' <=> Truly(search', edit', finding', sought', anchor')
BY DEF AnchoredTruly, Truly, PlacedTruly, NotGivenUp

\* Nothing was found in the hunks of the finding's file, where they were looked in.
NoneShown(ed, fd) == fd.inDiff => BestShown(ed.own, fd.quote) = {}

AnchorTypes ==
  /\ edit \in [own : Seq(EditLines), other : Seq(EditLines)] /\ bare \in BOOLEAN
  /\ finding.quote \in Seq(Texts) /\ finding.inDiff \in BOOLEAN /\ sought \in Seq(Texts)

AnchorInv ==
  /\ AnchorTypes
  /\ search # "done" => anchor = NoAnchor
  /\ search \in {"own", "file", "other"} => sought = finding.quote
  /\ search \in {"file", "other", "ask", "again", "reread"} => NoneShown(edit, finding)
  /\ AnchoredTruly

\* The search goes on: nothing is said yet.
LEMMA SearchGoes ==
  ASSUME AnchorTypes', anchor' = NoAnchor, search' # "done",
         search' \in {"own", "file", "other"} => sought' = finding'.quote,
         search' \in {"file", "other", "ask", "again", "reread"} => NoneShown(edit', finding')
  PROVE  AnchorInv'
<1>1. anchor'.range = <<>>
  BY DEF NoAnchor
<1>2. AnchoredTruly'
  BY <1>1, TrulyIs DEF Truly
<1>3. QED BY <1>2 DEF AnchorInv

\* It ends: what is said is true.
LEMMA SearchEnds ==
  ASSUME AnchorTypes', search' = "done", Truly("done", edit', finding', sought', anchor')
  PROVE  AnchorInv'
<1>1. AnchoredTruly'
  BY TrulyIs
<1>2. QED BY <1>1 DEF AnchorInv

\* No place is said, where there is none in the hunks.
LEMMA NoPlace ==
  ASSUME NEW s, NEW ed, NEW fd, NEW t, NEW a, a.range = <<>>, NoneShown(ed, fd)
  PROVE  Truly(s, ed, fd, t, a)
BY DEF Truly, NoneShown, NotGivenUp

Only(Z, m) == Z = {m}

\* One place that the hunks show.
LEMMA HunksPlace ==
  ASSUME NEW e \in Seq(EditLines), NEW q \in Seq(Texts), NEW m, NEW a,
         bare \in BOOLEAN, Only(Found(Groups(e), q), m), a.range = m.range, a.inDiff
  PROVE  PlacedTruly(e, q, a) /\ (a.method = "hunk" => NotGivenUp(e, q, a))
<1>1. PICK Z : Z = Found(Groups(e), q)
  OBVIOUS
<1>2. FoundShown(e, q, Z) /\ Z = {m}
  BY <1>1, HunksFound DEF Only
<1>3. PlacedTruly(e, q, a)
  BY <1>2 DEF FoundShown, PlacedTruly
<1>4. a.method = "hunk" => NotGivenUp(e, q, a)
  <2>1. ASSUME NEW r, BestShown(e, q) = {r} PROVE m.range = r
    BY <1>2, <2>1 DEF FoundShown
  <2>2. QED BY <2>1 DEF NotGivenUp
<1>5. QED BY <1>3, <1>4

\* One place of the file.
LEMMA FilePlace ==
  ASSUME NEW e \in Seq(EditLines), NEW q \in Seq(Texts), NEW m, NEW a,
         bare \in BOOLEAN, Only(Found({Whole(After(e))}, q), m),
         a.range = m.range, a.inDiff = IsWithinHunks(e, m.range)
  PROVE  PlacedTruly(e, q, a)
<1>1. PICK Z, c, within :
        /\ Z = Found({Whole(After(e))}, q) /\ c = After(e) /\ within = IsWithinHunks(e, m.range)
  OBVIOUS
<1>2. Sized(c, Len(c))
  BY <1>1, AfterIs DEF Sized
<1>3. FoundWhole(c, q, Z) /\ Z = {m}
  BY <1>1, <1>2, WholeFound DEF Only
<1>4. m.range \in Ranges(c) /\ Reads(c, m.range, q, TRUE) /\ Places(c, q) \subseteq {m.range}
  BY <1>3 DEF FoundWhole
<1>5. within <=> Shows(e, m.range)
  BY <1>1, <1>4, WithinIs
<1>6. a.inDiff = within
  BY <1>1
<1>7. BestShown(e, q) \subseteq Places(c, q)
  BY <1>1 DEF BestShown
<1>8. QED BY <1>1, <1>4, <1>5, <1>6, <1>7 DEF PlacedTruly

\* A place that was said, where the finding's own quote has none in the hunks.
LEMMA PlaceEnds ==
  ASSUME NEW ed, NEW fd, NEW t, NEW a, PlacedTruly(ed[a.file], t, a), NoneShown(ed, fd)
  PROVE  Truly("done", ed, fd, t, a)
BY DEF Truly, NoneShown, NotGivenUp

LEMMA FileLevelIs == FileLevel.range = <<>> /\ FileLevel.method = "file_level"
BY DEF FileLevel, NoAnchor

LEMMA InHunksKeeps ==
  ASSUME AnchorInv, NEW at, NEW method, NEW next, InHunks(at, method, next),
         \/ at = "own" /\ method = "hunk" /\ next = "file" /\ finding.inDiff
         \/ at = "again" /\ method = "relocated" /\ next = "reread"
  PROVE  AnchorInv'
<1>1. /\ search = at /\ edit' = edit /\ bare' = bare /\ finding' = finding /\ sought' = sought
      /\ AnchorTypes /\ anchor = NoAnchor
      /\ at = "own" => sought = finding.quote
      /\ at = "again" => NoneShown(edit, finding)
  BY DEF InHunks, AnchorInv
<1>2. AnchorTypes'
  BY <1>1 DEF AnchorTypes
<1>3. PICK e, q, Z : e = edit.own /\ q = sought /\ Z = Found(Groups(edit.own), sought)
  OBVIOUS
<1>4. e \in Seq(EditLines) /\ q \in Seq(Texts) /\ bare \in BOOLEAN
  BY <1>1, <1>3 DEF AnchorTypes
<1>5. Z = Found(Groups(e), q)
  BY <1>3
<1>6. FoundShown(e, q, Z)
  BY <1>4, <1>5, HunksFound
<1>7. \/ Z = {} /\ Goes(next)
      \/ \E m \in Z : Settled(IF Z = {m} THEN At(method, "own", m.range, TRUE) ELSE FileLevel)
  BY <1>3 DEF InHunks
<1>8. CASE Z = {} /\ Goes(next)
  <2>1. BestShown(e, q) = {}
    BY <1>6, <1>8 DEF FoundShown
  <2>2. NoneShown(edit, finding)
    BY <1>1, <1>3, <2>1 DEF NoneShown
  <2>3. search' = next /\ anchor' = NoAnchor
    BY <1>1, <1>8 DEF Goes
  <2>4. QED BY <1>1, <1>2, <2>2, <2>3, SearchGoes
<1>9. CASE \E m \in Z : Settled(IF Z = {m} THEN At(method, "own", m.range, TRUE) ELSE FileLevel)
  <2>1. PICK m \in Z : Settled(IF Z = {m} THEN At(method, "own", m.range, TRUE) ELSE FileLevel)
    BY <1>9
  <2>2. PICK a : a = anchor'
    OBVIOUS
  <2>3. search' = "done"
    BY <2>1 DEF Settled
  <2>4. CASE Z = {m}
    <3>1. a = At(method, "own", m.range, TRUE)
      BY <2>1, <2>2, <2>4 DEF Settled
    <3>2. PlacedTruly(e, q, a) /\ (method = "hunk" => NotGivenUp(e, q, a))
      <4>1. Only(Found(Groups(e), q), m)
        BY <1>5, <2>4 DEF Only
      <4>2. a.range = m.range /\ a.inDiff /\ a.method = method
        BY <3>1 DEF At
      <4>3. QED BY <1>4, <4>1, <4>2, HunksPlace
    <3>3. a.file = "own" /\ edit[a.file] = e
      BY <1>3, <3>1 DEF At
    <3>4. Truly("done", edit, finding, q, a)
      <4>1. CASE at = "own"
        <5>1. method = "hunk" /\ q = finding.quote
          BY <1>1, <1>3, <4>1
        <5>2. QED BY <1>3, <3>2, <3>3, <5>1 DEF Truly
      <4>2. CASE at = "again"
        BY <1>1, <3>2, <3>3, <4>2, PlaceEnds
      <4>3. QED BY <4>1, <4>2
    <3>5. QED BY <1>1, <1>2, <1>3, <2>2, <2>3, <3>4, SearchEnds
  <2>5. CASE Z # {m}
    <3>1. a = FileLevel
      BY <2>1, <2>2, <2>5 DEF Settled
    <3>2. a.range = <<>>
      BY <3>1, FileLevelIs
    <3>3. Truly("done", edit, finding, q, a)
      <4>1. CASE at = "own"
        <5>1. \A r : BestShown(e, q) # {r}
          BY <1>6, <2>5 DEF FoundShown
        <5>2. NotGivenUp(e, q, a)
          BY <5>1 DEF NotGivenUp
        <5>3. QED BY <1>1, <1>3, <3>2, <4>1, <5>2 DEF Truly
      <4>2. CASE at = "again"
        BY <1>1, <3>2, <4>2, NoPlace
      <4>3. QED BY <4>1, <4>2
    <3>4. QED BY <1>1, <1>2, <1>3, <2>2, <2>3, <3>3, SearchEnds
  <2>6. QED BY <2>4, <2>5
<1>10. QED BY <1>7, <1>8, <1>9

LEMMA OwnFileKeeps ==
  ASSUME AnchorInv, OwnFile
  PROVE  AnchorInv'
<1>1. /\ search = "file" /\ edit' = edit /\ bare' = bare /\ finding' = finding /\ sought' = sought
      /\ AnchorTypes /\ anchor = NoAnchor /\ NoneShown(edit, finding) /\ sought = finding.quote
  BY DEF OwnFile, InFile, AnchorInv
<1>2. AnchorTypes'
  BY <1>1 DEF AnchorTypes
<1>3. PICK e, q, Z : e = edit.own /\ q = sought /\ Z = Found({Whole(After(edit.own))}, sought)
  OBVIOUS
<1>4. e \in Seq(EditLines) /\ q \in Seq(Texts) /\ bare \in BOOLEAN /\ Z = Found({Whole(After(e))}, q)
  BY <1>1, <1>3 DEF AnchorTypes
<1>5. CASE Goes("other")
  <2>1. search' = "other" /\ anchor' = NoAnchor
    BY <1>1, <1>5 DEF Goes
  <2>2. QED BY <1>1, <1>2, <2>1, SearchGoes
<1>6. ASSUME NEW m \in Z,
             Settled(IF Z = {m} THEN At("file", "own", m.range, IsWithinHunks(e, m.range)) ELSE FileLevel)
      PROVE  AnchorInv'
  <2>1. PICK a : a = anchor'
    OBVIOUS
  <2>2. search' = "done"
    BY <1>6 DEF Settled
  <2>3. Truly("done", edit, finding, q, a)
    <3>1. CASE Z = {m}
      <4>1. a = At("file", "own", m.range, IsWithinHunks(e, m.range))
        BY <1>6, <2>1, <3>1 DEF Settled
      <4>2. PlacedTruly(e, q, a)
        <5>1. Only(Found({Whole(After(e))}, q), m)
          BY <1>4, <3>1 DEF Only
        <5>2. a.range = m.range /\ a.inDiff = IsWithinHunks(e, m.range)
          BY <4>1 DEF At
        <5>3. QED BY <1>4, <5>1, <5>2, FilePlace
      <4>3. a.file = "own" /\ edit[a.file] = e
        BY <1>3, <4>1 DEF At
      <4>4. QED BY <1>1, <4>2, <4>3, PlaceEnds
    <3>2. CASE Z # {m}
      <4>1. a = FileLevel
        BY <1>6, <2>1, <3>2 DEF Settled
      <4>2. QED BY <1>1, <4>1, FileLevelIs, NoPlace
    <3>3. QED BY <3>1, <3>2
  <2>4. QED BY <1>1, <1>2, <1>3, <2>1, <2>2, <2>3, SearchEnds
<1>7. \/ Goes("other")
      \/ \E m \in Z : Settled(IF Z = {m} THEN At("file", "own", m.range, IsWithinHunks(e, m.range)) ELSE FileLevel)
  BY <1>3 DEF OwnFile, InFile
<1>8. QED BY <1>5, <1>6, <1>7

LEMMA RelocatedFileKeeps ==
  ASSUME AnchorInv, RelocatedFile
  PROVE  AnchorInv'
<1>1. /\ search = "reread" /\ edit' = edit /\ bare' = bare /\ finding' = finding /\ sought' = sought
      /\ AnchorTypes /\ NoneShown(edit, finding)
  BY DEF RelocatedFile, InFile, AnchorInv
<1>2. AnchorTypes'
  BY <1>1 DEF AnchorTypes
<1>3. PICK e, q, Z : e = edit.own /\ q = sought /\ Z = Found({Whole(After(edit.own))}, sought)
  OBVIOUS
<1>4. e \in Seq(EditLines) /\ q \in Seq(Texts) /\ bare \in BOOLEAN /\ Z = Found({Whole(After(e))}, q)
  BY <1>1, <1>3 DEF AnchorTypes
<1>5. CASE Settled(FileLevel)
  <2>1. PICK a : a = anchor'
    OBVIOUS
  <2>2. search' = "done" /\ a = FileLevel
    BY <1>5, <2>1 DEF Settled
  <2>3. Truly("done", edit, finding, q, a)
    BY <1>1, <2>2, FileLevelIs, NoPlace
  <2>4. QED BY <1>1, <1>2, <1>3, <2>1, <2>2, <2>3, SearchEnds
<1>6. ASSUME NEW m \in Z,
             Settled(IF Z = {m} THEN At("relocated", "own", m.range, IsWithinHunks(e, m.range)) ELSE FileLevel)
      PROVE  AnchorInv'
  <2>1. PICK a : a = anchor'
    OBVIOUS
  <2>2. search' = "done"
    BY <1>6 DEF Settled
  <2>3. Truly("done", edit, finding, q, a)
    <3>1. CASE Z = {m}
      <4>1. a = At("relocated", "own", m.range, IsWithinHunks(e, m.range))
        BY <1>6, <2>1, <3>1 DEF Settled
      <4>2. PlacedTruly(e, q, a)
        <5>1. Only(Found({Whole(After(e))}, q), m)
          BY <1>4, <3>1 DEF Only
        <5>2. a.range = m.range /\ a.inDiff = IsWithinHunks(e, m.range)
          BY <4>1 DEF At
        <5>3. QED BY <1>4, <5>1, <5>2, FilePlace
      <4>3. a.file = "own" /\ edit[a.file] = e
        BY <1>3, <4>1 DEF At
      <4>4. QED BY <1>1, <4>2, <4>3, PlaceEnds
    <3>2. CASE Z # {m}
      <4>1. a = FileLevel
        BY <1>6, <2>1, <3>2 DEF Settled
      <4>2. QED BY <1>1, <4>1, FileLevelIs, NoPlace
    <3>3. QED BY <3>1, <3>2
  <2>4. QED BY <1>1, <1>2, <1>3, <2>1, <2>2, <2>3, SearchEnds
<1>7. \/ Settled(FileLevel)
      \/ \E m \in Z : Settled(IF Z = {m} THEN At("relocated", "own", m.range, IsWithinHunks(e, m.range)) ELSE FileLevel)
  BY <1>3 DEF RelocatedFile, InFile
<1>8. QED BY <1>5, <1>6, <1>7

\* The one place of the other files that an exact quote has.
LEMMA CrossPlace ==
  ASSUME NEW e \in Seq(EditLines), NEW q \in Seq(Texts), NEW m \in ExactMatches(e, q), NEW a,
         bare \in BOOLEAN, a.range = m.range, a.inDiff,
         \A n \in ExactMatches(e, q) : n.range = m.range
  PROVE  PlacedTruly(e, q, a)
<1>1. PICK Z, R, c, T : /\ Z = ExactMatches(e, q) /\ R = ShownPlaces(e, q, FALSE)
                       /\ c = After(e) /\ T = Target(q)
  OBVIOUS
<1>2. \A r : (\E n \in Z : n.range = r) <=> r \in R
  BY <1>1, ExactFound
<1>3. R = {r \in ReadPlaces(c, T, FALSE) : Shows(e, r)}
  BY <1>1 DEF ShownPlaces
<1>4. m.range \in R /\ \A r \in R : r = m.range
  BY <1>1, <1>2
<1>5. BestShown(e, q) \subseteq R
  BY <1>1, BestShownIs DEF BestOf
<1>6. BestShown(e, q) \subseteq {m.range}
  BY <1>4, <1>5
<1>7. m.range \in ReadPlaces(c, T, TRUE) /\ Shows(e, m.range)
  BY <1>3, <1>4, WholeInPart
<1>8. m.range \in Ranges(c) /\ Reads(c, m.range, q, TRUE)
  BY <1>1, <1>7, PlacesAre
<1>9. QED BY <1>1, <1>6, <1>7, <1>8 DEF PlacedTruly

LEMMA OtherFilesKeeps ==
  ASSUME AnchorInv, OtherFiles
  PROVE  AnchorInv'
<1>1. /\ search = "other" /\ edit' = edit /\ bare' = bare /\ finding' = finding /\ sought' = sought
      /\ AnchorTypes /\ anchor = NoAnchor /\ NoneShown(edit, finding) /\ sought = finding.quote
  BY DEF OtherFiles, AnchorInv
<1>2. AnchorTypes'
  BY <1>1 DEF AnchorTypes
<1>3. PICK q, Fs : q = finding.quote /\ Fs = IF finding.inDiff THEN {"other"} ELSE {"own", "other"}
  OBVIOUS
<1>4. q \in Seq(Texts) /\ bare \in BOOLEAN /\ \A f \in Fs : edit[f] \in Seq(EditLines)
  BY <1>1, <1>3 DEF AnchorTypes
<1>5. PICK places : /\ places = UNION {{<<f, m.range>> : m \in ExactMatches(edit[f], q)} : f \in Fs}
                    /\ \/ \E p \in places : places = {p} /\ Settled(At("cross_file", p[1], p[2], TRUE))
                       \/ Goes("ask")
                       \/ Settled(FileLevel)
  <2>1. PICK places :
          /\ places = UNION {{<<f, m.range>> : m \in ExactMatches(edit[f], finding.quote)} :
                             f \in IF finding.inDiff THEN {"other"} ELSE {"own", "other"}}
          /\ \/ \E p \in places : places = {p} /\ Settled(At("cross_file", p[1], p[2], TRUE))
             \/ IF finding.inDiff /\ finding.asks THEN Goes("ask") ELSE Settled(FileLevel)
    BY DEF OtherFiles
  <2>2. places = UNION {{<<f, m.range>> : m \in ExactMatches(edit[f], q)} : f \in Fs}
    BY <1>3, <2>1
  <2>3. QED BY <2>1, <2>2
<1>6. PICK a : a = anchor'
  OBVIOUS
<1>7. ASSUME NEW p \in places, places = {p}, Settled(At("cross_file", p[1], p[2], TRUE))
      PROVE  AnchorInv'
  <2>1. PICK f \in Fs : \E m \in ExactMatches(edit[f], q) : p = <<f, m.range>>
    BY <1>5, <1>7
  <2>2. PICK m \in ExactMatches(edit[f], q) : p = <<f, m.range>>
    BY <2>1
  <2>3. \A n \in ExactMatches(edit[f], q) : <<f, n.range>> \in places
    BY <1>5
  <2>4. \A n \in ExactMatches(edit[f], q) : n.range = m.range
    BY <1>7, <2>2, <2>3
  <2>5. a.file = f /\ a.range = m.range /\ a.inDiff
    BY <1>6, <1>7, <2>2 DEF Settled, At
  <2>6. PICK e : e = edit[f]
    OBVIOUS
  <2>7. PlacedTruly(e, q, a)
    <3>1. e \in Seq(EditLines) /\ m \in ExactMatches(e, q) /\ \A n \in ExactMatches(e, q) : n.range = m.range
      BY <1>4, <2>4, <2>6
    <3>2. QED BY <1>4, <2>5, <3>1, CrossPlace
  <2>8. Truly("done", edit, finding, q, a)
    BY <1>1, <2>5, <2>6, <2>7, PlaceEnds
  <2>9. search' = "done"
    BY <1>7 DEF Settled
  <2>10. QED BY <1>1, <1>2, <1>3, <1>6, <2>8, <2>9, SearchEnds
<1>8. CASE Goes("ask")
  <2>1. search' = "ask" /\ anchor' = NoAnchor
    BY <1>1, <1>8 DEF Goes
  <2>2. QED BY <1>1, <1>2, <2>1, SearchGoes
<1>9. CASE Settled(FileLevel)
  <2>1. search' = "done" /\ a = FileLevel
    BY <1>6, <1>9 DEF Settled
  <2>2. Truly("done", edit, finding, q, a)
    BY <1>1, <2>1, FileLevelIs, NoPlace
  <2>3. QED BY <1>1, <1>2, <1>3, <1>6, <2>1, <2>2, SearchEnds
<1>10. QED BY <1>5, <1>7, <1>8, <1>9

LEMMA AskModelKeeps ==
  ASSUME AnchorInv, AskModel
  PROVE  AnchorInv'
<1>1. /\ search = "ask" /\ edit' = edit /\ bare' = bare /\ finding' = finding
      /\ AnchorTypes /\ anchor = NoAnchor /\ NoneShown(edit, finding)
  BY DEF AskModel, AnchorInv
<1>2. PICK answer \in Relocations :
        IF answer = <<>> THEN Settled(FileLevel) /\ UNCHANGED sought ELSE sought' = answer /\ Goes("again")
  BY DEF AskModel
<1>3. answer \in Seq(Texts)
  BY AnchorAssumption
<1>4. sought' = sought \/ sought' = answer
  BY <1>2
<1>5. AnchorTypes'
  BY <1>1, <1>3, <1>4 DEF AnchorTypes
<1>6. CASE answer = <<>>
  <2>1. PICK a, q : a = anchor' /\ q = sought'
    OBVIOUS
  <2>2. search' = "done" /\ a = FileLevel
    BY <1>2, <1>6, <2>1 DEF Settled
  <2>3. Truly("done", edit, finding, q, a)
    BY <1>1, <2>2, FileLevelIs, NoPlace
  <2>4. QED BY <1>1, <1>5, <2>1, <2>2, <2>3, SearchEnds
<1>7. CASE answer # <<>>
  <2>1. search' = "again" /\ anchor' = NoAnchor
    BY <1>1, <1>2, <1>7 DEF Goes
  <2>2. QED BY <1>1, <1>5, <2>1, SearchGoes
<1>8. QED BY <1>6, <1>7

LEMMA NotOwnKeeps ==
  ASSUME AnchorInv, NotOwn
  PROVE  AnchorInv'
<1>1. /\ search = "own" /\ edit' = edit /\ bare' = bare /\ finding' = finding /\ sought' = sought
      /\ AnchorTypes /\ anchor = NoAnchor /\ ~finding.inDiff /\ sought = finding.quote
      /\ search' = "other" /\ anchor' = NoAnchor
  BY DEF NotOwn, Goes, AnchorInv
<1>2. AnchorTypes' /\ NoneShown(edit, finding)
  BY <1>1 DEF AnchorTypes, NoneShown
<1>3. QED BY <1>1, <1>2, SearchGoes

\* The edits are sequences of lines, and what a finding quotes is text.
LEMMA EditsAre ==
  ASSUME NEW ed, ed \in [own : Edits, other : Others]
  PROVE  ed \in [own : Seq(EditLines), other : Seq(EditLines)]
BY AnchorAssumption DEF EditLines

LEMMA LooksKeeps ==
  ASSUME AnchorInv, search = "given", edit' \in [own : Edits, other : Others], bare' \in BOOLEAN,
         NEW f, Looks(f), f.quote \in Seq(Texts), f.inDiff \in BOOLEAN
  PROVE  AnchorInv'
<1>1. search' = "own" /\ finding' = f /\ sought' = f.quote /\ anchor' = NoAnchor
  BY DEF Looks, AnchorInv
<1>2. edit' \in [own : Seq(EditLines), other : Seq(EditLines)]
  BY EditsAre
<1>3. AnchorTypes'
  BY <1>1, <1>2 DEF AnchorTypes
<1>4. QED BY <1>1, <1>3, SearchGoes

LEMMA ReportedKeeps ==
  ASSUME AnchorInv, Reported
  PROVE  AnchorInv'
<1>1. PICK q \in Quotes, kind \in {<<TRUE, TRUE>>, <<TRUE, FALSE>>, <<FALSE, FALSE>>} :
        Looks([quote |-> q, inDiff |-> kind[1], asks |-> kind[2]])
  BY DEF Reported
<1>2. search = "given" /\ edit' \in [own : Edits, other : Others] /\ bare' \in BOOLEAN
  BY DEF Reported
<1>3. PICK f : f = [quote |-> q, inDiff |-> kind[1], asks |-> kind[2]]
  OBVIOUS
<1>4. f.quote \in Seq(Texts) /\ f.inDiff \in BOOLEAN
  <2>1. q \in Seq(Texts)
    BY AnchorAssumption
  <2>2. kind[1] = TRUE \/ kind[1] = FALSE
    <3>1. kind = <<TRUE, TRUE>> \/ kind = <<TRUE, FALSE>> \/ kind = <<FALSE, FALSE>>
      OBVIOUS
    <3>2. QED BY <3>1
  <2>3. QED BY <1>3, <2>1, <2>2
<1>5. QED BY <1>1, <1>2, <1>3, <1>4, LooksKeeps

LEMMA ImportedKeeps ==
  ASSUME AnchorInv, Imported
  PROVE  AnchorInv'
<1>1. search = "given" /\ edit' \in [own : Edits, other : Others] /\ bare' \in BOOLEAN
  BY DEF Imported
<1>2. PICK content : content = After(edit'.own)
  OBVIOUS
<1>3. PICK range \in (DOMAIN content) \X (DOMAIN content) :
        LET quote == [k \in 1..(range[2] + 1 - range[1]) |-> content[range[1] + k - 1].text]
        IN range[1] <= range[2] /\ Looks([quote |-> quote, inDiff |-> TRUE, asks |-> FALSE])
  BY <1>2 DEF Imported
<1>4. PICK first, last, n : first = range[1] /\ last = range[2] /\ n = last + 1 - first
  OBVIOUS
<1>5. PICK quote : quote = [k \in 1..n |-> content[first + k - 1].text]
  OBVIOUS
<1>6. first <= last /\ Looks([quote |-> quote, inDiff |-> TRUE, asks |-> FALSE])
  BY <1>3, <1>4, <1>5
<1>7. PICK e : e = edit'.own
  OBVIOUS
<1>8. e \in Seq(EditLines) /\ content = After(e)
  BY <1>1, <1>2, <1>7, EditsAre
<1>9. PICK len : len = Len(content) /\ len \in Nat /\ DOMAIN content = 1..len
  BY <1>8, AfterIs
<1>10. first \in 1..len /\ last \in 1..len
  BY <1>4, <1>9
<1>11. n \in Nat
  BY <1>4, <1>6, <1>9, <1>10
<1>12. ASSUME NEW k \in 1..n PROVE content[first + k - 1].text \in Texts
  <2>1. first + k - 1 \in 1..len
    BY <1>4, <1>9, <1>10, <1>11
  <2>2. PICK p : p = first + k - 1
    OBVIOUS
  <2>3. PICK i \in NewLines(e) : content[p] = e[i]
    BY <1>8, <1>9, <2>1, <2>2, AfterIs
  <2>4. e[i].text \in Texts
    BY <1>8, EditIs
  <2>5. QED BY <2>2, <2>3, <2>4
<1>13. quote \in Seq(Texts)
  <2>1. quote \in [1..n -> Texts]
    BY <1>5, <1>12
  <2>2. QED BY <1>11, <2>1, AreSeq
<1>14. PICK f : f = [quote |-> quote, inDiff |-> TRUE, asks |-> FALSE]
  OBVIOUS
<1>15. f.quote \in Seq(Texts) /\ f.inDiff \in BOOLEAN
  BY <1>13, <1>14
<1>16. QED BY <1>1, <1>6, <1>14, <1>15, LooksKeeps

LEMMA AnchorInit_Inv == AnchorInit => AnchorInv
<1>1. SUFFICES ASSUME AnchorInit PROVE AnchorInv
  OBVIOUS
<1>2. /\ search = "given" /\ edit = [own |-> <<>>, other |-> <<>>] /\ bare = FALSE /\ finding = NoFinding
      /\ sought = <<>> /\ anchor = NoAnchor
  BY <1>1 DEF AnchorInit
<1>3. AnchorTypes
  <2>1. <<>> \in Seq(EditLines) /\ <<>> \in Seq(Texts)
    OBVIOUS
  <2>2. edit \in [own : Seq(EditLines), other : Seq(EditLines)]
    BY <1>2, <2>1
  <2>3. finding.quote = <<>> /\ finding.inDiff \in BOOLEAN
    BY <1>2 DEF NoFinding
  <2>4. QED BY <1>2, <2>1, <2>2, <2>3 DEF AnchorTypes
<1>4. anchor.range = <<>>
  BY <1>2 DEF NoAnchor
<1>5. AnchoredTruly
  BY <1>2, <1>4, TrulyIs DEF Truly
<1>6. QED BY <1>2, <1>3, <1>5 DEF AnchorInv

LEMMA AnchorNext_Inv == AnchorInv /\ [AnchorNext]_anchorVars => AnchorInv'
<1>1. SUFFICES ASSUME AnchorInv, [AnchorNext]_anchorVars PROVE AnchorInv'
  OBVIOUS
<1>2. CASE Reported
  BY <1>1, <1>2, ReportedKeeps
<1>3. CASE Imported
  BY <1>1, <1>3, ImportedKeeps
<1>4. CASE OwnHunks
  <2>1. finding.inDiff /\ InHunks("own", "hunk", "file")
    BY <1>4 DEF OwnHunks
  <2>2. QED BY <1>1, <2>1, InHunksKeeps
<1>5. CASE NotOwn
  BY <1>1, <1>5, NotOwnKeeps
<1>6. CASE OwnFile
  BY <1>1, <1>6, OwnFileKeeps
<1>7. CASE OtherFiles
  BY <1>1, <1>7, OtherFilesKeeps
<1>8. CASE AskModel
  BY <1>1, <1>8, AskModelKeeps
<1>9. CASE RelocatedHunks
  <2>1. InHunks("again", "relocated", "reread")
    BY <1>9 DEF RelocatedHunks
  <2>2. QED BY <1>1, <2>1, InHunksKeeps
<1>10. CASE RelocatedFile
  BY <1>1, <1>10, RelocatedFileKeeps
<1>11. CASE UNCHANGED anchorVars
  <2>1. /\ search' = search /\ edit' = edit /\ bare' = bare /\ finding' = finding
        /\ sought' = sought /\ anchor' = anchor
    BY <1>11 DEF anchorVars
  <2>2. AnchoredTruly'
    <3>1. Truly(search, edit, finding, sought, anchor)
      BY <1>1, TrulyIs DEF AnchorInv
    <3>2. QED BY <2>1, <3>1, TrulyIs
  <2>3. QED BY <1>1, <2>1, <2>2 DEF AnchorInv, AnchorTypes
<1>12. QED BY <1>1, <1>2, <1>3, <1>4, <1>5, <1>6, <1>7, <1>8, <1>9, <1>10, <1>11 DEF AnchorNext

\* Along every search: the finding's own quote has no place in the hunks once they
\* were left, what is looked for elsewhere is that quote until a model answers, and
\* whatever is said holds of the two versions of the file (anchor.ts:40-118).
THEOREM AnchorInvariant == AnchorSpec => []AnchorInv
BY AnchorInit_Inv, AnchorNext_Inv, PTL DEF AnchorSpec

\* For every edit, every quote and every answer: what is said to be at some lines is
\* at those lines of the file as it is, is in the diff where that is said, and is
\* nowhere else in it that is as good; and what is in one place only is not given up.
THEOREM AnchoredTrulyAlways == AnchorSpec => []AnchoredTruly
<1>1. AnchorInv => AnchoredTruly
  BY DEF AnchorInv
<1>2. QED BY <1>1, AnchorInvariant, PTL

=============================================================================
