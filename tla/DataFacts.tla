------------------------------- MODULE DataFacts -------------------------------
(***************************************************************************)
(* Facts about numbers, sums and sequences the other proofs rest on.  They *)
(* are induction arguments; each is made from a least counterexample,      *)
(* which a well-founded order provides (WFMin).                            *)
(***************************************************************************)
EXTENDS SequencesExt, FiniteSetTheorems, SequenceTheorems, TLAPS

(* Induction *)

LEMMA LeastNumber ==
  ASSUME NEW T \in SUBSET Nat, T # {}
  PROVE  \E m \in T : \A n \in T : m <= n
<1>1. PICK m \in T : \A n \in T : ~(<<n, m>> \in OpToRel(<, Nat))
  BY WFMin, NatLessThanWellFounded
<1>2. \A n \in T : ~(n < m)
  BY <1>1 DEF OpToRel
<1>3. QED BY <1>2

\* What holds of 0, and of n + 1 when it holds of n, holds of all up to a bound.
LEMMA AllUpTo ==
  ASSUME NEW N \in Nat, NEW T \in SUBSET (0..N),
         0 \in T, \A n \in T : n + 1 \in 0..N => n + 1 \in T
  PROVE  T = 0..N
<1> DEFINE Rest == (0..N) \ T
<1>1. SUFFICES ASSUME Rest # {} PROVE FALSE
  OBVIOUS
<1>2. PICK m \in Rest : \A n \in Rest : m <= n
  <2>1. Rest \in SUBSET Nat
    OBVIOUS
  <2> HIDE DEF Rest
  <2>2. QED BY <1>1, <2>1, LeastNumber
<1>3. m \in 0..N /\ m # 0 /\ m - 1 \in 0..N /\ (m - 1) + 1 = m
  OBVIOUS
<1>4. m - 1 \in T
  BY <1>2, <1>3
<1>5. QED BY <1>3, <1>4

\* A set of finite sets has one no other of them is a proper part of.
LEMMA LeastSet ==
  ASSUME NEW S, IsFiniteSet(S), NEW T \in SUBSET (SUBSET S), T # {}
  PROVE  \E m \in T : \A n \in T : n \subseteq m => n = m
<1>1. IsWellFoundedOn(StrictSubsetOrdering(S), SUBSET S)
  BY FS_StrictSubsetOrderingWellFounded, FS_FiniteSubsetsOfFinite
<1>2. PICK m \in T : \A n \in T : ~(<<n, m>> \in StrictSubsetOrdering(S))
  BY <1>1, WFMin
<1>3. QED BY <1>2 DEF StrictSubsetOrdering

\* A function defined at n from its value at n - 1 exists.
Recurs(g, N, e, step) == g[0] = e /\ \A n \in 1..N : g[n] = step[<<n, g[n - 1]>>]

LEMMA Recursion ==
  ASSUME NEW N \in Nat, NEW S, NEW e \in S, NEW step \in [(1..N) \X S -> S]
  PROVE  \E g \in [0..N -> S] : Recurs(g, N, e, step)
<1> DEFINE Upto(n, g) ==
             g \in [0..n -> S] /\ \A m \in 0..n : g[m] = IF m = 0 THEN e ELSE step[<<m, g[m - 1]>>]
           T == {n \in 0..N : \E g : Upto(n, g)}
<1>1. 0 \in T
  <2> DEFINE h == [m \in 0..0 |-> e]
  <2>1. h \in [0..0 -> S] /\ \A m \in 0..0 : m = 0 /\ h[m] = e
    OBVIOUS
  <2> HIDE DEF h
  <2>2. Upto(0, h)
    BY <2>1
  <2>3. QED BY <2>2
<1>2. ASSUME NEW n \in T, n + 1 \in 0..N PROVE n + 1 \in T
  <2>1. n \in Nat /\ n + 1 \in 1..N
    BY <1>2
  <2>2. PICK g : Upto(n, g)
    OBVIOUS
  <2> DEFINE new == step[<<n + 1, g[n]>>]
             h == [m \in 0..(n + 1) |-> IF m = n + 1 THEN new ELSE g[m]]
  <2>3. new \in S
    BY <2>1, <2>2
  <2>4. \A m \in 0..(n + 1) : m = n + 1 \/ m \in 0..n
    BY <2>1
  <2>5. h \in [0..(n + 1) -> S]
    BY <2>2, <2>3, <2>4
  <2>6. ASSUME NEW m \in 0..(n + 1)
        PROVE  h[m] = IF m = 0 THEN e ELSE step[<<m, h[m - 1]>>]
    <3>1. CASE m = n + 1
      <4>1. m - 1 = n /\ n \in 0..(n + 1) /\ n # n + 1 /\ m # 0
        BY <2>1, <3>1
      <4>2. h[m - 1] = g[n] /\ h[m] = new
        BY <3>1, <4>1
      <4>3. QED BY <3>1, <4>1, <4>2
    <3>2. CASE m = 0
      <4>1. m # n + 1 /\ m \in 0..n
        BY <2>1, <3>2
      <4>2. h[m] = g[m]
        BY <4>1
      <4>3. QED BY <2>2, <3>2, <4>1, <4>2
    <3>3. CASE m \in 0..n /\ m # 0
      <4>1. m # n + 1 /\ m - 1 \in 0..(n + 1) /\ m - 1 # n + 1 /\ m - 1 \in 0..n
        BY <2>1, <3>3
      <4>2. h[m] = g[m] /\ h[m - 1] = g[m - 1]
        BY <4>1
      <4>3. g[m] = step[<<m, g[m - 1]>>]
        BY <2>2, <3>3
      <4>4. QED BY <3>3, <4>2, <4>3
    <3>4. QED BY <2>4, <3>1, <3>2, <3>3
  <2> HIDE DEF h
  <2>7. Upto(n + 1, h)
    BY <2>5, <2>6
  <2>8. QED BY <1>2, <2>7
<1> HIDE DEF T
<1>3. T = 0..N
  <2>1. T \in SUBSET (0..N)
    BY DEF T
  <2>2. QED BY <1>1, <1>2, <2>1, AllUpTo
<1>4. PICK g : Upto(N, g)
  BY <1>3 DEF T
<1>5. 0 \in 0..N /\ \A n \in 1..N : n \in 0..N /\ n # 0
  OBVIOUS
<1>6. QED BY <1>4, <1>5 DEF Recurs

-----------------------------------------------------------------------------
(* Sequences put together *)

\* One sequence after another holds what each of them holds, and no more.
LEMMA Appends ==
  ASSUME NEW S, NEW s \in Seq(S), NEW T, NEW t \in Seq(T)
  PROVE  /\ s \o t \in Seq(S \cup T)
         /\ Range(s) \subseteq Range(s \o t)
         /\ Range(t) \subseteq Range(s \o t)
         /\ Range(s \o t)
              \subseteq Range(s) \cup Range(t)
         /\ s # <<>> => s \o t # <<>>
         /\ t # <<>> => s \o t # <<>>
<1>1. s \in Seq(S \cup T) /\ t \in Seq(S \cup T)
  OBVIOUS
<1>2. /\ s \o t \in Seq(S \cup T) /\ Len(s \o t) = Len(s) + Len(t)
      /\ \A i \in 1..(Len(s) + Len(t)) :
           (s \o t)[i] = IF i <= Len(s) THEN s[i] ELSE t[i - Len(s)]
  BY <1>1, ConcatProperties
<1>3. /\ DOMAIN s = 1..Len(s) /\ DOMAIN t = 1..Len(t)
      /\ DOMAIN (s \o t) = 1..(Len(s) + Len(t)) /\ Len(s) \in Nat /\ Len(t) \in Nat
  BY <1>1, <1>2
<1>4. \A i \in 1..Len(s) : i \in 1..(Len(s) + Len(t)) /\ (s \o t)[i] = s[i]
  BY <1>2, <1>3
<1>5. \A i \in 1..(Len(s) + Len(t)) :
        \/ i \in 1..Len(s) /\ (s \o t)[i] = s[i]
        \/ i - Len(s) \in 1..Len(t) /\ (s \o t)[i] = t[i - Len(s)]
  BY <1>2, <1>3
<1>6. Range(s) \subseteq Range(s \o t)
  BY <1>3, <1>4 DEF Range
<1>9. Range(t) \subseteq Range(s \o t)
  <2>1. \A i \in 1..Len(t) : /\ Len(s) + i \in 1..(Len(s) + Len(t))
                             /\ (s \o t)[Len(s) + i] = t[i]
    <3> SUFFICES ASSUME NEW i \in 1..Len(t)
                 PROVE  /\ Len(s) + i \in 1..(Len(s) + Len(t))
                        /\ (s \o t)[Len(s) + i] = t[i]
      OBVIOUS
    <3>1. Len(s) + i \in 1..(Len(s) + Len(t)) /\ ~(Len(s) + i <= Len(s)) /\ (Len(s) + i) - Len(s) = i
      BY <1>3
    <3>2. QED BY <1>2, <3>1
  <2>2. QED BY <1>3, <2>1 DEF Range
<1>7. Range(s \o t)
        \subseteq Range(s) \cup Range(t)
  BY <1>3, <1>5 DEF Range
<1>8. /\ s # <<>> => s \o t # <<>>
      /\ t # <<>> => s \o t # <<>>
  BY <1>1, ConcatEqualIffEmpty, ConcatEmptySeq
<1>10. QED BY <1>2, <1>6, <1>7, <1>8, <1>9

LEMMA AppendsOne ==
  ASSUME NEW S, NEW s \in Seq(S), NEW x \in S
  PROVE  /\ Append(s, x) \in Seq(S)
         /\ Range(s) \cup {x} = Range(Append(s, x))
<1>1. /\ Append(s, x) \in Seq(S) /\ Len(Append(s, x)) = Len(s) + 1
      /\ \A n \in 1..Len(s) : Append(s, x)[n] = s[n]
      /\ Append(s, x)[Len(s) + 1] = x
  BY AppendProperties
<1>2. DOMAIN s = 1..Len(s) /\ DOMAIN Append(s, x) = 1..(Len(s) + 1) /\ Len(s) \in Nat
  BY <1>1
<1>3. \A n \in 1..(Len(s) + 1) : n \in 1..Len(s) \/ n = Len(s) + 1
  BY <1>2
<1>4. 1..Len(s) \subseteq 1..(Len(s) + 1) /\ Len(s) + 1 \in 1..(Len(s) + 1)
  BY <1>2
<1>5. QED BY <1>1, <1>2, <1>3, <1>4 DEF Range

--------------------------------------------------------------------------------
(* Sums *)

\* sum gives the sum of f over each part of S, as SumFunctionOnSet defines it.
Sums(f, S, sum) ==
  sum = [s \in SUBSET S |->
           IF s = {} THEN 0
           ELSE f[CHOOSE x \in s : TRUE] + sum[s \ {CHOOSE x \in s : TRUE}]]

LEMMA SumIs ==
  ASSUME NEW f, NEW S
  PROVE  SumFunctionOnSet(f, S) = (CHOOSE sum : Sums(f, S, sum))[S]
BY DEF SumFunctionOnSet, FoldFunctionOnSet, MapThenFoldSet, Sums

LEMMA SumsStep ==
  ASSUME NEW f, NEW S, NEW sum, Sums(f, S, sum)
  PROVE  /\ sum[{}] = 0
         /\ \A s \in (SUBSET S) \ {{}} : \E x \in s : sum[s] = f[x] + sum[s \ {x}]
<1>1. \A s \in SUBSET S :
        sum[s] = IF s = {} THEN 0
                 ELSE f[CHOOSE x \in s : TRUE] + sum[s \ {CHOOSE x \in s : TRUE}]
  BY DEF Sums
<1>2. ASSUME NEW s \in (SUBSET S) \ {{}}
      PROVE  \E x \in s : sum[s] = f[x] + sum[s \ {x}]
  <2>1. (CHOOSE y \in s : TRUE) \in s
    OBVIOUS
  <2>2. QED BY <1>1, <2>1
<1>3. QED BY <1>1, <1>2

\* There is such a function: it is defined for larger and larger parts of S.
LEMMA SumsExist ==
  ASSUME NEW S, IsFiniteSet(S), NEW f, \A x \in S : f[x] \in Nat
  PROVE  \E sum \in [SUBSET S -> Nat] : Sums(f, S, sum)
<1> DEFINE First(s) == CHOOSE x \in s : TRUE
           Step(h, s) == IF s = {} THEN 0 ELSE f[First(s)] + h[s \ {First(s)}]
           Upto(n, h) == \A s \in SUBSET S : Cardinality(s) <= n => h[s] = Step(h, s)
           Size == Cardinality(S)
           Summed == {n \in 0..Size : \E h \in [SUBSET S -> Nat] : Upto(n, h)}
<1>1. /\ Size \in Nat
      /\ \A s \in SUBSET S : Cardinality(s) \in Nat /\ Cardinality(s) <= Size
      /\ \A s \in SUBSET S : Cardinality(s) = 0 <=> s = {}
  BY FS_CardinalityType, FS_Subset, FS_EmptySet
<1>2. \A s \in SUBSET S : s # {} =>
        /\ First(s) \in s /\ s \ {First(s)} \in SUBSET S
        /\ f[First(s)] \in Nat
        /\ Cardinality(s \ {First(s)}) = Cardinality(s) - 1
  <2>1. TAKE s \in SUBSET S
  <2>2. HAVE s # {}
  <2>3. First(s) \in s
    BY <2>2
  <2> HIDE DEF First
  <2>4. Cardinality(s \ {First(s)}) = Cardinality(s) - 1
    BY <2>3, FS_Subset, FS_RemoveElement
  <2>5. QED BY <2>3, <2>4
<1> HIDE DEF First
<1>3. 0 \in Summed
  <2> DEFINE h == [s \in SUBSET S |-> 0]
  <2>1. h \in [SUBSET S -> Nat] /\ Upto(0, h)
    BY <1>1
  <2>2. 0 \in 0..Size
    BY <1>1
  <2> HIDE DEF h, Upto
  <2>3. QED BY <2>1, <2>2
<1>4. ASSUME NEW n \in Summed, n + 1 \in 0..Size PROVE n + 1 \in Summed
  <2>1. PICK h \in [SUBSET S -> Nat] : Upto(n, h)
    OBVIOUS
  <2> DEFINE g == [s \in SUBSET S |-> IF Cardinality(s) = n + 1 THEN Step(h, s) ELSE h[s]]
  <2>2. g \in [SUBSET S -> Nat]
    BY <1>2
  <2>3. ASSUME NEW s \in SUBSET S, Cardinality(s) <= n + 1
        PROVE  g[s] = Step(g, s)
    <3>1. Cardinality(s) \in Nat /\ n \in Nat
      BY <1>1
    <3>2. g[s] = Step(h, s)
      BY <2>1, <2>3, <3>1
    <3>3. s # {} => g[s \ {First(s)}] = h[s \ {First(s)}]
      BY <1>2, <2>3, <3>1
    <3> HIDE DEF g
    <3>4. QED BY <3>2, <3>3
  <2>4. Upto(n + 1, g)
    BY <2>3
  <2> HIDE DEF g, Upto
  <2>5. QED BY <1>4, <2>2, <2>4
<1>5. Summed = 0..Size
  <2> HIDE DEF Summed
  <2>1. Summed \in SUBSET (0..Size)
    BY DEF Summed
  <2>2. QED BY <1>1, <1>3, <1>4, <2>1, AllUpTo
<1>6. PICK h \in [SUBSET S -> Nat] : Upto(Size, h)
  <2>1. Size \in 0..Size
    BY <1>1
  <2>2. Size \in Summed
    <3> HIDE DEF Summed, Size
    <3>1. QED BY <1>5, <2>1
  <2>3. QED BY <2>2
<1>7. \A s \in SUBSET S : h[s] = Step(h, s)
  BY <1>1, <1>6
<1>8. h = [s \in SUBSET S |-> Step(h, s)]
  BY <1>6, <1>7
<1>9. QED BY <1>6, <1>8 DEF Sums, First

\* Whatever is taken first, the sum is that element's and the others'.
AreSums(f, S, sum) ==
  /\ IsFiniteSet(S) /\ \A x \in S : f[x] \in Nat
  /\ sum \in [SUBSET S -> Nat] /\ Sums(f, S, sum)

LEMMA SumsTakeAny ==
  ASSUME NEW S, NEW f, NEW sum, AreSums(f, S, sum), NEW U \in SUBSET S, NEW z \in U
  PROVE  sum[U] = f[z] + sum[U \ {z}]
<1> USE DEF AreSums
<1> DEFINE Good(s) == \A y \in s : sum[s] = f[y] + sum[s \ {y}]
           Bad == {s \in SUBSET S : ~Good(s)}
<1>0. \A r \in (SUBSET S) \ {{}} : \E x \in r : sum[r] = f[x] + sum[r \ {x}]
  <2> HIDE DEF Bad, Good
  <2>1. Sums(f, S, sum)
    OBVIOUS
  <2>2. QED BY ONLY <2>1, SumsStep
<1>1. SUFFICES ASSUME Bad # {} PROVE FALSE
  OBVIOUS
<1>2. PICK s \in Bad : \A r \in Bad : r \subseteq s => r = s
  <2> HIDE DEF Bad
  <2>1. Bad \in SUBSET (SUBSET S)
    BY DEF Bad
  <2>2. QED BY <1>1, <2>1, LeastSet
<1>3. PICK y \in s : sum[s] # f[y] + sum[s \ {y}]
  OBVIOUS
<1>4. PICK x \in s : sum[s] = f[x] + sum[s \ {x}]
  <2>1. s \in (SUBSET S) \ {{}}
    BY <1>3
  <2>2. QED BY <1>0, <2>1
<1>5. x # y
  BY <1>3, <1>4
<1>6. Good(s \ {x}) /\ Good(s \ {y})
  <2>1. s \ {x} \in SUBSET S /\ s \ {y} \in SUBSET S /\ s \ {x} # s /\ s \ {y} # s
    OBVIOUS
  <2> HIDE DEF Good
  <2>2. QED BY <1>2, <2>1
<1>7. sum[s \ {x}] = f[y] + sum[(s \ {x}) \ {y}] /\ sum[s \ {y}] = f[x] + sum[(s \ {y}) \ {x}]
  BY <1>5, <1>6
<1>8. (s \ {x}) \ {y} = (s \ {y}) \ {x}
  OBVIOUS
<1>9. /\ f[x] \in Nat /\ f[y] \in Nat /\ sum[s \ {x}] \in Nat /\ sum[s \ {y}] \in Nat
      /\ sum[(s \ {x}) \ {y}] \in Nat
  OBVIOUS
<1>10. sum[s] = f[y] + sum[s \ {y}]
  <2> DEFINE rest == sum[(s \ {x}) \ {y}]
  <2>1. rest \in Nat /\ sum[s \ {x}] = f[y] + rest /\ sum[s \ {y}] = f[x] + rest
    BY <1>7, <1>8, <1>9
  <2>2. sum[s] = f[x] + (f[y] + rest)
    BY <1>4, <2>1
  <2> HIDE DEF rest
  <2>3. QED BY <1>9, <2>1, <2>2
<1>11. QED BY <1>3, <1>10

\* The sum over a finite set, and what makes it: every element, each once.
LEMMA SumOver ==
  ASSUME NEW S, IsFiniteSet(S), NEW f, \A x \in S : f[x] \in Nat
  PROVE  \E sum \in [SUBSET S -> Nat] :
           Sums(f, S, sum) /\ SumFunctionOnSet(f, S) = sum[S]
<1> DEFINE sums == CHOOSE sum : Sums(f, S, sum)
<1>1. PICK sum \in [SUBSET S -> Nat] : Sums(f, S, sum)
  BY SumsExist
<1>2. Sums(f, S, sums)
  BY <1>1
<1>3. ASSUME NEW t, Sums(f, S, t) PROVE t = sum
  <2> DEFINE Bad == {s \in SUBSET S : t[s] # sum[s]}
  <2>1. Bad = {}
    <3>1. SUFFICES ASSUME Bad # {} PROVE FALSE
      OBVIOUS
    <3>2. PICK s \in Bad : \A r \in Bad : r \subseteq s => r = s
      <4>1. Bad \in SUBSET (SUBSET S)
        OBVIOUS
      <4> HIDE DEF Bad
      <4>2. QED BY <3>1, <4>1, LeastSet
    <3> DEFINE x == CHOOSE y \in s : TRUE
    <3>3. s # {} /\ s \in SUBSET S
      BY <1>1, <1>3, SumsStep
    <3>4. x \in s
      BY <3>3
    <3>5. sum[s] = f[x] + sum[s \ {x}] /\ t[s] = f[x] + t[s \ {x}]
      BY <1>1, <1>3, <3>3 DEF Sums
    <3> HIDE DEF x
    <3>6. s \ {x} \notin Bad
      BY <3>2, <3>4
    <3>7. t[s \ {x}] = sum[s \ {x}]
      BY <3>3, <3>6
    <3>8. QED BY <3>5, <3>7
  <2>2. DOMAIN t = SUBSET S /\ t = [s \in DOMAIN t |-> t[s]]
    BY <1>3 DEF Sums
  <2>3. QED BY <2>1, <2>2
<1> HIDE DEF sums
<1>4. sums = sum
  BY <1>2, <1>3
<1>5. SumFunctionOnSet(f, S) = sums[S]
  BY SumIs DEF sums
<1>6. QED BY <1>1, <1>4, <1>5

LEMMA SumType ==
  ASSUME NEW S, IsFiniteSet(S), NEW f, \A x \in S : f[x] \in Nat
  PROVE  SumFunctionOnSet(f, S) \in Nat
<1>1. PICK sum \in [SUBSET S -> Nat] : SumFunctionOnSet(f, S) = sum[S]
  BY SumOver
<1>2. S \in SUBSET S
  OBVIOUS
<1>3. QED BY <1>1, <1>2

\* Two functions that agree on a set have the same sum over it.
LEMMA SumsAgree ==
  ASSUME NEW S, IsFiniteSet(S), NEW f, NEW T, NEW g, NEW s, NEW t,
         Sums(f, S, s), Sums(g, T, t),
         NEW U \in (SUBSET S) \cap (SUBSET T), \A x \in U : f[x] = g[x]
  PROVE  s[U] = t[U]
<1> DEFINE Bad == {r \in SUBSET U : s[r] # t[r]}
<1>1. SUFFICES ASSUME Bad # {} PROVE FALSE
  OBVIOUS
<1>2. PICK r \in Bad : \A q \in Bad : q \subseteq r => q = r
  <2>1. Bad \in SUBSET (SUBSET U) /\ IsFiniteSet(U)
    BY FS_Subset
  <2> HIDE DEF Bad
  <2>2. QED BY <1>1, <2>1, LeastSet
<1> DEFINE x == CHOOSE y \in r : TRUE
<1>3. r # {} /\ r \in SUBSET S /\ r \in SUBSET T
  BY SumsStep
<1>4. x \in r
  BY <1>3
<1>5. s[r] = f[x] + s[r \ {x}] /\ t[r] = g[x] + t[r \ {x}]
  BY <1>3 DEF Sums
<1> HIDE DEF x
<1>6. r \ {x} \notin Bad
  BY <1>2, <1>4
<1>7. s[r \ {x}] = t[r \ {x}] /\ f[x] = g[x]
  BY <1>3, <1>4, <1>6
<1>8. QED BY <1>5, <1>7

LEMMA SumSame ==
  ASSUME NEW S, IsFiniteSet(S), NEW f, \A x \in S : f[x] \in Nat,
         NEW g, \A x \in S : f[x] = g[x]
  PROVE  SumFunctionOnSet(f, S) = SumFunctionOnSet(g, S)
<1>1. PICK s \in [SUBSET S -> Nat] : Sums(f, S, s) /\ SumFunctionOnSet(f, S) = s[S]
  BY SumOver
<1>2. PICK t \in [SUBSET S -> Nat] : Sums(g, S, t) /\ SumFunctionOnSet(g, S) = t[S]
  <2>1. \A x \in S : g[x] \in Nat
    OBVIOUS
  <2>2. QED BY <2>1, SumOver
<1>3. S \in (SUBSET S) \cap (SUBSET S)
  OBVIOUS
<1>4. QED BY <1>1, <1>2, <1>3, SumsAgree

LEMMA SumEmpty ==
  ASSUME NEW f
  PROVE  SumFunctionOnSet(f, {}) = 0
<1>1. IsFiniteSet({})
  BY FS_EmptySet
<1>2. PICK sum \in [SUBSET {} -> Nat] : Sums(f, {}, sum) /\ SumFunctionOnSet(f, {}) = sum[{}]
  BY <1>1, SumOver
<1>3. QED BY <1>2, SumsStep

\* Any element and the others.
LEMMA SumTakes ==
  ASSUME NEW S, IsFiniteSet(S), NEW f, \A x \in S : f[x] \in Nat, NEW y \in S
  PROVE  SumFunctionOnSet(f, S) = f[y] + SumFunctionOnSet(f, S \ {y})
<1> DEFINE T == S \ {y}
<1>1. IsFiniteSet(T) /\ \A x \in T : f[x] \in Nat
  BY FS_Subset
<1>2. PICK s \in [SUBSET S -> Nat] : Sums(f, S, s) /\ SumFunctionOnSet(f, S) = s[S]
  BY SumOver
<1>3. PICK t \in [SUBSET T -> Nat] : Sums(f, T, t) /\ SumFunctionOnSet(f, T) = t[T]
  <2> HIDE DEF T
  <2>1. QED BY <1>1, SumOver
<1>4. s[S] = f[y] + s[T]
  <2>1. S \in SUBSET S /\ AreSums(f, S, s)
    BY <1>2 DEF AreSums
  <2>2. QED BY <2>1, SumsTakeAny
<1>5. T \in (SUBSET S) \cap (SUBSET T) /\ \A x \in T : f[x] = f[x]
  OBVIOUS
<1> HIDE DEF T
<1>6. s[T] = t[T]
  BY <1>2, <1>3, <1>5, SumsAgree
<1>7. QED BY <1>2, <1>3, <1>4, <1>6 DEF T

\* What one element grows by, the sum grows by.
LEMMA SumAdds ==
  ASSUME NEW S, IsFiniteSet(S), NEW f \in [S -> Nat], NEW y \in S, NEW n \in Nat
  PROVE  SumFunctionOnSet([f EXCEPT ![y] = f[y] + n], S) = SumFunctionOnSet(f, S) + n
<1> DEFINE g == [f EXCEPT ![y] = f[y] + n]
           T == S \ {y}
<1>1. /\ \A x \in S : f[x] \in Nat /\ g[x] \in Nat
      /\ g[y] = f[y] + n /\ \A x \in T : g[x] = f[x]
      /\ IsFiniteSet(T)
  BY FS_Subset
<1> HIDE DEF g, T
<1>2. /\ SumFunctionOnSet(f, S) = f[y] + SumFunctionOnSet(f, T)
      /\ SumFunctionOnSet(g, S) = g[y] + SumFunctionOnSet(g, T)
  BY <1>1, SumTakes DEF T
<1>3. \A x \in T : x \in S
  BY DEF T
<1>4. SumFunctionOnSet(g, T) = SumFunctionOnSet(f, T)
  BY <1>1, <1>3, SumSame
<1>5. SumFunctionOnSet(f, T) \in Nat
  BY <1>1, <1>3, SumType
<1>6. SumFunctionOnSet(g, S) = SumFunctionOnSet(f, S) + n
  BY <1>1, <1>2, <1>4, <1>5
<1>7. QED BY <1>6 DEF g

LEMMA SumZero ==
  ASSUME NEW S, IsFiniteSet(S), NEW f, \A x \in S : f[x] = 0
  PROVE  SumFunctionOnSet(f, S) = 0
<1>1. PICK s \in [SUBSET S -> Nat] : Sums(f, S, s) /\ SumFunctionOnSet(f, S) = s[S]
  <2>1. \A x \in S : f[x] \in Nat
    OBVIOUS
  <2>2. QED BY <2>1, SumOver
<1> DEFINE Bad == {r \in SUBSET S : s[r] # 0}
<1>2. Bad = {}
  <2>1. SUFFICES ASSUME Bad # {} PROVE FALSE
    OBVIOUS
  <2>2. PICK r \in Bad : \A q \in Bad : q \subseteq r => q = r
    <3>1. Bad \in SUBSET (SUBSET S)
      OBVIOUS
    <3> HIDE DEF Bad
    <3>2. QED BY <2>1, <3>1, LeastSet
  <2>3. r \in (SUBSET S) \ {{}}
    BY <1>1, SumsStep
  <2>4. PICK x \in r : s[r] = f[x] + s[r \ {x}]
    <3> HIDE DEF Bad
    <3>1. QED BY <1>1, <2>3, SumsStep
  <2>5. r \ {x} \notin Bad
    BY <2>2
  <2>6. QED BY <2>3, <2>4, <2>5
<1>3. QED BY <1>1, <1>2

\* How many pieces of b there are in a, counted up.
LEMMA Pieces ==
  ASSUME NEW a \in Nat, NEW b \in Nat \ {0}
  PROVE  LET k == (a + b - 1) \div b
         IN  /\ k \in Nat /\ a <= k * b
             /\ \A n \in 1..k : (n - 1) * b < a
<1> DEFINE k == (a + b - 1) \div b
<1>1. k \in Nat /\ k * b <= a + b - 1 /\ a + b - 1 < (k + 1) * b
  OBVIOUS
<1> HIDE DEF k
<1>2. (k + 1) * b = k * b + b /\ k * b \in Nat
  BY <1>1
<1>3. a <= k * b
  BY <1>1, <1>2
<1>4. ASSUME NEW n \in 1..k PROVE (n - 1) * b < a
  <2>1. n - 1 \in Nat /\ n - 1 <= k - 1 /\ k - 1 \in Nat
    BY <1>1
  <2>2. (n - 1) * b <= (k - 1) * b
    BY <2>1
  <2>3. (k - 1) * b = k * b - b /\ (n - 1) * b \in Nat
    BY <1>1, <2>1
  <2>4. QED BY <1>1, <1>2, <2>2, <2>3
<1>5. QED BY <1>1, <1>3, <1>4 DEF k

-----------------------------------------------------------------------------
(* Sequences *)

\* A function on the first numbers is a sequence.
LEMMA AreSeq ==
  ASSUME NEW n \in Nat, NEW S, NEW f \in [1..n -> S]
  PROVE  f \in Seq(S) /\ Len(f) = n /\ DOMAIN f = 1..n
BY SeqDef

\* It is at one place at most.
OnceIn(s, x) == \A m, n \in DOMAIN s : s[m] = x /\ s[n] = x => m = n

LEMMA OnceConcat ==
  ASSUME NEW S, NEW s \in Seq(S), NEW t \in Seq(S), NEW x
  PROVE  OnceIn(s \o t, x) <=>
           OnceIn(s, x) /\ OnceIn(t, x) /\ ~(x \in Range(s) /\ x \in Range(t))
<1> DEFINE u == s \o t
           L == Len(s)
           M == Len(t)
<1>1. /\ L \in Nat /\ M \in Nat /\ DOMAIN s = 1..L /\ DOMAIN t = 1..M
      /\ DOMAIN u = 1..(L + M)
      /\ \A i \in 1..(L + M) : u[i] = IF i <= L THEN s[i] ELSE t[i - L]
  BY ConcatProperties, LenProperties
<1>2. (\A i \in 1..L : i \in 1..(L + M) /\ u[i] = s[i])
  BY <1>1
<1>3. \A i \in 1..M : i + L \in 1..(L + M) /\ u[i + L] = t[i] /\ i + L > L
  <2> SUFFICES ASSUME NEW i \in 1..M PROVE i + L \in 1..(L + M) /\ u[i + L] = t[i] /\ i + L > L
    OBVIOUS
  <2>1. i + L \in 1..(L + M) /\ ~(i + L <= L) /\ (i + L) - L = i /\ i + L > L
    BY <1>1
  <2>2. QED BY <1>1, <2>1
<1>4. \A i \in 1..(L + M) : i \in 1..L \/ (i - L \in 1..M /\ i = (i - L) + L)
  BY <1>1
<1> HIDE DEF u, L, M
<1>5. ASSUME OnceIn(u, x)
      PROVE  OnceIn(s, x) /\ OnceIn(t, x) /\ ~(x \in Range(s) /\ x \in Range(t))
  <2>1. OnceIn(s, x)
    BY <1>1, <1>2, <1>5 DEF OnceIn
  <2>2. OnceIn(t, x)
    <3> SUFFICES ASSUME NEW m \in 1..M, NEW n \in 1..M, t[m] = x, t[n] = x PROVE m = n
      BY <1>1 DEF OnceIn
    <3>1. m + L = n + L
      BY <1>1, <1>3, <1>5 DEF OnceIn
    <3>2. QED BY <1>1, <3>1
  <2>3. ASSUME x \in Range(s), x \in Range(t) PROVE FALSE
    <3>1. PICK m \in 1..L : s[m] = x
      BY <1>1, <2>3 DEF Range
    <3>2. PICK n \in 1..M : t[n] = x
      BY <1>1, <2>3 DEF Range
    <3>3. m = n + L
      BY <1>1, <1>2, <1>3, <1>5, <3>1, <3>2 DEF OnceIn
    <3>4. QED BY <1>1, <1>3, <3>1, <3>3
  <2>4. QED BY <2>1, <2>2, <2>3
<1>6. ASSUME OnceIn(s, x), OnceIn(t, x), ~(x \in Range(s) /\ x \in Range(t))
      PROVE  OnceIn(u, x)
  <2> SUFFICES ASSUME NEW m \in 1..(L + M), NEW n \in 1..(L + M), u[m] = x, u[n] = x PROVE m = n
    BY <1>1 DEF OnceIn
  <2>1. CASE m \in 1..L /\ n \in 1..L
    BY <1>1, <1>2, <1>6, <2>1 DEF OnceIn
  <2>2. CASE m - L \in 1..M /\ n - L \in 1..M /\ m = (m - L) + L /\ n = (n - L) + L
    <3>1. t[m - L] = x /\ t[n - L] = x
      BY <1>3, <2>2
    <3>2. m - L = n - L
      BY <1>1, <1>6, <2>2, <3>1 DEF OnceIn
    <3>3. QED BY <2>2, <3>2
  <2>3. ASSUME NEW i \in 1..L, NEW j \in 1..(L + M), j - L \in 1..M, j = (j - L) + L, u[i] = x, u[j] = x
        PROVE  FALSE
    <3>1. s[i] = x /\ t[j - L] = x
      BY <1>2, <1>3, <2>3
    <3>2. QED BY <1>1, <1>6, <2>3, <3>1 DEF Range
  <2>4. QED BY <1>4, <2>1, <2>2, <2>3
<1>7. QED BY <1>5, <1>6 DEF u

LEMMA OnceOne == ASSUME NEW y, NEW x PROVE OnceIn(<<y>>, x) /\ Range(<<y>>) = {y}
BY DEF OnceIn, Range

LEMMA OnceAppend ==
  ASSUME NEW S, NEW s \in Seq(S), NEW y \in S, NEW x
  PROVE  OnceIn(Append(s, y), x) <=> OnceIn(s, x) /\ ~(x \in Range(s) /\ x = y)
<1>1. Append(s, y) = s \o <<y>> /\ <<y>> \in Seq(S)
  BY AppendIsConcat
<1> DEFINE t == <<y>>
<1>2. t \in Seq(S) /\ OnceIn(t, x) /\ Range(t) = {y}
  BY <1>1, OnceOne
<1> HIDE DEF t
<1>3. OnceIn(s \o t, x) <=> OnceIn(s, x) /\ OnceIn(t, x) /\ ~(x \in Range(s) /\ x \in Range(t))
  BY <1>2, OnceConcat
<1>4. QED BY <1>1, <1>2, <1>3 DEF t

-----------------------------------------------------------------------------
(* Lists flattened *)

FlattensFirst(list, g) ==
  g = [i \in 1..Len(list) |-> IF i = 1 THEN list[i] ELSE g[i - 1] \o list[i]]

\* h[n] is the first n of them, one after another.
Flattens(list, h, S) ==
  /\ h \in [0..Len(list) -> Seq(S)] /\ h[0] = <<>>
  /\ \A n \in 1..Len(list) : h[n] = h[n - 1] \o list[n]

LEMMA FlattenBy ==
  ASSUME NEW S, NEW list \in Seq(Seq(S))
  PROVE  \E h : Flattens(list, h, S) /\ FlattenSeq(list) = h[Len(list)]
<1> DEFINE N == Len(list)
           TS == Seq(S)
           step == [p \in (1..N) \X TS |-> p[2] \o list[p[1]]]
           g == CHOOSE f : FlattensFirst(list, f)
<1>1. N \in Nat /\ <<>> \in TS /\ \A n \in 1..N : list[n] \in TS
  BY LenProperties
<1>2. FlattenSeq(list) = IF N = 0 THEN list ELSE g[N]
  BY DEF FlattenSeq, FlattensFirst
<1>3. \A n \in 1..N, s \in TS : step[<<n, s>>] = s \o list[n] /\ step[<<n, s>>] \in TS
  BY <1>1, ConcatProperties
<1>4. step \in [(1..N) \X TS -> TS]
  <2>1. \A p \in (1..N) \X TS : p = <<p[1], p[2]>> /\ p[1] \in 1..N /\ p[2] \in TS
    OBVIOUS
  <2>2. \A p \in (1..N) \X TS : step[p] \in TS
    <3> HIDE DEF step, TS
    <3>1. QED BY <1>3, <2>1
  <2>3. QED BY <2>2
<1> HIDE DEF step
<1>5. PICK h \in [0..N -> TS] : Recurs(h, N, <<>>, step)
  <2> HIDE DEF N, TS
  <2>1. QED BY <1>1, <1>4, Recursion
<1>6. h[0] = <<>> /\ \A n \in 1..N : h[n] = h[n - 1] \o list[n]
  <2>1. \A n \in 1..N : n - 1 \in 0..N
    BY <1>1
  <2>2. \A n \in 1..N : h[n - 1] \in TS
    BY <1>5, <2>1
  <2>3. QED BY <1>3, <1>5, <2>2 DEF Recurs
<1>7. Flattens(list, h, S)
  BY <1>5, <1>6 DEF Flattens
<1> DEFINE f == [i \in 1..N |-> h[i]]
<1>8. FlattensFirst(list, f)
  <2>1. ASSUME NEW i \in 1..N PROVE f[i] = IF i = 1 THEN list[i] ELSE f[i - 1] \o list[i]
    <3>1. CASE i = 1
      <4>0. 1 \in 1..N /\ 1 - 1 = 0
        BY <3>1
      <4>1. h[1] = h[0] \o list[1] /\ list[1] \in TS
        BY <1>1, <1>6, <4>0
      <4>2. <<>> \o list[1] = list[1]
        BY <4>1, ConcatEmptySeq
      <4>3. QED BY <1>6, <3>1, <4>1, <4>2
    <3>2. CASE i # 1
      <4>1. i - 1 \in 1..N
        BY <1>1, <3>2
      <4>2. QED BY <1>6, <3>2, <4>1
    <3>3. QED BY <3>1, <3>2
  <2> HIDE DEF N
  <2>2. f = [i \in 1..N |-> IF i = 1 THEN list[i] ELSE f[i - 1] \o list[i]]
    <3>1. DOMAIN f = 1..N /\ f = [i \in 1..N |-> f[i]]
      OBVIOUS
    <3> HIDE DEF f
    <3>2. QED BY <2>1, <3>1
  <2>3. QED BY <2>2 DEF FlattensFirst, N
<1>9. FlattensFirst(list, g)
  <2> HIDE DEF f
  <2>1. QED BY <1>8
<1> HIDE DEF g
<1>10. \A i \in 1..N : g[i] = IF i = 1 THEN list[i] ELSE g[i - 1] \o list[i]
  BY <1>9 DEF FlattensFirst
<1> DEFINE G == {n \in 0..N : n = 0 \/ g[n] = h[n]}
<1>11. G = 0..N
  <2>1. 0 \in G
    BY <1>1
  <2>2. ASSUME NEW n \in G, n + 1 \in 0..N PROVE n + 1 \in G
    <3>1. n + 1 \in 1..N /\ (n + 1) - 1 = n /\ n \in Nat /\ (n + 1 = 1 <=> n = 0)
      BY <1>1, <2>2
    <3>2. h[n + 1] = h[n] \o list[n + 1]
      BY <1>6, <3>1
    <3>3. CASE n = 0
      <4>1. list[1] \in TS /\ g[1] = list[1]
        BY <1>1, <1>10, <3>1, <3>3
      <4>2. <<>> \o list[1] = list[1]
        BY <4>1, ConcatEmptySeq
      <4>3. h[1] = list[1]
        <5>1. n + 1 = 1 /\ h[n] = <<>>
          BY <1>6, <3>3
        <5>2. QED BY <3>2, <4>2, <5>1
      <4>4. QED BY <2>2, <3>3, <4>1, <4>3
    <3>4. CASE n # 0
      <4>1. g[n + 1] = g[n] \o list[n + 1]
        BY <1>10, <3>1, <3>4
      <4>2. g[n] = h[n]
        BY <3>4
      <4>3. QED BY <2>2, <3>2, <4>1, <4>2
    <3>5. QED BY <3>3, <3>4
  <2>3. G \in SUBSET (0..N)
    OBVIOUS
  <2> HIDE DEF G
  <2>4. QED BY <1>1, <2>1, <2>2, <2>3, AllUpTo
<1>12. N # 0 => g[N] = h[N]
  BY <1>1, <1>11
<1>13. N = 0 => list = <<>> /\ h[N] = <<>>
  <2>1. N = 0 => list = <<>>
    BY EmptySeq
  <2>2. QED BY <1>6, <2>1
<1>14. QED BY <1>2, <1>7, <1>12, <1>13

\* One sequence more.
LEMMA FlattenStep ==
  ASSUME NEW S, NEW list \in Seq(Seq(S)), NEW h, Flattens(list, h, S)
  PROVE  /\ Len(list) \in Nat /\ DOMAIN list = 1..Len(list)
         /\ \A n \in 1..Len(list) : list[n] \in Seq(S)
         /\ \A n \in 0..Len(list) : n + 1 \in 0..Len(list) =>
              /\ n \in Nat /\ n + 1 \in 1..Len(list) /\ h[n] \in Seq(S)
              /\ h[n + 1] = h[n] \o list[n + 1]
<1>1. Len(list) \in Nat /\ DOMAIN list = 1..Len(list) /\ \A n \in 1..Len(list) : list[n] \in Seq(S)
  BY LenProperties
<1>2. ASSUME NEW n \in 0..Len(list), n + 1 \in 0..Len(list)
      PROVE  /\ n \in Nat /\ n + 1 \in 1..Len(list) /\ h[n] \in Seq(S)
             /\ h[n + 1] = h[n] \o list[n + 1]
  <2>1. n \in Nat /\ n + 1 \in 1..Len(list) /\ (n + 1) - 1 = n
    BY <1>1, <1>2
  <2>2. h[n + 1] = h[(n + 1) - 1] \o list[n + 1] /\ h[n] \in Seq(S)
    BY <1>2, <2>1 DEF Flattens
  <2>3. QED BY <2>1, <2>2
<1>3. QED BY <1>1, <1>2

\* What flattens a list is determined.
LEMMA FlattenIs ==
  ASSUME NEW S, NEW list \in Seq(Seq(S)), NEW h, Flattens(list, h, S)
  PROVE  FlattenSeq(list) = h[Len(list)]
<1> DEFINE N == Len(list)
<1>1. PICK g : Flattens(list, g, S) /\ FlattenSeq(list) = g[N]
  BY FlattenBy
<1>2. N \in Nat
  BY LenProperties
<1> DEFINE G == {n \in 0..N : g[n] = h[n]}
<1>3. 0 \in G
  <2>1. 0 \in 0..N /\ g[0] = h[0]
    BY <1>1, <1>2 DEF Flattens
  <2>2. QED BY <2>1
<1>4. ASSUME NEW n \in G, n + 1 \in 0..N PROVE n + 1 \in G
  <2>1. g[n + 1] = g[n] \o list[n + 1] /\ h[n + 1] = h[n] \o list[n + 1]
    BY <1>1, <1>4, FlattenStep
  <2>2. QED BY <1>4, <2>1
<1>5. G \in SUBSET (0..N) /\ N \in 0..N
  BY <1>2
<1> HIDE DEF N
<1>6. N \in G
  <2> HIDE DEF G
  <2>1. QED BY <1>2, <1>3, <1>4, <1>5, AllUpTo
<1>7. QED BY <1>1, <1>6 DEF N

\* What is in it: what is in one of them.
LEMMA FlattenHolds ==
  ASSUME NEW S, NEW list \in Seq(Seq(S))
  PROVE  /\ FlattenSeq(list) \in Seq(S)
         /\ Range(FlattenSeq(list)) = UNION {Range(list[b]) : b \in DOMAIN list}
<1> DEFINE N == Len(list)
           Upto(n) == UNION {Range(list[b]) : b \in 1..n}
<1>1. PICK h : Flattens(list, h, S) /\ FlattenSeq(list) = h[N]
  BY FlattenBy
<1>2. N \in Nat /\ DOMAIN list = 1..N /\ h \in [0..N -> Seq(S)] /\ h[0] = <<>>
  BY <1>1, FlattenStep DEF Flattens
<1>3. \A n \in 0..N : n + 1 \in 0..N =>
        /\ n \in Nat /\ n + 1 \in 1..N /\ h[n] \in Seq(S) /\ list[n + 1] \in Seq(S)
        /\ h[n + 1] = h[n] \o list[n + 1]
  BY <1>1, FlattenStep
<1> HIDE DEF N
<1> DEFINE G == {n \in 0..N : Range(h[n]) = Upto(n)}
<1>4. 0 \in G
  <2>1. 0 \in 0..N /\ Range(h[0]) = {}
    BY <1>2 DEF Range
  <2>2. Upto(0) = {}
    OBVIOUS
  <2>3. QED BY <2>1, <2>2
<1>5. ASSUME NEW n \in G, n + 1 \in 0..N PROVE n + 1 \in G
  <2>a. n \in 0..N
    BY <1>5
  <2>b. h[n] \in Seq(S) /\ list[n + 1] \in Seq(S) /\ h[n + 1] = h[n] \o list[n + 1]
    BY <1>3, <1>5, <2>a
  <2>1. Range(h[n + 1]) = Range(h[n]) \cup Range(list[n + 1])
    BY <2>b, RangeConcatenation
  <2>2. Upto(n + 1) = Upto(n) \cup Range(list[n + 1])
    <3>1. 1..(n + 1) = (1..n) \cup {n + 1}
      BY <1>3, <1>5
    <3>2. QED BY <3>1
  <2> HIDE DEF Upto
  <2>3. QED BY <1>5, <2>1, <2>2
<1>6. G \in SUBSET (0..N) /\ N \in 0..N
  BY <1>2
<1>7. N \in G
  <2> HIDE DEF G
  <2>1. QED BY <1>2, <1>4, <1>5, <1>6, AllUpTo
<1>8. Range(h[N]) = Upto(N)
  <2> HIDE DEF Upto
  <2>1. QED BY <1>7
<1>9. QED BY <1>1, <1>2, <1>6, <1>8

\* It is in one of them at most, and there at one place at most.
PlacedOnce(list, x) ==
  /\ \A b \in DOMAIN list : OnceIn(list[b], x)
  /\ \A a, b \in DOMAIN list : x \in Range(list[a]) /\ x \in Range(list[b]) => a = b

LEMMA FlattenOnce ==
  ASSUME NEW S, NEW list \in Seq(Seq(S)), NEW x
  PROVE  OnceIn(FlattenSeq(list), x) <=> PlacedOnce(list, x)
<1> DEFINE N == Len(list)
           Upto(n) == UNION {Range(list[b]) : b \in 1..n}
           Placed(n) == /\ \A b \in 1..n : OnceIn(list[b], x)
                        /\ \A a, b \in 1..n : x \in Range(list[a]) /\ x \in Range(list[b]) => a = b
<1>1. PICK h : Flattens(list, h, S) /\ FlattenSeq(list) = h[N]
  BY FlattenBy
<1>2. N \in Nat /\ DOMAIN list = 1..N /\ h \in [0..N -> Seq(S)] /\ h[0] = <<>>
  BY <1>1, FlattenStep DEF Flattens
<1>3. \A n \in 0..N : n + 1 \in 0..N =>
        /\ n \in Nat /\ n + 1 \in 1..N /\ h[n] \in Seq(S) /\ list[n + 1] \in Seq(S)
        /\ h[n + 1] = h[n] \o list[n + 1]
  BY <1>1, FlattenStep
<1> HIDE DEF N
<1> DEFINE G == {n \in 0..N : Range(h[n]) = Upto(n) /\ (OnceIn(h[n], x) <=> Placed(n))}
<1>4. 0 \in G
  <2>1. 0 \in 0..N /\ Range(h[0]) = {} /\ OnceIn(h[0], x)
    BY <1>2 DEF Range, OnceIn
  <2>2. Upto(0) = {} /\ Placed(0)
    OBVIOUS
  <2> HIDE DEF Upto, Placed
  <2>3. QED BY <2>1, <2>2
<1>5. ASSUME NEW n \in G, n + 1 \in 0..N PROVE n + 1 \in G
  <2>a. n \in 0..N
    BY <1>5
  <2>b. h[n] \in Seq(S) /\ list[n + 1] \in Seq(S) /\ h[n + 1] = h[n] \o list[n + 1]
    BY <1>3, <1>5, <2>a
  <2>1. Range(h[n + 1]) = Range(h[n]) \cup Range(list[n + 1])
    BY <2>b, RangeConcatenation
  <2>0. 1..(n + 1) = (1..n) \cup {n + 1} /\ n + 1 \notin 1..n
    BY <1>3, <1>5
  <2>2. Upto(n + 1) = Upto(n) \cup Range(list[n + 1])
    BY <2>0
  <2>3. OnceIn(h[n + 1], x) <=>
          OnceIn(h[n], x) /\ OnceIn(list[n + 1], x) /\ ~(x \in Range(h[n]) /\ x \in Range(list[n + 1]))
    BY <2>b, OnceConcat
  <2>4. x \in Upto(n) <=> \E b \in 1..n : x \in Range(list[b])
    OBVIOUS
  <2>5. Placed(n + 1) <=>
          Placed(n) /\ OnceIn(list[n + 1], x) /\ ~(x \in Upto(n) /\ x \in Range(list[n + 1]))
    <3>1. ASSUME Placed(n + 1)
          PROVE  Placed(n) /\ OnceIn(list[n + 1], x) /\ ~(x \in Upto(n) /\ x \in Range(list[n + 1]))
      <4> HIDE DEF Upto
      <4>1. QED BY <2>0, <2>4, <3>1
    <3>2. ASSUME Placed(n), OnceIn(list[n + 1], x), ~(x \in Upto(n) /\ x \in Range(list[n + 1]))
          PROVE  Placed(n + 1)
      <4> HIDE DEF Upto
      <4>1. QED BY <2>0, <2>4, <3>2
    <3>3. QED BY <3>1, <3>2
  <2> HIDE DEF Upto, Placed
  <2>6. QED BY <1>5, <2>1, <2>2, <2>3, <2>5
<1>6. G \in SUBSET (0..N) /\ N \in 0..N
  BY <1>2
<1>7. N \in G
  <2> HIDE DEF G
  <2>1. QED BY <1>2, <1>4, <1>5, <1>6, AllUpTo
<1>8. OnceIn(h[N], x) <=> Placed(N)
  <2> HIDE DEF Upto, Placed
  <2>1. QED BY <1>7
<1>9. QED BY <1>1, <1>2, <1>8 DEF PlacedOnce

\* Named, so that the provers rewrite nothing with it but what they are told to.
Associates(a, b, c) == (a \o b) \o c = a \o (b \o c)

LEMMA Associativity ==
  ASSUME NEW S, NEW a \in Seq(S), NEW b \in Seq(S), NEW c \in Seq(S)
  PROVE  Associates(a, b, c)
BY ConcatAssociative DEF Associates

LEMMA FlattenConcat ==
  ASSUME NEW S, NEW list \in Seq(Seq(S)), NEW more \in Seq(Seq(S))
  PROVE  FlattenSeq(list \o more) = FlattenSeq(list) \o FlattenSeq(more)
<1> DEFINE L == Len(list)
           M == Len(more)
           both == list \o more
<1>1. PICK g : Flattens(list, g, S) /\ FlattenSeq(list) = g[L]
  BY FlattenBy
<1>2. PICK h : Flattens(more, h, S) /\ FlattenSeq(more) = h[M]
  BY FlattenBy
<1>3. /\ L \in Nat /\ M \in Nat /\ both \in Seq(Seq(S)) /\ Len(both) = L + M
      /\ \A i \in 1..(L + M) : both[i] = IF i <= L THEN list[i] ELSE more[i - L]
  BY ConcatProperties, LenProperties
<1>4. (\A n \in 1..L : list[n] \in Seq(S)) /\ (\A n \in 1..M : more[n] \in Seq(S))
  BY LenProperties
<1>5. g \in [0..L -> Seq(S)] /\ \A n \in 1..L : g[n] = g[n - 1] \o list[n]
  BY <1>1 DEF Flattens
<1>6. h \in [0..M -> Seq(S)] /\ h[0] = <<>> /\ \A n \in 1..M : h[n] = h[n - 1] \o more[n]
  BY <1>2 DEF Flattens
<1>7. g[0] = <<>>
  BY <1>1 DEF Flattens
<1> DEFINE k == [n \in 0..(L + M) |-> IF n <= L THEN g[n] ELSE g[L] \o h[n - L]]
<1> HIDE DEF L, M, both
<1>8. k \in [0..(L + M) -> Seq(S)]
  <2> SUFFICES ASSUME NEW n \in 0..(L + M) PROVE k[n] \in Seq(S)
    OBVIOUS
  <2>1. CASE n <= L
    <3>1. n \in 0..L
      BY <1>3, <2>1
    <3>2. QED BY <1>5, <2>1, <3>1
  <2>2. CASE ~(n <= L)
    <3>1. n - L \in 0..M /\ L \in 0..L
      BY <1>3, <2>2
    <3>2. g[L] \in Seq(S) /\ h[n - L] \in Seq(S)
      BY <1>5, <1>6, <3>1
    <3>3. QED BY <2>2, <3>2, ConcatProperties
  <2>3. QED BY <2>1, <2>2
<1>9. k[0] = <<>>
  BY <1>3, <1>7
<1>10. ASSUME NEW n \in 1..(L + M) PROVE k[n] = k[n - 1] \o both[n]
  <2>1. CASE n <= L
    <3>1. n \in 1..L /\ n - 1 <= L /\ n - 1 \in 0..(L + M) /\ n \in 0..(L + M)
      BY <1>3, <2>1
    <3>2. k[n] = g[n] /\ k[n - 1] = g[n - 1] /\ both[n] = list[n]
      BY <1>3, <2>1, <3>1
    <3>3. QED BY <1>5, <3>1, <3>2
  <2>2. CASE ~(n <= L)
    <3>1. /\ n - L \in 1..M /\ (n - L) - 1 \in 0..M /\ (n - 1) - L = (n - L) - 1 /\ L \in 0..L
          /\ n \in 0..(L + M) /\ n - 1 \in 0..(L + M)
      BY <1>3, <2>2
    <3>2. both[n] = more[n - L] /\ more[n - L] \in Seq(S) /\ h[n - L] = h[(n - L) - 1] \o more[n - L]
      BY <1>3, <1>4, <1>6, <2>2, <3>1
    <3>3. g[L] \in Seq(S) /\ h[(n - L) - 1] \in Seq(S)
      BY <1>5, <1>6, <3>1
    <3>4. k[n] = g[L] \o h[n - L]
      BY <2>2, <3>1
    <3>5. k[n - 1] = g[L] \o h[(n - L) - 1]
      <4>1. CASE n - 1 <= L
        <5>1. n - 1 = L /\ (n - L) - 1 = 0
          BY <1>3, <2>2, <4>1
        <5>2. k[n - 1] = g[L]
          BY <3>1, <4>1, <5>1
        <5>3. g[L] \o h[0] = g[L]
          BY <1>6, <3>3, ConcatEmptySeq
        <5>4. QED BY <5>1, <5>2, <5>3
      <4>2. CASE ~(n - 1 <= L)
        BY <3>1, <4>2
      <4>3. QED BY <4>1, <4>2
    <3> HIDE DEF k
    <3>6. (g[L] \o h[(n - L) - 1]) \o more[n - L] = g[L] \o (h[(n - L) - 1] \o more[n - L])
      <4>1. Associates(g[L], h[(n - L) - 1], more[n - L])
        BY <3>2, <3>3, Associativity
      <4>2. QED BY <4>1 DEF Associates
    <3>7. QED BY <3>2, <3>4, <3>5, <3>6
  <2>3. QED BY <2>1, <2>2
<1>11. Flattens(both, k, S)
  <2> HIDE DEF k
  <2>1. QED BY <1>3, <1>8, <1>9, <1>10 DEF Flattens
<1>12. FlattenSeq(both) = k[L + M]
  <2> HIDE DEF k
  <2>1. QED BY <1>3, <1>11, FlattenIs
<1>13. k[L + M] = g[L] \o h[M]
  <2>1. CASE M = 0
    <3>1. k[L + M] = g[L] /\ L \in 0..L
      BY <1>3, <2>1
    <3>2. g[L] \in Seq(S)
      BY <1>5, <3>1
    <3>3. QED BY <1>6, <2>1, <3>1, <3>2, ConcatEmptySeq
  <2>2. CASE M # 0
    <3>1. ~(L + M <= L) /\ (L + M) - L = M /\ L + M \in 0..(L + M)
      BY <1>3, <2>2
    <3>2. QED BY <3>1
  <2>3. QED BY <2>1, <2>2
<1>14. FlattenSeq(list) = g[L] /\ FlattenSeq(more) = h[M]
  BY <1>1, <1>2 DEF L, M
<1> HIDE DEF k
<1>15. QED BY <1>12, <1>13, <1>14 DEF both

LEMMA FlattenNone == FlattenSeq(<<>>) = <<>>
BY DEF FlattenSeq

LEMMA FlattenOne ==
  ASSUME NEW S, NEW s \in Seq(S)
  PROVE  <<s>> \in Seq(Seq(S)) /\ FlattenSeq(<<s>>) = s
<1> DEFINE list == <<s>>
           h == [n \in 0..1 |-> IF n = 0 THEN <<>> ELSE s]
<1>1. list \in Seq(Seq(S)) /\ Len(list) = 1 /\ list[1] = s
  OBVIOUS
<1>2. <<>> \in Seq(S) /\ <<>> \o s = s
  BY ConcatEmptySeq
<1>3. h \in [0..1 -> Seq(S)] /\ h[0] = <<>> /\ h[1] = s
  BY <1>2
<1> HIDE DEF list, h
<1>4. \A n \in 1..1 : h[n] = h[n - 1] \o list[n]
  <2>1. h[1] = h[0] \o list[1] /\ 1 - 1 = 0
    BY <1>1, <1>2, <1>3
  <2>2. \A n \in 1..1 : n = 1
    OBVIOUS
  <2>3. QED BY <2>1, <2>2
<1>5. Flattens(list, h, S)
  BY <1>1, <1>3, <1>4 DEF Flattens
<1>6. FlattenSeq(list) = s
  BY <1>1, <1>3, <1>5, FlattenIs
<1>7. QED BY <1>1, <1>6 DEF list

\* Pieces of the sequences of a list hold what the sequences did, in their order.
LEMMA FlattenPieces ==
  ASSUME NEW S, NEW list \in Seq(Seq(S)), NEW pieces \in Seq(Seq(Seq(S))),
         Len(pieces) = Len(list), \A n \in 1..Len(list) : FlattenSeq(pieces[n]) = list[n]
  PROVE  FlattenSeq(pieces) \in Seq(Seq(S)) /\ FlattenSeq(FlattenSeq(pieces)) = FlattenSeq(list)
<1> DEFINE N == Len(list)
           SS == Seq(S)
<1>1. PICK h : Flattens(pieces, h, SS) /\ FlattenSeq(pieces) = h[N]
  BY FlattenBy
<1>2. N \in Nat /\ h \in [0..N -> Seq(SS)] /\ h[0] = <<>> /\ \A n \in 1..N : h[n] = h[n - 1] \o pieces[n]
  BY <1>1, LenProperties DEF Flattens
<1>3. \A n \in 1..N : list[n] \in SS /\ pieces[n] \in Seq(SS)
  BY LenProperties
<1> DEFINE f == [n \in 0..N |-> FlattenSeq(h[n])]
<1> HIDE DEF N
<1>4. f \in [0..N -> SS]
  <2>1. \A n \in 0..N : FlattenSeq(h[n]) \in SS
    BY <1>2, FlattenHolds
  <2>2. QED BY <2>1
<1>5. f[0] = <<>>
  BY <1>2, FlattenNone
<1>6. ASSUME NEW n \in 1..N PROVE f[n] = f[n - 1] \o list[n]
  <2>1. n - 1 \in 0..N /\ n \in 0..N
    BY <1>2
  <2>2. h[n] = h[n - 1] \o pieces[n] /\ h[n - 1] \in Seq(SS) /\ pieces[n] \in Seq(SS)
    BY <1>2, <1>3, <2>1
  <2>3. FlattenSeq(h[n]) = FlattenSeq(h[n - 1]) \o FlattenSeq(pieces[n])
    BY <2>2, FlattenConcat
  <2>4. FlattenSeq(pieces[n]) = list[n]
    BY DEF N
  <2>5. QED BY <2>1, <2>3, <2>4
<1> HIDE DEF f
<1>7. Flattens(list, f, S)
  BY <1>4, <1>5, <1>6 DEF Flattens, N
<1>8. FlattenSeq(list) = f[N]
  BY <1>7, FlattenIs DEF N
<1>9. N \in 0..N
  BY <1>2
<1>10. QED BY <1>1, <1>2, <1>8, <1>9 DEF f

\* A sequence cut in order is put together again.
LEMMA FlattenCuts ==
  ASSUME NEW S, NEW s \in Seq(S), NEW list \in Seq(Seq(S)), NEW cut \in [0..Len(list) -> 0..Len(s)],
         cut[0] = 0, cut[Len(list)] = Len(s),
         \A n \in 1..Len(list) : cut[n - 1] <= cut[n] /\ list[n] = SubSeq(s, cut[n - 1] + 1, cut[n])
  PROVE  FlattenSeq(list) = s
<1> DEFINE N == Len(list)
           h == [n \in 0..N |-> SubSeq(s, 1, cut[n])]
<1>1. N \in Nat /\ Len(s) \in Nat /\ s \in [1..Len(s) -> S]
  BY LenProperties
<1>2. h \in [0..N -> Seq(S)]
  <2> SUFFICES ASSUME NEW n \in 0..N PROVE SubSeq(s, 1, cut[n]) \in Seq(S)
    OBVIOUS
  <2>1. cut[n] \in 0..Len(s)
    OBVIOUS
  <2>2. cut[n] \in Int /\ \A i \in 1..cut[n] : s[i] \in S
    BY <1>1, <2>1
  <2>3. QED BY <2>2, SubSeqProperties
<1>3. h[0] = <<>>
  <2>1. SubSeq(s, 1, 0) = <<>>
    BY SubSeqEmpty
  <2>2. 0 \in 0..N
    BY <1>1
  <2>3. QED BY <2>1, <2>2
<1>4. ASSUME NEW n \in 1..N PROVE h[n] = h[n - 1] \o list[n]
  <2>1. n - 1 \in 0..N /\ n \in 0..N
    BY <1>1
  <2>2. cut[n - 1] \in 0..Len(s) /\ cut[n] \in 0..Len(s) /\ cut[n - 1] <= cut[n]
    BY <2>1
  <2>3. PICK a, b : a = cut[n - 1] /\ b = cut[n]
    OBVIOUS
  <2>4. 1 \in 1..(Len(s) + 1) /\ a \in (1 - 1)..Len(s) /\ b \in a..Len(s)
    BY <1>1, <2>2, <2>3
  <2>5. SubSeq(s, 1, a) \o SubSeq(s, a + 1, b) = SubSeq(s, 1, b)
    BY <2>4, ConcatAdjacentSubSeq
  <2>6. QED BY <2>1, <2>3, <2>5
<1>5. Flattens(list, h, S)
  <2> HIDE DEF h
  <2>1. QED BY <1>2, <1>3, <1>4 DEF Flattens
<1>6. FlattenSeq(list) = h[N]
  <2> HIDE DEF h
  <2>1. QED BY <1>5, FlattenIs
<1>7. h[N] = s
  <2>1. N \in 0..N
    BY <1>1
  <2>2. QED BY <2>1, SubSeqFull
<1>8. QED BY <1>6, <1>7
================================================================================
