------------------------------ MODULE ReviewProofs ------------------------------
(***************************************************************************)
(* Both ends of a run, and what follows it.  For every set of files and    *)
(* findings, every answer of the verifiers and the judge, every price of a *)
(* call: the outcome is earned, and what is paid beyond the limit is       *)
(* bounded (CheckStage).  For every set of findings, number of runs and    *)
(* number of attempts: what publishing promises (Delivery).  For every     *)
(* change, every answer of the grouping model, every earlier run and every *)
(* limit: the bundles hold the files in scope (Planning).                  *)
(***************************************************************************)
EXTENDS MCReview, DataFacts

-----------------------------------------------------------------------------
(* What the calls can cost *)

\* A call is sent while something is left of the limit, so the calls in flight
\* cannot take it further than each of them can cost.  Until the judge has
\* ended all that is paid is charged, and it is asked on its own.
InFlight == Cardinality(asked)
PaidInv ==
  /\ phase \in {"filtered", "settings", "verify", "judge", "judging", "report", "done"}
  /\ spent \in Nat /\ paid \in Nat
  /\ IsFiniteSet(asked) /\ InFlight <= Concurrency
  /\ phase # "verify" => asked = {}
  /\ phase \notin {"report", "done"} =>
       /\ paid = spent
       /\ \/ asked = {} /\ spent = Planned
          \/ spent + InFlight * MaxCall < MaxCost + Concurrency * MaxCall
  /\ phase = "judging" => MayCall
  /\ phase \in {"report", "done"} => OvershootBounded

-----------------------------------------------------------------------------
\* Another call adds what it may cost, and one that has ended takes it off.
LEMMA OneMore ==
  ASSUME NEW n \in Nat, NEW k \in Nat PROVE (n + 1) * k = n * k + k /\ n * k \in Nat
OBVIOUS

LEMMA NoMore ==
  ASSUME NEW n \in Nat, NEW m \in Nat, NEW k \in Nat, n <= m
  PROVE  n * k <= m * k /\ n * k \in Nat /\ m * k \in Nat
OBVIOUS

LEMMA PaidFirst == CheckInit => PaidInv
BY FS_EmptySet, CheckAssumption, SpendAssumption DEF CheckInit, SpendInit, PaidInv, InFlight

LEMMA PaidStep ==
  ASSUME PaidInv, [CheckNext]_stageVars
  PROVE  PaidInv'
<1> USE CheckAssumption, SpendAssumption DEF PaidInv
<1>1. ASSUME Filtered \/ StartVerify \/ VerifyNothing \/ VerifyEnds PROVE PaidInv'
  BY <1>1 DEF Filtered, StartVerify, VerifyNothing, VerifyEnds, spendVars, InFlight, OvershootBounded
<1>2. ASSUME TakeFile PROVE PaidInv'
  <2>1. CASE MayCall
    <3>1. /\ asked' = asked \cup {Head(todo)} /\ InFlight < Concurrency /\ IsFiniteSet(asked)
          /\ phase = "verify" /\ phase' = phase /\ spent' = spent /\ paid' = paid
      BY <1>2, <2>1 DEF TakeFile, InFlight, spendVars
    <3>2. IsFiniteSet(asked') /\ InFlight' \in Nat /\ InFlight' <= InFlight + 1 /\ InFlight \in Nat
      <4> HIDE DEF PaidInv
      <4> DEFINE f == Head(todo)
      <4>1. asked' = asked \cup {f} /\ IsFiniteSet(asked)
        BY <3>1
      <4> HIDE DEF f
      <4>2. /\ IsFiniteSet(asked \cup {f}) /\ Cardinality(asked) \in Nat
            /\ Cardinality(asked \cup {f}) = IF f \in asked THEN Cardinality(asked)
                                                ELSE Cardinality(asked) + 1
        BY <4>1, FS_AddElement, FS_CardinalityType
      <4>3. QED BY <4>1, <4>2 DEF InFlight
    <3>3. InFlight' <= Concurrency
      BY <3>1, <3>2
    <3>4. spent + InFlight' * MaxCall < MaxCost + Concurrency * MaxCall
      <4>1. InFlight' * MaxCall <= Concurrency * MaxCall /\ InFlight' * MaxCall \in Nat
        BY <3>2, <3>3, NoMore
      <4>2. spent < MaxCost
        BY <2>1 DEF MayCall, Over
      <4>3. Concurrency * MaxCall \in Nat
        OBVIOUS
      <4>4. QED BY <4>1, <4>2, <4>3
    <3>5. QED BY <3>1, <3>2, <3>3, <3>4
  <2>2. CASE ~MayCall
    <3>1. /\ phase = "verify" /\ phase' = phase /\ asked' = asked /\ InFlight' = InFlight
          /\ spent' = spent /\ paid' = paid
      BY <1>2, <2>2 DEF TakeFile, spendVars, InFlight
    <3>2. QED BY <3>1
  <2>3. QED BY <2>1, <2>2
<1>3. ASSUME NEW f \in CheckFiles, NEW cost \in 0..MaxCall, Verified(f, cost) PROVE PaidInv'
  <2>1. /\ f \in asked /\ asked' = asked \ {f} /\ phase' = phase
        /\ spent' = spent + cost /\ paid' = paid + cost /\ phase = "verify"
    BY <1>3 DEF Verified, Charged, Charge
  <2>2. IsFiniteSet(asked') /\ InFlight' = InFlight - 1 /\ InFlight \in Nat \ {0}
    BY <2>1, FS_RemoveElement, FS_CardinalityType, FS_EmptySet DEF InFlight
  <2>3. InFlight * MaxCall = InFlight' * MaxCall + MaxCall /\ InFlight' * MaxCall \in Nat
    <3>1. InFlight' \in Nat /\ InFlight = InFlight' + 1
      BY <2>2
    <3>2. (InFlight' + 1) * MaxCall = InFlight' * MaxCall + MaxCall /\ InFlight' * MaxCall \in Nat
      BY <3>1, OneMore
    <3>3. QED BY <3>1, <3>2
  <2>4. spent + InFlight * MaxCall < MaxCost + Concurrency * MaxCall
    BY <2>1
  <2>5. Concurrency * MaxCall \in Nat
    OBVIOUS
  <2>6. spent' + InFlight' * MaxCall < MaxCost + Concurrency * MaxCall
    BY <2>1, <2>3, <2>4, <2>5
  <2>7. QED BY <2>1, <2>2, <2>6
<1>4. ASSUME JudgeNothing PROVE PaidInv'
  <2>1. /\ phase = "judge" /\ phase' = "report" /\ asked' = asked /\ InFlight' = InFlight
        /\ asked = {} /\ spent' = spent /\ paid' = paid /\ paid = spent
    BY <1>4 DEF JudgeNothing, spendVars, InFlight
  <2>2. InFlight = 0 /\ 0 * MaxCall = 0 /\ Concurrency * MaxCall \in Nat
    BY <2>1, FS_EmptySet DEF InFlight
  <2>3. OvershootBounded'
    BY <2>1, <2>2 DEF OvershootBounded
  <2>4. QED BY <2>1, <2>3
<1>5. ASSUME AskJudge PROVE PaidInv'
  <2>1. /\ phase = "judge" /\ phase' = "judging" /\ asked' = asked /\ InFlight' = InFlight
        /\ spent' = spent /\ paid' = paid /\ MayCall /\ MayCall'
    BY <1>5 DEF AskJudge, spendVars, InFlight, MayCall, Over
  <2>2. QED BY <2>1
<1>6. ASSUME NEW cost \in 0..MaxCall, JudgeEnds(cost) PROVE PaidInv'
  <2>1. /\ phase = "judging" /\ phase' = "report" /\ asked' = asked /\ InFlight' = InFlight
        /\ spent' = spent /\ paid' = paid + cost /\ paid = spent
    BY <1>6 DEF JudgeEnds, spendVars, InFlight
  <2>2. spent < MaxCost
    BY <2>1 DEF MayCall, Over
  <2>3. MaxCall <= Concurrency * MaxCall /\ Concurrency * MaxCall \in Nat
    <3>1. 1 * MaxCall <= Concurrency * MaxCall /\ 1 * MaxCall = MaxCall /\ Concurrency * MaxCall \in Nat
      BY NoMore
    <3>2. QED BY <3>1
  <2>4. OvershootBounded'
    BY <2>1, <2>2, <2>3 DEF OvershootBounded
  <2>5. QED BY <2>1, <2>4
<1>7. ASSUME Report \/ UNCHANGED stageVars PROVE PaidInv'
  <2>1. /\ asked' = asked /\ InFlight' = InFlight /\ spent' = spent /\ paid' = paid
        /\ phase' = phase \/ (phase = "report" /\ phase' = "done")
    BY <1>7 DEF Report, stageVars, checkVars, spendVars, InFlight
  <2>2. OvershootBounded => OvershootBounded'
    BY <2>1 DEF OvershootBounded
  <2>3. MayCall => MayCall'
    BY <2>1 DEF MayCall, Over
  <2>4. QED BY <2>1, <2>2, <2>3
<1>8. QED
  BY <1>1, <1>2, <1>3, <1>4, <1>5, <1>6, <1>7 DEF CheckNext

\* Files in flight when the limit runs out are all that a run pays beyond its
\* limit (verify.ts asks before each file is sent, check-stage.ts before the
\* judge is), whatever the files and their number.
THEOREM OvershootBoundedAlways == CheckSpec => []OvershootBounded
<1>1. PaidInv => OvershootBounded
  <2> SUFFICES ASSUME PaidInv, phase \notin {"report", "done"} PROVE OvershootBounded
    BY DEF PaidInv
  <2>1. CASE asked = {} /\ spent = Planned
    BY <2>1 DEF PaidInv, OvershootBounded
  <2>2. CASE spent + InFlight * MaxCall < MaxCost + Concurrency * MaxCall
    <3>1. InFlight * MaxCall \in Nat /\ Concurrency * MaxCall \in Nat /\ MaxCost \in Nat
      BY FS_CardinalityType, NoMore, CheckAssumption, SpendAssumption DEF PaidInv, InFlight
    <3>2. QED BY <2>2, <3>1 DEF PaidInv, OvershootBounded
  <2>3. QED BY <2>1, <2>2 DEF PaidInv
<1>2. QED
  BY PaidFirst, PaidStep, <1>1, PTL DEF CheckSpec

-----------------------------------------------------------------------------
(* What a run's outcome rests on *)

Results ==
  [verdict : Verdicts \cup {"none"}, unverified : Nat, exit : Exits \cup {"none"}, override : BOOLEAN]

\* Each finding Verify was to check and could not is kept as unchecked, with its
\* severity; the result counts those of them that are critical, and its verdict
\* is that of the findings.
OutcomeInv ==
  /\ phase \in {"filtered", "settings", "verify", "judge", "judging", "report", "done"}
  /\ todo \in Seq(CheckFiles) /\ asked \subseteq CheckFiles
  /\ severity \in [Findings -> Levels]
  /\ kept \in Seq(KeptFindings) /\ missed \subseteq Findings
  /\ phase = "filtered" => missed = {} /\ kept = <<>>
  /\ phase \notin {"verify"} => asked = {}
  /\ \A id \in missed : Kept(id, "unchecked") \in Range(kept)
  /\ result \in Results
  /\ phase \notin {"report", "done"} => result = NoResult
  /\ phase \in {"report", "done"} => result.unverified = UnverifiedCriticals
  /\ phase = "report" => result.exit = "none"
  /\ VerdictFollowsProof /\ PassMeansChecked

-----------------------------------------------------------------------------
(* What Verify hands to the judge *)

LEMMA FindingsAre ==
  /\ \A f \in CheckFiles : FindingsOf[f] \in Nat /\ \A i \in 1..FindingsOf[f] : <<f, i>> \in Findings
  /\ \A id \in Findings : \E f \in CheckFiles : \E i \in 1..FindingsOf[f] : id = <<f, i>>
BY CheckAssumption DEF Findings

LEMMA KeptAre ==
  ASSUME severity \in [Findings -> Levels], NEW id \in Findings, NEW v \in Verifications
  PROVE  Kept(id, v) \in KeptFindings
BY DEF Kept, KeptFindings

LEMMA InFileIs ==
  ASSUME NEW f \in CheckFiles
  PROVE  /\ InFile(f) \in Seq(Findings)
         /\ Range(InFile(f)) = {<<f, i>> : i \in 1..FindingsOf[f]}
<1>1. FindingsOf[f] \in Nat /\ \A i \in 1..FindingsOf[f] : <<f, i>> \in Findings
  BY FindingsAre
<1>2. InFile(f) \in [1..FindingsOf[f] -> Findings] /\ \A i \in 1..FindingsOf[f] : InFile(f)[i] = <<f, i>>
  BY <1>1 DEF InFile
<1>3. InFile(f) \in Seq(Findings) /\ DOMAIN InFile(f) = 1..FindingsOf[f]
  BY <1>1, <1>2, IsASeq
<1>4. QED BY <1>2, <1>3 DEF Range

LEMMA UncheckedIs ==
  ASSUME severity \in [Findings -> Levels], NEW ids \in Seq(Findings)
  PROVE  /\ Unchecked(ids) \in Seq(KeptFindings)
         /\ \A id \in Range(ids) : Kept(id, "unchecked") \in Range(Unchecked(ids))
<1>1. Len(ids) \in Nat /\ DOMAIN ids = 1..Len(ids) /\ \A i \in 1..Len(ids) : ids[i] \in Findings
  OBVIOUS
<1>2. "unchecked" \in Verifications
  BY DEF Verifications
<1>3. /\ DOMAIN Unchecked(ids) = 1..Len(ids)
      /\ \A i \in 1..Len(ids) :
           Unchecked(ids)[i] = Kept(ids[i], "unchecked") /\ Unchecked(ids)[i] \in KeptFindings
  BY <1>1, <1>2, KeptAre DEF Unchecked
<1>4. Unchecked(ids) = [i \in 1..Len(ids) |-> Unchecked(ids)[i]]
  BY <1>1 DEF Unchecked
<1>5. Unchecked(ids) \in Seq(KeptFindings)
  BY <1>1, <1>3, <1>4, IsASeq
<1>6. QED BY <1>1, <1>3, <1>5 DEF Range

OfFirst(f, given, g) ==
  g = [n \in 0..FindingsOf[f] |->
         IF n = 0 THEN <<>>
         ELSE IF given[n] = "refuted" THEN g[n - 1]
         ELSE Append(g[n - 1], Kept(<<f, n>>, given[n]))]

\* What Verify did not refute is kept, each finding with what was concluded.
LEMMA UnrefutedIs ==
  ASSUME severity \in [Findings -> Levels], NEW f \in CheckFiles, NEW given \in VerifyAnswers(f)
  PROVE  /\ Unrefuted(f, given) \in Seq(KeptFindings)
         /\ \A n \in 1..FindingsOf[f] :
              given[n] # "refuted" => Kept(<<f, n>>, given[n]) \in Range(Unrefuted(f, given))
<1> DEFINE g == CHOOSE h : OfFirst(f, given, h)
           N == FindingsOf[f]
           KF == Seq(KeptFindings)
           step == [p \in (1..N) \X KF |->
                      IF given[p[1]] = "refuted" THEN p[2]
                      ELSE Append(p[2], Kept(<<f, p[1]>>, given[p[1]]))]
<1>1. Unrefuted(f, given) = g[N]
  BY DEF Unrefuted, OfFirst
<1>2. /\ N \in Nat /\ \A n \in 1..N : <<f, n>> \in Findings
      /\ \A n \in 1..N : given[n] \in Verifications \/ given[n] = "refuted"
  BY FindingsAre DEF VerifyAnswers
<1>3. \A n \in 1..N : given[n] # "refuted" => Kept(<<f, n>>, given[n]) \in KeptFindings
  BY <1>2, KeptAre
<1>4. \A n \in 1..N, s \in KF :
        /\ step[<<n, s>>] = IF given[n] = "refuted" THEN s ELSE Append(s, Kept(<<f, n>>, given[n]))
        /\ step[<<n, s>>] \in KF
  BY <1>3, AppendProperties
<1>5. step \in [(1..N) \X KF -> KF]
  <2>1. \A p \in (1..N) \X KF : step[p] \in KF
    <3>1. \A p \in (1..N) \X KF : p = <<p[1], p[2]>> /\ p[1] \in 1..N /\ p[2] \in KF
      OBVIOUS
    <3> HIDE DEF step, KF
    <3>2. QED BY <1>4, <3>1
  <2>2. QED BY <2>1
<1>6. <<>> \in KF
  OBVIOUS
<1> HIDE DEF step, KF
<1>7. PICK h \in [0..N -> KF] : h[0] = <<>> /\ \A n \in 1..N : h[n] = step[<<n, h[n - 1]>>]
  <2> HIDE DEF N
  <2> PICK st : st = step
    OBVIOUS
  <2>1. N \in Nat /\ st \in [(1..N) \X KF -> KF] /\ <<>> \in KF
    BY <1>2, <1>5, <1>6
  <2>2. \E h \in [0..N -> KF] : h[0] = <<>> /\ \A n \in 1..N : h[n] = st[<<n, h[n - 1]>>]
    <3>1. \E h \in [0..N -> KF] : Recurs(h, N, <<>>, st)
      BY <2>1, Recursion
    <3>2. QED BY <3>1 DEF Recurs
  <2>3. QED BY <2>2
<1>8. OfFirst(f, given, h)
  <2>1. \A n \in 0..N : h[n] = IF n = 0 THEN <<>>
                               ELSE IF given[n] = "refuted" THEN h[n - 1]
                               ELSE Append(h[n - 1], Kept(<<f, n>>, given[n]))
    <3> SUFFICES ASSUME NEW n \in 0..N
                 PROVE  h[n] = IF n = 0 THEN <<>>
                               ELSE IF given[n] = "refuted" THEN h[n - 1]
                               ELSE Append(h[n - 1], Kept(<<f, n>>, given[n]))
      OBVIOUS
    <3>1. n # 0 => n \in 1..N /\ n - 1 \in 0..N
      BY <1>2
    <3>2. n # 0 => h[n - 1] \in KF
      BY <1>7, <3>1
    <3>3. QED BY <1>4, <1>7, <3>1, <3>2
  <2>2. h = [n \in 0..N |-> h[n]]
    BY <1>7
  <2>3. QED BY <2>1, <2>2 DEF OfFirst
<1>9. OfFirst(f, given, g)
  BY <1>8
<1> HIDE DEF g
<1> DEFINE T == {n \in 0..N : /\ g[n] \in KF
                              /\ \A m \in 1..n : given[m] # "refuted" =>
                                   Kept(<<f, m>>, given[m]) \in Range(g[n])}
<1>10. 0 \in T
  <2>1. g[0] = <<>>
    BY <1>2, <1>9 DEF OfFirst
  <2>2. QED BY <1>2, <1>6, <2>1
<1>11. ASSUME NEW n \in T, n + 1 \in 0..N PROVE n + 1 \in T
  <2>1. n \in Nat /\ n + 1 \in 1..N /\ g[n] \in KF /\ (n + 1) - 1 = n
    BY <1>11
  <2> DEFINE new == Kept(<<f, n + 1>>, given[n + 1])
  <2>2. g[n + 1] = IF given[n + 1] = "refuted" THEN g[n] ELSE Append(g[n], new)
    <3>1. n + 1 \in 0..N /\ n + 1 # 0
      BY <2>1
    <3>2. g[n + 1] = IF given[n + 1] = "refuted" THEN g[(n + 1) - 1]
                     ELSE Append(g[(n + 1) - 1], Kept(<<f, n + 1>>, given[n + 1]))
      BY <1>9, <3>1 DEF OfFirst
    <3>3. QED BY <2>1, <3>2
  <2>3. \A m \in 1..(n + 1) : m \in 1..n \/ m = n + 1
    BY <2>1
  <2>4. CASE given[n + 1] = "refuted"
    BY <2>1, <2>2, <2>3, <2>4
  <2>5. CASE given[n + 1] # "refuted"
    <3>1. new \in KeptFindings
      BY <1>3, <2>1, <2>5
    <3> HIDE DEF new
    <3>2. Append(g[n], new) \in KF /\ Range(g[n]) \cup {new} = Range(Append(g[n], new))
      <4>1. g[n] \in Seq(KeptFindings)
        BY <2>1 DEF KF
      <4>2. QED BY <3>1, <4>1, AppendsOne DEF KF
    <3>3. g[n + 1] \in KF /\ Range(g[n]) \cup {new} = Range(g[n + 1])
      BY <2>2, <2>5, <3>2
    <3>4. \A m \in 1..(n + 1) : given[m] # "refuted" => Kept(<<f, m>>, given[m]) \in Range(g[n + 1])
      BY <2>3, <3>3 DEF new
    <3>5. QED BY <1>11, <3>3, <3>4
  <2>6. QED BY <2>4, <2>5
<1> HIDE DEF T
<1>12. T = 0..N
  <2>1. T \in SUBSET (0..N)
    BY DEF T
  <2>2. QED BY <1>2, <1>10, <1>11, <2>1, AllUpTo
<1>13. N \in T
  BY <1>2, <1>12
<1>14. QED BY <1>1, <1>13 DEF T, KF

InFirst(g) ==
  g = [n \in 0..Len(Files) |-> IF n = 0 THEN <<>> ELSE g[n - 1] \o InFile(Files[n])]

LEMMA AllFindingsAre ==
  AllFindings \in Seq(Findings) /\ \A id \in Findings : id \in Range(AllFindings)
<1> DEFINE g == CHOOSE h : InFirst(h)
           N == Len(Files)
           FS == Seq(Findings)
           step == [p \in (1..N) \X FS |-> p[2] \o InFile(Files[p[1]])]
<1>1. AllFindings = g[N]
  BY DEF AllFindings, InFirst
<1>2. /\ N \in Nat /\ DOMAIN Files = 1..N /\ \A n \in 1..N : Files[n] \in CheckFiles
      /\ \A f \in CheckFiles : \E n \in 1..N : Files[n] = f
  BY CheckAssumption DEF CheckFiles, Range
<1>3. \A n \in 1..N, s \in FS :
        step[<<n, s>>] = s \o InFile(Files[n]) /\ step[<<n, s>>] \in FS
  BY <1>2, InFileIs, ConcatProperties
<1>4. step \in [(1..N) \X FS -> FS]
  <2>1. \A p \in (1..N) \X FS : step[p] \in FS
    <3>1. \A p \in (1..N) \X FS : p = <<p[1], p[2]>> /\ p[1] \in 1..N /\ p[2] \in FS
      OBVIOUS
    <3> HIDE DEF step, FS
    <3>2. QED BY <1>3, <3>1
  <2>2. QED BY <2>1
<1>5. <<>> \in FS
  OBVIOUS
<1> HIDE DEF step, FS
<1>6. PICK h \in [0..N -> FS] : h[0] = <<>> /\ \A n \in 1..N : h[n] = step[<<n, h[n - 1]>>]
  <2> HIDE DEF N
  <2> PICK st : st = step
    OBVIOUS
  <2>1. N \in Nat /\ st \in [(1..N) \X FS -> FS] /\ <<>> \in FS
    BY <1>2, <1>4, <1>5
  <2>2. \E h \in [0..N -> FS] : h[0] = <<>> /\ \A n \in 1..N : h[n] = st[<<n, h[n - 1]>>]
    <3>1. \E h \in [0..N -> FS] : Recurs(h, N, <<>>, st)
      BY <2>1, Recursion
    <3>2. QED BY <3>1 DEF Recurs
  <2>3. QED BY <2>2
<1>7. InFirst(h)
  <2>1. \A n \in 0..N : h[n] = IF n = 0 THEN <<>> ELSE h[n - 1] \o InFile(Files[n])
    <3> SUFFICES ASSUME NEW n \in 0..N
                 PROVE  h[n] = IF n = 0 THEN <<>> ELSE h[n - 1] \o InFile(Files[n])
      OBVIOUS
    <3>1. n # 0 => n \in 1..N /\ n - 1 \in 0..N
      BY <1>2
    <3>2. n # 0 => h[n - 1] \in FS
      BY <1>6, <3>1
    <3>3. QED BY <1>3, <1>6, <3>1, <3>2
  <2>2. h = [n \in 0..N |-> h[n]]
    BY <1>6
  <2>3. QED BY <2>1, <2>2 DEF InFirst
<1>8. InFirst(g)
  BY <1>7
<1> HIDE DEF g
<1> DEFINE T == {n \in 0..N : /\ g[n] \in FS
                              /\ \A m \in 1..n : Range(InFile(Files[m])) \subseteq Range(g[n])}
<1>9. 0 \in T
  <2>1. g[0] = <<>>
    BY <1>2, <1>8 DEF InFirst
  <2>2. QED BY <1>2, <1>5, <2>1
<1>10. ASSUME NEW n \in T, n + 1 \in 0..N PROVE n + 1 \in T
  <2>1. n \in Nat /\ n + 1 \in 1..N /\ g[n] \in FS /\ (n + 1) - 1 = n
    BY <1>10
  <2> DEFINE new == InFile(Files[n + 1])
  <2>2. g[n + 1] = g[n] \o new
    BY <1>8, <2>1 DEF InFirst
  <2>3. \A m \in 1..(n + 1) : m \in 1..n \/ m = n + 1
    BY <2>1
  <2>4. new \in FS
    BY <1>2, <2>1, InFileIs DEF FS
  <2>5. /\ g[n] \o new \in FS
        /\ Range(g[n]) \subseteq Range(g[n] \o new)
        /\ Range(new) \subseteq Range(g[n] \o new)
    <3> HIDE DEF new
    <3>1. QED BY <2>1, <2>4, Appends DEF FS
  <2>6. QED BY <1>10, <2>1, <2>2, <2>3, <2>5
<1> HIDE DEF T
<1>11. T = 0..N
  <2>1. T \in SUBSET (0..N)
    BY DEF T
  <2>2. QED BY <1>2, <1>9, <1>10, <2>1, AllUpTo
<1>12. N \in T
  BY <1>2, <1>11
<1>13. ASSUME NEW id \in Findings PROVE id \in Range(g[N])
  <2>1. PICK f \in CheckFiles : \E i \in 1..FindingsOf[f] : id = <<f, i>>
    BY FindingsAre
  <2>2. PICK n \in 1..N : Files[n] = f
    BY <1>2
  <2>3. id \in Range(InFile(Files[n]))
    BY <2>1, <2>2, InFileIs
  <2>4. QED BY <1>12, <2>3 DEF T
<1>14. QED BY <1>1, <1>12, <1>13 DEF T, FS

-----------------------------------------------------------------------------
(* What the judge leaves, and the verdict *)

\* A verdict blocks exactly when a confirmed critical finding is counted.
LEMMA VerdictIs ==
  ASSUME NEW counted
  PROVE  /\ Verdict(counted) \in Verdicts
         /\ Verdict(counted) = "significant_concerns" <=>
              \E c \in counted : c[2].severity = "critical" /\ c[2].verification = "confirmed"
<1> DEFINE critical == {c \in counted : c[2].severity = "critical"}
           warnings == {c \in counted : c[2].severity = "warning"}
           many == critical # {} \/ Cardinality(warnings) >= PatternWarnings
           blocks == \E c \in critical : c[2].verification = "confirmed"
           spares == \A c \in critical : c[2].verification # "confirmed"
<1>1. Verdict(counted) =
        CASE blocks -> "significant_concerns"
          [] spares /\ many -> "minor_issues"
          [] OTHER -> IF counted # {} THEN "approved_with_comments" ELSE "approved"
  BY DEF Verdict
<1>2. spares <=> ~blocks
  OBVIOUS
<1>3. blocks <=> \E c \in counted : c[2].severity = "critical" /\ c[2].verification = "confirmed"
  OBVIOUS
<1> HIDE DEF many, blocks, spares
<1>4. CASE blocks
  BY <1>1, <1>2, <1>3, <1>4 DEF Verdicts
<1>5. CASE ~blocks
  BY <1>1, <1>2, <1>3, <1>5 DEF Verdicts
<1>6. QED BY <1>4, <1>5

\* One group of duplicates leaves a protected finding, when there is one.
LEMMA MergeSpares ==
  ASSUME NEW group \in Seq(Nat), NEW removed, NEW i \in DOMAIN kept \ removed, Protected(kept[i])
  PROVE  \E j \in DOMAIN kept \ (removed \cup MergedBy(group, removed)) : Protected(kept[j])
<1> DEFINE members == {m \in Range(group) : m \in DOMAIN kept /\ m \notin removed}
           place(m) == CHOOSE n \in DOMAIN group : group[n] = m /\ \A k \in 1..(n - 1) : group[k] # m
           first == {m \in members : Protected(kept[m])}
           from == IF first = {} THEN members ELSE first
           keep == CHOOSE m \in from : \A n \in from : place(m) <= place(n)
<1>1. MergedBy(group, removed) = IF members = {} THEN {} ELSE members \ {keep}
  BY DEF MergedBy
<1>2. CASE first = {}
  <2>1. i \notin members
    BY <1>2
  <2>2. i \notin MergedBy(group, removed)
    <3> HIDE DEF members, keep
    <3>1. QED BY <1>1, <2>1
  <2>3. QED BY <2>2
<1>3. CASE first # {}
  <2>1. ASSUME NEW m \in members PROVE place(m) \in Nat
    <3> DEFINE T == {n \in DOMAIN group : group[n] = m}
    <3>1. DOMAIN group = 1..Len(group) /\ Len(group) \in Nat
      OBVIOUS
    <3>2. T \in SUBSET Nat /\ T # {}
      BY <2>1, <3>1 DEF Range
    <3>3. PICK n \in T : \A k \in T : n <= k
      BY <3>2, LeastNumber
    <3>4. n \in DOMAIN group /\ group[n] = m /\ \A k \in 1..(n - 1) : group[k] # m
      <4>1. n \in 1..Len(group) /\ group[n] = m
        BY <3>1
      <4>2. ASSUME NEW k \in 1..(n - 1), group[k] = m PROVE FALSE
        <5>1. k \in T /\ k < n
          BY <3>1, <4>1, <4>2
        <5>2. QED BY <3>1, <3>3, <4>1, <5>1
      <4>3. QED BY <3>1, <4>1, <4>2
    <3>5. place(m) \in DOMAIN group
      BY <3>4
    <3>6. QED BY <3>1, <3>5
  <2>2. from = first /\ first \subseteq members
    BY <1>3
  <2> DEFINE P == {place(m) : m \in first}
  <2>3. P \in SUBSET Nat /\ P # {}
    <3>1. \A m \in first : place(m) \in Nat
      BY <2>1, <2>2
    <3> HIDE DEF place, first
    <3>2. QED BY <1>3, <3>1
  <2>4. PICK p \in P : \A q \in P : p <= q
    <3> HIDE DEF P
    <3>1. QED BY <2>3, LeastNumber
  <2>5. \E m \in first : \A n \in first : place(m) <= place(n)
    <3> HIDE DEF place, first
    <3>1. QED BY <2>4
  <2>6. keep \in first
    <3> HIDE DEF place, first
    <3>1. QED BY <2>2, <2>5
  <2>7. keep \in DOMAIN kept \ removed /\ Protected(kept[keep])
    <3> HIDE DEF keep, place
    <3>1. QED BY <2>6
  <2>8. keep \notin MergedBy(group, removed)
    <3> HIDE DEF keep, members
    <3>1. QED BY <1>1
  <2>9. QED
    <3> HIDE DEF keep
    <3>1. QED BY <2>7, <2>8
<1>4. QED BY <1>2, <1>3

LEMMA MergedByIs ==
  ASSUME NEW group, NEW removed
  PROVE  MergedBy(group, removed) \subseteq DOMAIN kept
BY DEF MergedBy

ByFirst(duplicates, g) ==
  g = [n \in 0..Len(duplicates) |->
         IF n = 0 THEN {} ELSE g[n - 1] \cup MergedBy(duplicates[n], g[n - 1])]

\* All of them leave one, when there was one.
LEMMA MergesSpare ==
  ASSUME NEW duplicates \in Seq(Seq(Nat)), NEW i \in DOMAIN kept, Protected(kept[i])
  PROVE  \E j \in DOMAIN kept \ Merged(duplicates) : Protected(kept[j])
<1> DEFINE g == CHOOSE h : ByFirst(duplicates, h)
           N == Len(duplicates)
           K == SUBSET DOMAIN kept
           step == [p \in (1..N) \X K |-> p[2] \cup MergedBy(duplicates[p[1]], p[2])]
<1>1. Merged(duplicates) = g[N]
  BY DEF Merged, ByFirst
<1>2. N \in Nat /\ \A n \in 1..N : duplicates[n] \in Seq(Nat)
  OBVIOUS
<1>3. \A n \in 1..N, s \in K :
        step[<<n, s>>] = s \cup MergedBy(duplicates[n], s) /\ step[<<n, s>>] \in K
  BY MergedByIs
<1>4. step \in [(1..N) \X K -> K]
  <2>1. \A p \in (1..N) \X K : step[p] \in K
    <3>1. \A p \in (1..N) \X K : p = <<p[1], p[2]>> /\ p[1] \in 1..N /\ p[2] \in K
      OBVIOUS
    <3> HIDE DEF step, K
    <3>2. QED BY <1>3, <3>1
  <2>2. QED BY <2>1
<1>5. {} \in K
  OBVIOUS
<1> HIDE DEF step, K
<1>6. PICK h \in [0..N -> K] : h[0] = {} /\ \A n \in 1..N : h[n] = step[<<n, h[n - 1]>>]
  <2> HIDE DEF N
  <2> PICK st : st = step
    OBVIOUS
  <2> PICK k : k = K
    OBVIOUS
  <2>1. N \in Nat /\ st \in [(1..N) \X k -> k] /\ {} \in k
    BY <1>2, <1>4, <1>5
  <2>2. \E h \in [0..N -> k] : Recurs(h, N, {}, st)
    BY <2>1, Recursion
  <2>3. QED BY <2>2 DEF Recurs
<1>7. ByFirst(duplicates, h)
  <2>1. \A n \in 0..N : h[n] = IF n = 0 THEN {} ELSE h[n - 1] \cup MergedBy(duplicates[n], h[n - 1])
    <3> SUFFICES ASSUME NEW n \in 0..N
                 PROVE  h[n] = IF n = 0 THEN {} ELSE h[n - 1] \cup MergedBy(duplicates[n], h[n - 1])
      OBVIOUS
    <3>1. n # 0 => n \in 1..N /\ n - 1 \in 0..N
      BY <1>2
    <3>2. n # 0 => h[n - 1] \in K
      BY <1>6, <3>1
    <3>3. QED BY <1>3, <1>6, <3>1, <3>2
  <2>2. h = [n \in 0..N |-> h[n]]
    BY <1>6
  <2>3. QED BY <2>1, <2>2 DEF ByFirst
<1>8. ByFirst(duplicates, g)
  BY <1>7
<1> HIDE DEF g
<1> DEFINE T == {n \in 0..N : \E j \in DOMAIN kept \ g[n] : Protected(kept[j])}
<1>9. 0 \in T
  <2>1. g[0] = {}
    BY <1>2, <1>8 DEF ByFirst
  <2>2. QED BY <1>2, <2>1
<1>10. ASSUME NEW n \in T, n + 1 \in 0..N PROVE n + 1 \in T
  <2>1. n \in Nat /\ n + 1 \in 1..N /\ (n + 1) - 1 = n /\ n + 1 # 0
    BY <1>10
  <2>2. g[n + 1] = g[n] \cup MergedBy(duplicates[n + 1], g[n])
    <3>1. g[n + 1] = g[(n + 1) - 1] \cup MergedBy(duplicates[n + 1], g[(n + 1) - 1])
      BY <1>8, <1>10, <2>1 DEF ByFirst
    <3>2. QED BY <2>1, <3>1
  <2>3. PICK j \in DOMAIN kept \ g[n] : Protected(kept[j])
    OBVIOUS
  <2>4. duplicates[n + 1] \in Seq(Nat)
    BY <1>2, <2>1
  <2>5. \E k \in DOMAIN kept \ (g[n] \cup MergedBy(duplicates[n + 1], g[n])) : Protected(kept[k])
    BY <2>3, <2>4, MergeSpares
  <2>6. QED BY <1>10, <2>2, <2>5
<1> HIDE DEF T
<1>11. T = 0..N
  <2>1. T \in SUBSET (0..N)
    BY DEF T
  <2>2. QED BY <1>2, <1>9, <1>10, <2>1, AllUpTo
<1>12. N \in T
  BY <1>2, <1>11
<1>13. QED BY <1>1, <1>12 DEF T

\* What of the findings is left after the judge: each is one Verify kept, with
\* what Verify concluded; and a protected one is left as it was.
Spares(findings) ==
  /\ DOMAIN findings \subseteq DOMAIN kept
  /\ \A i \in DOMAIN findings : findings[i].verification = kept[i].verification
  /\ (\E i \in DOMAIN kept : Protected(kept[i])) =>
       \E i \in DOMAIN findings : findings[i] = kept[i] /\ Protected(kept[i])

LEMMA JudgeSpares ==
  ASSUME NEW given \in JudgeAnswers, NEW keepDropped \in BOOLEAN, kept \in Seq(KeptFindings)
  PROVE  Spares(Judged(given, keepDropped))
<1> DEFINE dropped == Dropped(given)
           left == DOMAIN kept \ (Merged(given.duplicates) \cup (IF keepDropped THEN {} ELSE dropped))
           j == Judged(given, keepDropped)
<1>1. /\ DOMAIN j = left
      /\ \A i \in left : j[i] = IF i \in dropped THEN [kept[i] EXCEPT !.low = TRUE]
                                ELSE Recalibrated(given, i)
  BY DEF Judged
<1>2. left \subseteq DOMAIN kept
  OBVIOUS
<1>3. ASSUME NEW i \in left
      PROVE  j[i].verification = kept[i].verification
  <2> PICK k : k = kept[i]
    OBVIOUS
  <2>1. k \in KeptFindings
    BY <1>2
  <2>2. [k EXCEPT !.low = TRUE].verification = k.verification
    BY <2>1 DEF KeptFindings
  <2>3. \A s : [k EXCEPT !.severity = s].verification = k.verification
    BY <2>1 DEF KeptFindings
  <2>4. Recalibrated(given, i).verification = k.verification
    BY <2>3 DEF Recalibrated
  <2> HIDE DEF j, left, dropped
  <2>5. QED BY <1>1, <2>2, <2>4
<1>4. ASSUME NEW i \in DOMAIN kept, Protected(kept[i])
      PROVE  \E n \in left : j[n] = kept[n] /\ Protected(kept[n])
  <2>1. given.duplicates \in Seq(Seq(Nat))
    BY CheckAssumption
  <2>2. PICK n \in DOMAIN kept \ Merged(given.duplicates) : Protected(kept[n])
    BY <1>4, <2>1, MergesSpare
  <2>3. n \notin dropped /\ n \in left /\ Recalibrated(given, n) = kept[n]
    BY <2>2 DEF Dropped, Recalibrated
  <2> HIDE DEF j, left, dropped
  <2>4. QED BY <1>1, <2>2, <2>3
<1> HIDE DEF left, dropped
<1>5. QED BY <1>1, <1>2, <1>3, <1>4 DEF Spares

\* No unchecked critical finding is counted when there is none.
LEMMA UnverifiedIs ==
  ASSUME kept \in Seq(KeptFindings)
  PROVE  /\ UnverifiedCriticals \in Nat
         /\ UnverifiedCriticals = 0 =>
              \A i \in DOMAIN kept :
                ~(kept[i].severity = "critical" /\ kept[i].verification = "unchecked" /\ kept[i].id \in missed)
<1> DEFINE S == {i \in DOMAIN kept :
    kept[i].severity = "critical" /\ kept[i].verification = "unchecked" /\ kept[i].id \in missed}
<1>1. UnverifiedCriticals = Cardinality(S)
  BY DEF UnverifiedCriticals
<1>2. IsFiniteSet(S)
  <2>1. DOMAIN kept = 1..Len(kept) /\ Len(kept) \in Nat
    OBVIOUS
  <2>2. IsFiniteSet(1..Len(kept)) /\ S \subseteq 1..Len(kept)
    BY <2>1, FS_Interval
  <2>3. QED BY <2>2, FS_Subset
<1>3. Cardinality(S) \in Nat /\ (Cardinality(S) = 0 => S = {})
  BY <1>2, FS_CardinalityType, FS_EmptySet
<1>4. QED BY <1>1, <1>3

-----------------------------------------------------------------------------
(* Each step keeps what the outcome rests on *)

LEMMA OutcomeFirst == CheckInit => OutcomeInv
<1> SUFFICES ASSUME CheckInit PROVE OutcomeInv
  OBVIOUS
<1>1. /\ phase = "filtered" /\ todo = Files /\ asked = {} /\ kept = <<>> /\ missed = {}
      /\ severity = [id \in Findings |-> "suggestion"] /\ result = NoResult
  BY DEF CheckInit
<1>2. severity \in [Findings -> Levels]
  BY <1>1 DEF Levels
<1>3. kept \in Seq(KeptFindings) /\ todo \in Seq(CheckFiles)
  BY <1>1, CheckAssumption
<1>4. result.verdict = "none" /\ result.exit = "none"
  BY <1>1 DEF NoResult
<1>5. VerdictFollowsProof /\ PassMeansChecked
  BY <1>4 DEF VerdictFollowsProof, PassMeansChecked
<1>6. result \in Results
  BY <1>1 DEF NoResult, Results
<1>7. QED BY <1>1, <1>2, <1>3, <1>5, <1>6 DEF OutcomeInv

\* Before the judge there is no result: findings are added, each as it was
\* concluded, and those it could not check as unchecked.
LEMMA VerifyAdds ==
  ASSUME OutcomeInv, NEW more, NEW ids,
         more \in Seq(KeptFindings), ids \subseteq Findings,
         \A id \in ids : Kept(id, "unchecked") \in Range(more),
         phase = "verify", phase' = "verify", kept' = kept \o more, missed' = missed \cup ids,
         UNCHANGED <<severity, result>>, todo' \in Seq(CheckFiles), asked' \subseteq CheckFiles
  PROVE  OutcomeInv'
<1>1. /\ kept \in Seq(KeptFindings) /\ missed \subseteq Findings /\ severity \in [Findings -> Levels]
      /\ result = NoResult /\ \A id \in missed : Kept(id, "unchecked") \in Range(kept)
  BY DEF OutcomeInv
<1>2. /\ kept' \in Seq(KeptFindings)
      /\ Range(kept) \subseteq Range(kept') /\ Range(more) \subseteq Range(kept')
  <2>1. /\ Range(kept) \subseteq Range(kept \o more)
        /\ Range(more) \subseteq Range(kept \o more)
        /\ kept \o more \in Seq(KeptFindings)
    BY <1>1, Appends, ConcatProperties
  <2>2. QED BY <2>1
<1>3. \A id, v : Kept(id, v)' = Kept(id, v)
  BY DEF Kept
<1>4. \A id \in missed' : Kept(id, "unchecked")' \in Range(kept)'
  BY <1>1, <1>2, <1>3
<1>5. VerdictFollowsProof' /\ PassMeansChecked'
  BY <1>1 DEF VerdictFollowsProof, PassMeansChecked, NoResult
<1>6. QED BY <1>1, <1>2, <1>4, <1>5 DEF OutcomeInv

LEMMA VerifySteps ==
  ASSUME OutcomeInv,
         TakeFile \/ \E f \in CheckFiles, cost \in 0..MaxCall : Verified(f, cost)
  PROVE  OutcomeInv'
<1>1. severity \in [Findings -> Levels] /\ todo \in Seq(CheckFiles) /\ asked \subseteq CheckFiles
  BY DEF OutcomeInv
<1>2. CASE TakeFile
  <2>1. /\ phase = "verify" /\ phase' = phase /\ todo # <<>> /\ todo' = Tail(todo)
        /\ UNCHANGED <<severity, result>>
    BY <1>2 DEF TakeFile
  <2> PICK f : f = Head(todo)
    OBVIOUS
  <2>2. f \in CheckFiles /\ todo' \in Seq(CheckFiles)
    BY <1>1, <2>1
  <2>3. CASE MayCall
    <3>1. asked' = asked \cup {f} /\ kept' = kept /\ missed' = missed
      BY <1>2, <2>3 DEF TakeFile
    <3>2. /\ <<>> \in Seq(KeptFindings) /\ kept' = kept \o <<>>
          /\ missed' = missed \cup {} /\ asked' \subseteq CheckFiles
      <4>1. kept \in Seq(KeptFindings)
        BY DEF OutcomeInv
      <4>2. kept \o <<>> = kept
        BY <4>1, ConcatEmptySeq
      <4>3. QED BY <1>1, <2>2, <3>1, <4>2
    <3> PICK more : more = <<>>
      OBVIOUS
    <3> PICK ids : ids = {}
      OBVIOUS
    <3>3. /\ more \in Seq(KeptFindings) /\ kept' = kept \o more /\ ids \subseteq Findings
          /\ missed' = missed \cup ids /\ \A id \in ids : Kept(id, "unchecked") \in Range(more)
      BY <3>2
    <3>4. QED BY <2>1, <2>2, <3>2, <3>3, VerifyAdds
  <2>4. CASE ~MayCall
    <3>1. /\ asked' = asked /\ kept' = kept \o Unchecked(InFile(f))
          /\ missed' = missed \cup Range(InFile(f))
      BY <1>2, <2>4 DEF TakeFile
    <3>2. InFile(f) \in Seq(Findings)
      BY <2>2, InFileIs
    <3>3. Range(InFile(f)) \subseteq Findings
      BY <3>2 DEF Range
    <3>4. /\ Unchecked(InFile(f)) \in Seq(KeptFindings)
          /\ \A id \in Range(InFile(f)) : Kept(id, "unchecked") \in Range(Unchecked(InFile(f)))
      BY <1>1, <3>2, UncheckedIs
    <3> PICK more : more = Unchecked(InFile(f))
      OBVIOUS
    <3>5. QED BY <1>1, <2>1, <2>2, <3>1, <3>3, <3>4, VerifyAdds
  <2>5. QED BY <2>3, <2>4
<1>3. ASSUME NEW f \in CheckFiles, NEW cost \in 0..MaxCall, Verified(f, cost)
      PROVE  OutcomeInv'
  <2>1. /\ f \in asked /\ asked' = asked \ {f}
        /\ UNCHANGED <<phase, todo, severity, result>>
    BY <1>3 DEF Verified
  <2>2. phase = "verify"
    BY <2>1 DEF OutcomeInv
  <2>3. PICK given \in VerifyAnswers(f) : Concludes(f, given)
    BY <1>3 DEF Verified
  <2> DEFINE ids == {<<f, i>> : i \in {j \in 1..FindingsOf[f] : given[j] = "unchecked"}}
  <2>4. kept' = kept \o Unrefuted(f, given) /\ missed' = missed \cup ids
    BY <2>3 DEF Concludes
  <2>5. /\ Unrefuted(f, given) \in Seq(KeptFindings)
        /\ \A n \in 1..FindingsOf[f] :
             given[n] # "refuted" => Kept(<<f, n>>, given[n]) \in Range(Unrefuted(f, given))
    BY <1>1, UnrefutedIs
  <2>6. ids \subseteq Findings /\ \A id \in ids : Kept(id, "unchecked") \in Range(Unrefuted(f, given))
    BY <2>5, FindingsAre
  <2> HIDE DEF ids
  <2> PICK more : more = Unrefuted(f, given)
    OBVIOUS
  <2>7. QED BY <1>1, <2>1, <2>2, <2>4, <2>5, <2>6, VerifyAdds
<1>4. QED BY <1>2, <1>3

\* A result is told of what was left, and of what could not be checked.
LEMMA GivesTruly ==
  ASSUME OutcomeInv, NEW findings, Spares(findings), Gives(findings),
         phase \in {"judge", "judging"}, phase' = "report",
         UNCHANGED <<todo, asked, severity, kept, missed, carried>>
  PROVE  OutcomeInv'
<1>1. /\ kept \in Seq(KeptFindings) /\ \A i \in DOMAIN kept : kept[i].low = FALSE
  <2>1. kept \in Seq(KeptFindings)
    BY DEF OutcomeInv
  <2>2. \A k \in KeptFindings : k.low = FALSE
    BY DEF KeptFindings
  <2>3. QED BY <2>1, <2>2
<1>2. /\ result'.verdict = Verdict(Counted(findings)) /\ result'.unverified = UnverifiedCriticals
      /\ result'.exit = "none" /\ result' \in Results
  <2>1. UnverifiedCriticals \in Nat
    BY <1>1, UnverifiedIs
  <2>2. \A s : Verdict(s) \in Verdicts
    BY VerdictIs
  <2>3. Verdict(Counted(findings)) \in Verdicts
    BY <2>2
  <2>4. QED BY <2>1, <2>3 DEF Gives, NoResult, Results
<1>3. VerdictFollowsProof'
  <2> DEFINE proven == {i \in DOMAIN kept : kept[i].verification = "confirmed"}
             open == {c \in carried : c.severity = "critical" /\ c.verification = "confirmed"}
             counted == Counted(findings)
  <2>1. ASSUME \E i \in proven : kept[i].severity = "critical"
        PROVE  \E c \in counted : c[2].severity = "critical" /\ c[2].verification = "confirmed"
    <3>1. PICK i \in DOMAIN findings : findings[i] = kept[i] /\ Protected(kept[i])
      BY <2>1 DEF Spares, Protected
    <3>2. i \in DOMAIN kept /\ ~findings[i].low
      BY <1>1, <3>1 DEF Spares
    <3>3. <<i, findings[i]>> \in counted
      BY <3>1, <3>2 DEF Counted
    <3>4. QED BY <3>1, <3>3 DEF Protected
  <2>2. ASSUME open # {}
        PROVE  \E c \in counted : c[2].severity = "critical" /\ c[2].verification = "confirmed"
    <3>1. PICK c \in carried : c.severity = "critical" /\ c.verification = "confirmed"
      BY <2>2
    <3>2. <<0, c>> \in counted
      BY DEF Counted
    <3>3. QED BY <3>1, <3>2
  <2>3. ASSUME NEW c \in counted, c[2].severity = "critical", c[2].verification = "confirmed"
        PROVE  proven # {} \/ open # {}
    <3>1. CASE \E i \in DOMAIN findings : c = <<i, findings[i]>>
      <4>1. PICK i \in DOMAIN findings : c = <<i, findings[i]>>
        BY <3>1
      <4>2. i \in DOMAIN kept /\ kept[i].verification = "confirmed"
        BY <2>3, <4>1 DEF Spares
      <4>3. QED BY <4>2
    <3>2. CASE \E d \in carried : c = <<0, d>>
      BY <2>3, <3>2
    <3>3. QED BY <3>1, <3>2 DEF Counted
  <2>4. result'.verdict = "significant_concerns" <=>
          \E c \in counted : c[2].severity = "critical" /\ c[2].verification = "confirmed"
    <3>1. \A s : Verdict(s) = "significant_concerns" <=>
                   \E c \in s : c[2].severity = "critical" /\ c[2].verification = "confirmed"
      BY VerdictIs
    <3> HIDE DEF counted
    <3>2. result'.verdict = Verdict(counted)
      BY <1>2 DEF counted
    <3>3. QED BY <3>1, <3>2
  <2>5. /\ (\E i \in proven : kept[i].severity = "critical") \/ open # {}
             => result'.verdict = "significant_concerns"
        /\ result'.verdict = "significant_concerns" => proven # {} \/ open # {}
    <3> HIDE DEF proven, open, counted
    <3>1. QED BY <2>1, <2>2, <2>3, <2>4
  <2> HIDE DEF counted
  <2>6. QED BY <2>5 DEF VerdictFollowsProof
<1>4. PassMeansChecked'
  BY <1>2 DEF PassMeansChecked
<1>5. \A id \in missed' : Kept(id, "unchecked")' \in Range(kept)'
  BY DEF OutcomeInv, Kept
<1>6. UnverifiedCriticals' = UnverifiedCriticals
  BY DEF UnverifiedCriticals
<1>7. QED BY <1>2, <1>3, <1>4, <1>5, <1>6 DEF OutcomeInv

\* The exit code of a run that passes, or blocks, says that nothing critical was
\* left unchecked.
LEMMA ReportTruly ==
  ASSUME OutcomeInv, Report
  PROVE  OutcomeInv'
<1>1. /\ phase = "report" /\ phase' = "done"
      /\ UNCHANGED <<todo, asked, severity, kept, missed, carried>>
  BY DEF Report
<1>2. PICK someCompleted \in BOOLEAN, gaps \in BOOLEAN, override \in BOOLEAN :
        result' = [result EXCEPT !.exit = ExitOf(someCompleted, gaps, override), !.override = override]
  BY DEF Report
<1>3. /\ result \in Results /\ kept \in Seq(KeptFindings) /\ missed \subseteq Findings
      /\ result.unverified = UnverifiedCriticals /\ VerdictFollowsProof
      /\ \A id \in missed : Kept(id, "unchecked") \in Range(kept)
  BY <1>1 DEF OutcomeInv
<1>4. result.unverified \in Nat
  BY <1>3 DEF Results
<1>5. /\ ExitOf(someCompleted, gaps, override) \in Exits
      /\ ExitOf(someCompleted, gaps, override) \in {"ok", "blocking"} => result.unverified = 0
  <2>1. CASE ~someCompleted
    BY <2>1 DEF ExitOf, Exits
  <2>2. CASE someCompleted /\ (gaps \/ result.unverified > 0)
    BY <2>2 DEF ExitOf, Exits
  <2>3. CASE someCompleted /\ ~gaps /\ result.unverified = 0
    BY <2>3 DEF ExitOf, Exits
  <2>4. QED BY <1>4, <2>1, <2>2, <2>3
<1>6. /\ result'.exit = ExitOf(someCompleted, gaps, override) /\ result' \in Results
      /\ result'.verdict = result.verdict /\ result'.unverified = result.unverified
  BY <1>2, <1>3, <1>5 DEF Results
<1>7. VerdictFollowsProof'
  BY <1>1, <1>3, <1>6 DEF VerdictFollowsProof
<1>8. PassMeansChecked'
  <2> SUFFICES ASSUME result'.exit \in {"ok", "blocking"}, NEW id \in missed, severity[id] = "critical"
               PROVE  FALSE
    BY <1>1 DEF PassMeansChecked
  <2>1. UnverifiedCriticals = 0
    BY <1>3, <1>5, <1>6
  <2>2. PICK i \in DOMAIN kept : kept[i] = Kept(id, "unchecked")
    BY <1>3 DEF Range
  <2>3. kept[i].severity = "critical" /\ kept[i].verification = "unchecked" /\ kept[i].id \in missed
    BY <2>2 DEF Kept
  <2>4. QED BY <1>3, <2>1, <2>3, UnverifiedIs
<1>9. UnverifiedCriticals' = UnverifiedCriticals
  BY <1>1 DEF UnverifiedCriticals
<1>10. \A id \in missed' : Kept(id, "unchecked")' \in Range(kept)'
  BY <1>1, <1>3 DEF Kept
<1>11. QED BY <1>1, <1>3, <1>6, <1>7, <1>8, <1>9, <1>10 DEF OutcomeInv

\* What was left unchecked is in what the judge is given and is counted, and the
\* result follows from the findings, whatever the verifiers and the judge answer.
THEOREM OutcomeInvariant == CheckSpec => []OutcomeInv
<1>1. ASSUME OutcomeInv, [CheckNext]_stageVars PROVE OutcomeInv'
  <2>1. CASE Filtered
    <3>1. /\ phase = "filtered" /\ phase' = "settings" /\ severity' \in [Findings -> Levels]
          /\ UNCHANGED <<todo, asked, kept, missed, result>>
      BY <2>1, CheckAssumption DEF Filtered
    <3>2. missed = {} /\ result = NoResult
      BY <1>1, <3>1 DEF OutcomeInv
    <3>3. VerdictFollowsProof' /\ PassMeansChecked'
      BY <3>1, <3>2 DEF VerdictFollowsProof, PassMeansChecked, NoResult
    <3>4. QED BY <1>1, <3>1, <3>2, <3>3 DEF OutcomeInv
  <2>2. CASE VerifyNothing
    <3>1. /\ phase = "settings" /\ phase' = "judge" /\ todo' = <<>>
          /\ kept' = Unchecked(AllFindings) /\ missed' \in {{}, Findings}
          /\ UNCHANGED <<asked, severity, result>>
      BY <2>2 DEF VerifyNothing
    <3>2. severity \in [Findings -> Levels] /\ asked = {} /\ result = NoResult /\ result \in Results
      BY <1>1, <3>1 DEF OutcomeInv
    <3>3. /\ AllFindings \in Seq(Findings)
          /\ \A id \in Findings : id \in Range(AllFindings)
      BY AllFindingsAre
    <3>4. /\ Unchecked(AllFindings) \in Seq(KeptFindings)
          /\ \A id \in Range(AllFindings) : Kept(id, "unchecked") \in Range(Unchecked(AllFindings))
      BY <3>2, <3>3, UncheckedIs
    <3>5. \A id \in missed' : Kept(id, "unchecked")' \in Range(kept)'
      BY <3>1, <3>3, <3>4 DEF Kept
    <3>6. VerdictFollowsProof' /\ PassMeansChecked'
      BY <3>1, <3>2 DEF VerdictFollowsProof, PassMeansChecked, NoResult
    <3>7. missed' \subseteq Findings /\ todo' \in Seq(CheckFiles) /\ kept' \in Seq(KeptFindings)
      BY <3>1, <3>4
    <3>8. QED BY <3>1, <3>2, <3>5, <3>6, <3>7 DEF OutcomeInv
  <2>3. CASE StartVerify \/ VerifyEnds \/ AskJudge
    <3>1. /\ phase \in {"settings", "verify", "judge"} /\ phase' \in {"verify", "judge", "judging"}
          /\ phase' # "verify" => asked = {}
          /\ UNCHANGED <<todo, asked, severity, kept, missed, result>>
      BY <1>1, <2>3 DEF StartVerify, VerifyEnds, AskJudge, OutcomeInv
    <3>2. result = NoResult
      BY <1>1, <3>1 DEF OutcomeInv
    <3>3. VerdictFollowsProof' /\ PassMeansChecked'
      BY <3>1, <3>2 DEF VerdictFollowsProof, PassMeansChecked, NoResult
    <3>4. \A id, v : Kept(id, v)' = Kept(id, v)
      BY <3>1 DEF Kept
    <3>5. QED BY <1>1, <3>1, <3>2, <3>3, <3>4 DEF OutcomeInv
  <2>4. CASE TakeFile \/ \E f \in CheckFiles, cost \in 0..MaxCall : Verified(f, cost)
    BY <1>1, <2>4, VerifySteps
  <2>5. Spares(kept)
    BY DEF Spares
  <2>6. CASE JudgeNothing
    <3> PICK k : k = kept
      OBVIOUS
    <3>1. /\ Gives(k) /\ Spares(k) /\ phase = "judge" /\ phase' = "report"
          /\ UNCHANGED <<todo, asked, severity, kept, missed, carried>>
      BY <2>5, <2>6 DEF JudgeNothing
    <3>2. QED BY <1>1, <3>1, GivesTruly
  <2>7. ASSUME NEW cost \in 0..MaxCall, JudgeEnds(cost) PROVE OutcomeInv'
    <3>1. /\ phase = "judging" /\ phase' = "report"
          /\ UNCHANGED <<todo, asked, severity, kept, missed, carried>>
          /\ \/ Gives(kept)
             \/ \E given \in JudgeAnswers, keepDropped \in BOOLEAN : Gives(Judged(given, keepDropped))
      BY <2>7 DEF JudgeEnds
    <3>2. CASE Gives(kept)
      <4> PICK k : k = kept
        OBVIOUS
      <4>1. Gives(k) /\ Spares(k)
        BY <2>5, <3>2
      <4>2. QED BY <1>1, <3>1, <4>1, GivesTruly
    <3>3. ASSUME NEW given \in JudgeAnswers, NEW keepDropped \in BOOLEAN,
                 Gives(Judged(given, keepDropped))
          PROVE  OutcomeInv'
      <4>1. kept \in Seq(KeptFindings)
        BY <1>1 DEF OutcomeInv
      <4>2. Spares(Judged(given, keepDropped))
        BY <4>1, JudgeSpares
      <4> PICK k : k = Judged(given, keepDropped)
        OBVIOUS
      <4>3. Gives(k) /\ Spares(k)
        BY <3>3, <4>2
      <4>4. QED BY <1>1, <3>1, <4>3, GivesTruly
    <3>4. QED BY <3>1, <3>2, <3>3
  <2>8. CASE Report
    BY <1>1, <2>8, ReportTruly
  <2>9. CASE UNCHANGED stageVars
    <3>1. UNCHANGED <<phase, todo, asked, severity, kept, missed, carried, result>>
      BY <2>9 DEF stageVars, checkVars
    <3>2. /\ \A id, v : Kept(id, v)' = Kept(id, v)
          /\ UnverifiedCriticals' = UnverifiedCriticals
          /\ VerdictFollowsProof' = VerdictFollowsProof /\ PassMeansChecked' = PassMeansChecked
      BY <3>1 DEF Kept, UnverifiedCriticals, VerdictFollowsProof, PassMeansChecked
    <3>3. QED BY <1>1, <3>1, <3>2 DEF OutcomeInv
  <2>10. QED BY <1>1, <2>1, <2>2, <2>3, <2>4, <2>6, <2>7, <2>8, <2>9 DEF CheckNext
<1>2. QED BY <1>1, OutcomeFirst, PTL DEF CheckSpec

\* A confirmed critical finding blocks whatever the judge answers, nothing else
\* does, and a run that passes has checked every critical finding it was to
\* check (judge.ts applyDecisions, verdict.ts, exit-code.ts), for any findings,
\* any answers and any number of groups of duplicates.
THEOREM OutcomeEarnedAlways == CheckSpec => []OutcomeEarned
<1>1. OutcomeInv => OutcomeEarned
  BY DEF OutcomeInv, OutcomeEarned
<1>2. QED BY <1>1, OutcomeInvariant, PTL

\* What Verify holds is findings of the files it was given, and no more of them
\* are in flight than the concurrency allows (verify.ts).
THEOREM StageTypes == CheckSpec => []StageTypeOK
<1>1. OutcomeInv /\ PaidInv => StageTypeOK
  BY DEF OutcomeInv, PaidInv, InFlight, StageTypeOK
<1>2. QED BY <1>1, OutcomeInvariant, PaidFirst, PaidStep, PTL DEF CheckSpec

-----------------------------------------------------------------------------
(* Publishing *)

\* Of what a run takes for commented, nothing was ever without a comment.
Seen(S) == \A f \in S : comments[f] > 0 \/ f \in deleted

ShownInv ==
  /\ Seen(posting.commented) /\ Seen(delivery.before.commented)
  /\ Seen(delivery.own) /\ Seen(delivery.posted)
  /\ delivery.at \in {"withdraw", "ended"} => delivery.found \ posting.commented \subseteq posting.shown

\* What a run is about to comment on has no comment the run could know of.
OnceInv ==
  /\ delivery.at \in {"list", "diff", "post"} => delivery.fresh \cap AlreadyThere(delivery) = {}
  /\ delivery.listed =>
       /\ delivery.at = "read" => \A f \in Publishable : comments[f] > 0 => f \in delivery.own
       /\ delivery.at \in {"list", "diff", "post"} => \A f \in delivery.fresh : comments[f] = 0

\* A run that does not block knows of every request, or has a warning.
RequestInv ==
  /\ delivery.request => delivery.blocks /\ delivery.at # "read"
  /\ delivery.at = "withdraw" => posting.blocks = delivery.blocks
  /\ /\ delivery.at \in {"diff", "post", "bare", "summary", "withdraw", "ended"}
     /\ delivery.asks /\ ~delivery.blocks /\ ~delivery.warned
     => requests \subseteq delivery.active
  /\ delivery.at = "ended" => delivery.blocks \/ delivery.active = {}
  /\ delivery.at # "idle" => deliveries >= 1

DeliveryInv == DeliveryTypeOK /\ ShownInv /\ OnceInv /\ RequestInv

-----------------------------------------------------------------------------
LEMMA DeliveryFirst == DeliveryInit => DeliveryInv
<1>1. DeliveryInit => DeliveryTypeOK
  BY DeliveryAssumption DEF DeliveryInit, DeliveryTypeOK, NoDelivery, NoPosting, DeliveryRuns, DeliverySteps, Postings
<1>2. DeliveryInit => ShownInv /\ OnceInv /\ RequestInv
  BY DEF DeliveryInit, ShownInv, OnceInv, RequestInv, NoDelivery, NoPosting, Seen
<1>3. QED BY <1>1, <1>2 DEF DeliveryInv

LEMMA StartKeeps == DeliveryInv /\ StartDelivery => DeliveryInv'
<1> SUFFICES ASSUME DeliveryInv, StartDelivery PROVE DeliveryInv'
  OBVIOUS
<1> USE DEF DeliveryInv
<1>1. DeliveryTypeOK'
  <2>1. NoDelivery \in DeliveryRuns
    BY DeliveryAssumption DEF NoDelivery, NoPosting, DeliveryRuns, DeliverySteps, Postings
  <2>2. PICK gitlab \in BOOLEAN, asks \in BOOLEAN, listed \in BOOLEAN, checked \in BOOLEAN :
          delivery' = [NoDelivery EXCEPT
            !.at = "read", !.gitlab = gitlab, !.asks = asks /\ ~gitlab, !.listed = listed,
            !.own = IF listed THEN {f \in Publishable : comments[f] > 0} ELSE {},
            !.before = IF posting.trusted /\ checked THEN posting
                       ELSE [NoPosting EXCEPT !.exists = posting.exists]]
    BY DEF StartDelivery
  <2>3. (IF listed THEN {f \in Publishable : comments[f] > 0} ELSE {}) \in SUBSET Publishable
    OBVIOUS
  <2>4. (IF posting.trusted /\ checked THEN posting
         ELSE [NoPosting EXCEPT !.exists = posting.exists]) \in Postings
    BY DEF DeliveryTypeOK, Postings, NoPosting
  <2>5. (asks /\ ~gitlab) \in BOOLEAN /\ "read" \in DeliverySteps
    BY DEF DeliverySteps
  <2>6. delivery' \in DeliveryRuns
    BY <2>1, <2>2, <2>3, <2>4, <2>5, ZenonT(60) DEF DeliveryRuns
  <2>7. QED BY <2>6, DeliveryAssumption DEF StartDelivery, DeliveryTypeOK
<1>2. ShownInv'
  BY DEF StartDelivery, DeliveryTypeOK, ShownInv, NoDelivery, NoPosting, Seen
<1>3. OnceInv' /\ RequestInv'
  BY DEF StartDelivery, DeliveryTypeOK, OnceInv, RequestInv, NoDelivery
<1>4. QED BY <1>1, <1>2, <1>3

LEMMA ReviewedKeeps == DeliveryInv /\ Reviewed => DeliveryInv'
<1> SUFFICES ASSUME DeliveryInv, Reviewed PROVE DeliveryInv'
  OBVIOUS
<1> USE DEF DeliveryInv
<1>1. DeliveryTypeOK'
  <2>1. PICK found \in SUBSET Publishable, blocks \in BOOLEAN :
          delivery' = [delivery EXCEPT
            !.at = IF delivery.asks THEN "list" ELSE "diff", !.found = found, !.blocks = blocks,
            !.fresh = (found \cap InDiff) \ AlreadyThere(delivery)]
    BY DEF Reviewed
  <2>2. delivery' \in DeliveryRuns
    <3>1. (found \cap InDiff) \ AlreadyThere(delivery) \in SUBSET InDiff
      OBVIOUS
    <3>2. (IF delivery.asks THEN "list" ELSE "diff") \in DeliverySteps
      BY DEF DeliverySteps
    <3>3. 1 \in 1..MaxAttempts
      BY DeliveryAssumption
    <3>4. QED BY <2>1, <3>1, <3>2, <3>3 DEF DeliveryTypeOK, DeliveryRuns
  <2>3. QED BY <2>2 DEF Reviewed, DeliveryTypeOK
<1>2. ShownInv'
  BY DEF Reviewed, DeliveryTypeOK, DeliveryRuns, ShownInv, Seen
<1>3. OnceInv'
  BY DeliveryAssumption DEF Reviewed, DeliveryTypeOK, DeliveryRuns, OnceInv, AlreadyThere
<1>4. RequestInv'
  BY DEF Reviewed, DeliveryTypeOK, DeliveryRuns, RequestInv
<1>5. QED BY <1>1, <1>2, <1>3, <1>4

LEMMA ListKeeps == DeliveryInv /\ ListReviews => DeliveryInv'
<1> SUFFICES ASSUME DeliveryInv, ListReviews PROVE DeliveryInv'
  OBVIOUS
<1> USE DEF DeliveryInv
<1>1. DeliveryTypeOK'
  <2>1. "diff" \in DeliverySteps /\ (delivery.blocks /\ requests = {}) \in BOOLEAN
    BY DEF DeliverySteps
  <2>2. QED BY <2>1, ZenonT(60) DEF ListReviews, DeliveryTypeOK, DeliveryRuns
<1>2. ShownInv'
  BY DEF ListReviews, DeliveryTypeOK, DeliveryRuns, ShownInv, Seen
<1>3. OnceInv'
  BY DEF ListReviews, DeliveryTypeOK, DeliveryRuns, OnceInv, AlreadyThere
<1>4. RequestInv'
  <2>1. CASE delivery' = [delivery EXCEPT
               !.at = "diff", !.active = requests, !.request = delivery.blocks /\ requests = {}]
    <3>1. /\ delivery'.at = "diff" /\ delivery'.active = requests
          /\ delivery'.request => delivery'.blocks
      BY <2>1 DEF DeliveryTypeOK, DeliveryRuns
    <3>2. QED BY <3>1 DEF ListReviews, RequestInv
  <2>2. CASE delivery' = [delivery EXCEPT !.at = "diff", !.request = delivery.blocks, !.warned = TRUE]
    <3>1. delivery'.at = "diff" /\ delivery'.warned /\ (delivery'.request => delivery'.blocks)
      BY <2>2 DEF DeliveryTypeOK, DeliveryRuns
    <3>2. QED BY <3>1 DEF ListReviews, RequestInv
  <2>3. QED BY <2>1, <2>2 DEF ListReviews
<1>5. QED BY <1>1, <1>2, <1>3, <1>4

LEMMA PlaceKeeps == DeliveryInv /\ KeepPlaceable => DeliveryInv'
<1> SUFFICES ASSUME DeliveryInv, KeepPlaceable PROVE DeliveryInv'
  OBVIOUS
<1> USE DEF DeliveryInv
<1>1. DeliveryTypeOK'
  BY ZenonT(60) DEF KeepPlaceable, DeliveryTypeOK, DeliveryRuns, DeliverySteps
<1>2. ShownInv'
  BY DEF KeepPlaceable, DeliveryTypeOK, DeliveryRuns, ShownInv, Seen
<1>3. OnceInv'
  BY DEF KeepPlaceable, DeliveryTypeOK, DeliveryRuns, OnceInv, AlreadyThere
<1>4. RequestInv'
  BY DEF KeepPlaceable, DeliveryTypeOK, DeliveryRuns, RequestInv
<1>5. QED BY <1>1, <1>2, <1>3, <1>4

-----------------------------------------------------------------------------
\* Where a run goes after a request, and what it may have put on the platform.
LEMMA GoesTyped ==
  ASSUME DeliveryTypeOK, NEW to \in DeliverySteps, NEW posted \in SUBSET Publishable,
         NEW fresh \in SUBSET InDiff, NEW active \in SUBSET (1..MaxDeliveries)
  PROVE  /\ Goes(to) \in DeliveryRuns
         /\ [Goes(to) EXCEPT !.posted = posted] \in DeliveryRuns
         /\ [Goes(to) EXCEPT !.fresh = fresh] \in DeliveryRuns
         /\ [Goes(to) EXCEPT !.active = active] \in DeliveryRuns
<1>1. Goes(to) \in DeliveryRuns
  <2>1. 1 \in 1..MaxAttempts
    BY DeliveryAssumption
  <2>2. delivery \in DeliveryRuns
    BY DEF DeliveryTypeOK
  <2>3. [delivery EXCEPT !.at = to] \in DeliveryRuns
    BY <2>2 DEF DeliveryRuns
  <2>4. [[delivery EXCEPT !.at = to] EXCEPT !.attempt = 1] \in DeliveryRuns
    BY <2>1, <2>3 DEF DeliveryRuns
  <2>5. Goes(to) = [[delivery EXCEPT !.at = to] EXCEPT !.attempt = 1]
    BY <2>2 DEF Goes, DeliveryRuns
  <2>6. QED BY <2>4, <2>5
<1>2. QED BY <1>1 DEF DeliveryRuns

LEMMA FailsTyped == NoDelivery \in DeliveryRuns
BY DeliveryAssumption DEF NoDelivery, NoPosting, DeliveryRuns, DeliverySteps, Postings

LEMMA RepeatsTyped ==
  ASSUME DeliveryTypeOK, Repeats, delivery.attempt < MaxAttempts
  PROVE  delivery' \in DeliveryRuns
BY DeliveryAssumption DEF DeliveryTypeOK, DeliveryRuns, Repeats

LEMMA CommentedTyped ==
  ASSUME DeliveryTypeOK, NEW fs \in SUBSET Publishable, CommentOn(fs)
  PROVE  /\ comments' \in [Publishable -> Nat]
         /\ \A f \in Publishable : comments'[f] >= comments[f]
         /\ \A f \in fs : comments'[f] > 0
         /\ \A f \in Publishable \ fs : comments'[f] = comments[f]
BY DEF DeliveryTypeOK, CommentOn

\* A run on its way that only comments keeps what it knows of comments true.
LEMMA ShownOn ==
  ASSUME DeliveryTypeOK, ShownInv, UNCHANGED <<deleted, posting>>,
         comments' \in [Publishable -> Nat], \A f \in Publishable : comments'[f] >= comments[f],
         delivery'.before = delivery.before, delivery'.own = delivery.own,
         \A f \in delivery'.posted : f \in delivery.posted \/ comments'[f] > 0,
         delivery'.at \notin {"withdraw", "ended"}
  PROVE  ShownInv'
<1>1. ASSUME NEW S \in SUBSET Publishable, Seen(S), NEW f \in S
      PROVE  comments'[f] > 0 \/ f \in deleted'
  BY <1>1 DEF Seen, DeliveryTypeOK
<1>2. /\ posting.commented \in SUBSET Publishable /\ delivery.before.commented \in SUBSET Publishable
      /\ delivery.own \in SUBSET Publishable /\ delivery.posted \in SUBSET Publishable
  BY DEF DeliveryTypeOK, DeliveryRuns, Postings
<1>3. \A f \in posting.commented : comments'[f] > 0 \/ f \in deleted'
  BY <1>1, <1>2 DEF ShownInv
<1>4. \A f \in delivery.before.commented : comments'[f] > 0 \/ f \in deleted'
  BY <1>1, <1>2 DEF ShownInv
<1>5. \A f \in delivery.own : comments'[f] > 0 \/ f \in deleted'
  BY <1>1, <1>2 DEF ShownInv
<1>6. \A f \in delivery.posted : comments'[f] > 0 \/ f \in deleted'
  BY <1>1, <1>2 DEF ShownInv
<1>7. QED BY <1>3, <1>4, <1>5, <1>6 DEF ShownInv, Seen

\* And one that is over knows nothing.
LEMMA FailsKeeps ==
  ASSUME DeliveryTypeOK, ShownInv, UNCHANGED <<deleted, posting>>, Fails,
         comments' \in [Publishable -> Nat], \A f \in Publishable : comments'[f] >= comments[f]
  PROVE  ShownInv' /\ OnceInv' /\ RequestInv'
<1>1. /\ delivery'.at = "idle" /\ delivery'.before.commented = {} /\ delivery'.own = {}
      /\ delivery'.posted = {} /\ ~delivery'.listed /\ ~delivery'.request /\ ~delivery'.asks
  BY DEF Fails, NoDelivery, NoPosting
<1>2. \A f \in posting.commented : comments'[f] > 0 \/ f \in deleted'
  BY DEF ShownInv, Seen, DeliveryTypeOK, Postings
<1>3. ShownInv'
  BY <1>1, <1>2 DEF ShownInv, Seen
<1>4. QED BY <1>1, <1>3 DEF OnceInv, RequestInv

LEMMA PostKeeps == DeliveryInv /\ PostReview => DeliveryInv'
<1> SUFFICES ASSUME DeliveryInv, PostReview PROVE DeliveryInv'
  OBVIOUS
<1> USE DEF DeliveryInv
<1>1. PICK given \in DeliveryAnswers :
        /\ IF Acted(given) THEN CommentOn(delivery.fresh) /\ Requested ELSE UNCHANGED <<comments, requests>>
        /\ CASE given = "ok" -> delivery' = [Goes("summary") EXCEPT !.posted = delivery.fresh]
             [] given = "refused" -> Fails \/ delivery' = Goes(IF delivery.request THEN "bare" ELSE "summary")
             [] SentAgain(FALSE, given, delivery.attempt) -> Repeats
             [] OTHER -> Fails
  BY DEF PostReview
<1>2. \/ given = "ok" /\ delivery' = [Goes("summary") EXCEPT !.posted = delivery.fresh]
      \/ ~Acted(given) /\ delivery' = Goes(IF delivery.request THEN "bare" ELSE "summary")
      \/ ~Acted(given) /\ delivery.attempt < MaxAttempts /\ Repeats
      \/ Fails
  BY <1>1 DEF SentAgain, Acted, DeliveryAnswers
<1>3. delivery.fresh \in SUBSET InDiff /\ delivery.fresh \in SUBSET Publishable
  BY DeliveryAssumption DEF DeliveryTypeOK, DeliveryRuns
<1>4. delivery' \in DeliveryRuns
  <2>1. "summary" \in DeliverySteps /\ "bare" \in DeliverySteps
    BY DEF DeliverySteps
  <2>2. QED BY <1>2, <1>3, <2>1, GoesTyped, RepeatsTyped, FailsTyped DEF Fails
<1>5. /\ comments' \in [Publishable -> Nat]
      /\ \A f \in Publishable : comments'[f] >= comments[f]
      /\ given = "ok" => \A f \in delivery.fresh : comments'[f] > 0
  BY <1>1, <1>3, CommentedTyped DEF Acted, DeliveryTypeOK
<1>6. requests' \in SUBSET (1..MaxDeliveries)
  <2>1. deliveries \in 1..MaxDeliveries
    BY DeliveryAssumption DEF DeliveryTypeOK, RequestInv, PostReview
  <2>2. QED BY <1>1, <2>1 DEF Requested, DeliveryTypeOK
<1>7. DeliveryTypeOK'
  BY <1>4, <1>5, <1>6 DEF DeliveryTypeOK, PostReview
<1>8. /\ delivery'.before = delivery.before /\ delivery'.own = delivery.own
      /\ delivery'.listed = delivery.listed /\ delivery'.fresh = delivery.fresh
      /\ delivery'.asks = delivery.asks /\ delivery'.warned = delivery.warned
      /\ delivery'.blocks = delivery.blocks /\ delivery'.request = delivery.request
      /\ delivery'.active = delivery.active
      /\ \/ delivery'.at = "summary" /\ given = "ok" /\ delivery'.posted = delivery.fresh
         \/ delivery'.at \in {"summary", "bare"} /\ ~Acted(given) /\ delivery'.posted = delivery.posted
         \/ delivery'.at = "post" /\ ~Acted(given) /\ delivery'.posted = delivery.posted
      \/ Fails
  BY <1>2, ZenonT(60) DEF Goes, Repeats, PostReview, DeliveryTypeOK, DeliveryRuns
<1>9. CASE Fails
  BY <1>5, <1>7, <1>9, FailsKeeps DEF PostReview
<1>10. CASE ~Fails
  <2>1. ShownInv'
    BY <1>5, <1>8, <1>10, ShownOn DEF PostReview
  <2>2. OnceInv'
    BY <1>1, <1>8, <1>10 DEF PostReview, OnceInv, AlreadyThere
  <2>3. RequestInv'
    BY <1>1, <1>8, <1>10 DEF PostReview, RequestInv, Requested
  <2>4. QED BY <1>7, <2>1, <2>2, <2>3
<1>11. QED BY <1>9, <1>10

LEMMA BareKeeps == DeliveryInv /\ RequestOnly => DeliveryInv'
<1> SUFFICES ASSUME DeliveryInv, RequestOnly PROVE DeliveryInv'
  OBVIOUS
<1> USE DEF DeliveryInv
<1>1. PICK given \in DeliveryAnswers :
        /\ IF Acted(given) THEN Requested ELSE UNCHANGED requests
        /\ IF SentAgain(FALSE, given, delivery.attempt) THEN Repeats ELSE delivery' = Goes("summary")
  BY DEF RequestOnly
<1>2. \/ delivery.attempt < MaxAttempts /\ Repeats
      \/ delivery' = Goes("summary")
  BY <1>1 DEF SentAgain
<1>3. delivery' \in DeliveryRuns
  <2>1. "summary" \in DeliverySteps
    BY DEF DeliverySteps
  <2>2. QED BY <1>2, <2>1, GoesTyped, RepeatsTyped
<1>4. requests' \in SUBSET (1..MaxDeliveries)
  <2>1. deliveries \in 1..MaxDeliveries
    BY DeliveryAssumption DEF DeliveryTypeOK, RequestInv, RequestOnly
  <2>2. QED BY <1>1, <2>1 DEF Requested, DeliveryTypeOK
<1>5. DeliveryTypeOK'
  BY <1>3, <1>4 DEF DeliveryTypeOK, RequestOnly
<1>6. /\ delivery'.before = delivery.before /\ delivery'.own = delivery.own
      /\ delivery'.listed = delivery.listed /\ delivery'.posted = delivery.posted
      /\ delivery'.asks = delivery.asks /\ delivery'.warned = delivery.warned
      /\ delivery'.blocks = delivery.blocks /\ delivery'.request = delivery.request
      /\ delivery'.active = delivery.active /\ delivery'.at \in {"summary", "bare"}
  BY <1>2 DEF Goes, Repeats, RequestOnly, DeliveryTypeOK, DeliveryRuns
<1>7. ShownInv'
  BY <1>5, <1>6, ShownOn DEF RequestOnly, DeliveryTypeOK
<1>8. OnceInv'
  BY <1>6 DEF OnceInv
<1>9. RequestInv'
  BY <1>1, <1>6 DEF RequestOnly, RequestInv, Requested
<1>10. QED BY <1>5, <1>7, <1>8, <1>9

LEMMA ThreadKeeps == ASSUME DeliveryInv, NEW f \in Publishable, PostThread(f) PROVE DeliveryInv'
<1> USE DEF DeliveryInv
<1> DEFINE next == [Goes(IF delivery.fresh = {f} THEN "summary" ELSE "post") EXCEPT !.fresh = @ \ {f}]
<1>1. PICK given \in DeliveryAnswers :
        /\ IF Acted(given) THEN CommentOn({f}) ELSE UNCHANGED comments
        /\ CASE given = "ok" -> delivery' = [next EXCEPT !.posted = @ \cup {f}]
             [] given = "refused" -> \E bad \in BOOLEAN : delivery' = [next EXCEPT !.warned = @ \/ bad]
             [] SentAgain(FALSE, given, delivery.attempt) -> Repeats
             [] OTHER -> delivery' = [next EXCEPT !.warned = TRUE]
  BY DEF PostThread
<1>2. \/ given = "ok" /\ delivery' = [next EXCEPT !.posted = @ \cup {f}]
      \/ \E warned \in BOOLEAN : delivery' = [next EXCEPT !.warned = @ \/ warned]
      \/ ~Acted(given) /\ delivery.attempt < MaxAttempts /\ Repeats
  <2>1. CASE given = "ok"
    BY <1>1, <2>1 DEF SentAgain
  <2>2. CASE given = "refused"
    BY <1>1, <2>2 DEF SentAgain
  <2>3. CASE given \notin {"ok", "refused"} /\ SentAgain(FALSE, given, delivery.attempt)
    BY <1>1, <2>3 DEF SentAgain, Acted, DeliveryAnswers
  <2>4. CASE given \notin {"ok", "refused"} /\ ~SentAgain(FALSE, given, delivery.attempt)
    <3>1. delivery' = [next EXCEPT !.warned = TRUE]
      BY <1>1, <2>4
    <3>2. next.warned \in BOOLEAN
      BY DEF Goes, DeliveryTypeOK, DeliveryRuns
    <3>3. QED BY <3>1, <3>2
  <2>5. QED BY <2>1, <2>2, <2>3, <2>4
<1>3. next \in DeliveryRuns
  <2>1. (IF delivery.fresh = {f} THEN "summary" ELSE "post") \in DeliverySteps
    BY DEF DeliverySteps
  <2>2. Goes(IF delivery.fresh = {f} THEN "summary" ELSE "post") \in DeliveryRuns
    BY <2>1, GoesTyped
  <2>3. QED BY <2>2 DEF DeliveryRuns
<1> HIDE DEF next
<1>4. delivery' \in DeliveryRuns
  BY <1>2, <1>3, RepeatsTyped DEF DeliveryRuns
<1>5. /\ comments' \in [Publishable -> Nat]
      /\ \A g \in Publishable : comments'[g] >= comments[g]
      /\ Acted(given) => comments'[f] > 0
      /\ \A g \in Publishable \ {f} : comments'[g] = comments[g]
      /\ ~Acted(given) => comments' = comments
  BY <1>1, CommentedTyped DEF DeliveryTypeOK
<1>6. DeliveryTypeOK'
  BY <1>4, <1>5 DEF DeliveryTypeOK, PostThread
<1>7. /\ next.before = delivery.before /\ next.own = delivery.own
      /\ next.listed = delivery.listed /\ next.posted = delivery.posted
      /\ next.asks = delivery.asks /\ next.warned = delivery.warned
      /\ next.blocks = delivery.blocks /\ next.request = delivery.request
      /\ next.active = delivery.active /\ next.at \in {"summary", "post"}
      /\ next.fresh = delivery.fresh \ {f}
  BY DEF Goes, DeliveryTypeOK, DeliveryRuns, next
<1>8. /\ delivery'.before = delivery.before /\ delivery'.own = delivery.own
      /\ delivery'.listed = delivery.listed
      /\ delivery'.asks = delivery.asks /\ (delivery.warned => delivery'.warned)
      /\ delivery'.blocks = delivery.blocks /\ delivery'.request = delivery.request
      /\ delivery'.active = delivery.active /\ delivery'.at \in {"summary", "post"}
      /\ \A g \in delivery'.posted : g \in delivery.posted \/ comments'[g] > 0
      /\ \/ delivery'.fresh = delivery.fresh \ {f}
         \/ delivery'.fresh = delivery.fresh /\ ~Acted(given)
  <2>1. CASE given = "ok" /\ delivery' = [next EXCEPT !.posted = @ \cup {f}]
    BY <1>3, <1>5, <1>7, <2>1 DEF DeliveryRuns, Acted
  <2>2. CASE \E warned \in BOOLEAN : delivery' = [next EXCEPT !.warned = @ \/ warned]
    BY <1>3, <1>7, <2>2 DEF DeliveryRuns
  <2>3. CASE ~Acted(given) /\ Repeats
    BY <2>3 DEF Repeats, PostThread, DeliveryTypeOK, DeliveryRuns
  <2>4. QED BY <1>2, <2>1, <2>2, <2>3
<1>9. ShownInv'
  BY <1>5, <1>8, ShownOn DEF PostThread
<1>10. OnceInv'
  <2>1. delivery.fresh \in SUBSET Publishable
    BY DeliveryAssumption DEF DeliveryTypeOK, DeliveryRuns
  <2>2. QED BY <1>5, <1>8, <2>1 DEF PostThread, OnceInv, AlreadyThere
<1>11. RequestInv'
  BY <1>8 DEF PostThread, RequestInv
<1>12. QED BY <1>6, <1>9, <1>10, <1>11

-----------------------------------------------------------------------------
LEMMA SummaryTyped ==
  ASSUME DeliveryTypeOK PROVE SummaryOf(delivery) \in Postings
<1>1. AlreadyThere(delivery) \cup delivery.posted \in SUBSET Publishable
  BY DEF DeliveryTypeOK, DeliveryRuns, Postings, AlreadyThere
<1>2. delivery.found \in SUBSET Publishable /\ delivery.blocks \in BOOLEAN
  BY DEF DeliveryTypeOK, DeliveryRuns
<1>3. QED BY <1>1, <1>2 DEF SummaryOf, Postings

LEMMA SummaryKeeps == DeliveryInv /\ WriteSummaryComment => DeliveryInv'
<1> SUFFICES ASSUME DeliveryInv, WriteSummaryComment PROVE DeliveryInv'
  OBVIOUS
<1> USE DEF DeliveryInv
<1>1. PICK given \in DeliveryAnswers :
        /\ posting' = IF Acted(given) THEN SummaryOf(delivery) ELSE posting
        /\ CASE given = "ok" -> delivery' = Goes("withdraw")
             [] SentAgain(delivery.before.exists, given, delivery.attempt) -> Repeats
             [] OTHER -> Fails
  BY DEF WriteSummaryComment
<1>2. \/ given = "ok" /\ delivery' = Goes("withdraw")
      \/ delivery.attempt < MaxAttempts /\ Repeats
      \/ Fails
  BY <1>1 DEF SentAgain
<1>3. DeliveryTypeOK'
  <2>1. "withdraw" \in DeliverySteps
    BY DEF DeliverySteps
  <2>2. delivery' \in DeliveryRuns
    BY <1>2, <2>1, GoesTyped, RepeatsTyped, FailsTyped DEF Fails
  <2>3. posting' \in Postings
    BY <1>1, SummaryTyped DEF DeliveryTypeOK
  <2>4. QED BY <2>2, <2>3 DEF WriteSummaryComment, DeliveryTypeOK
<1>4. /\ Seen(delivery.before.commented)' = Seen(delivery'.before.commented)
      /\ UNCHANGED <<comments, deleted, requests, deliveries>>
  BY DEF WriteSummaryComment, Seen
<1>5. \A f \in posting'.commented : comments[f] > 0 \/ f \in deleted
  BY <1>1 DEF ShownInv, Seen, SummaryOf, AlreadyThere
<1>6. CASE given = "ok" /\ delivery' = Goes("withdraw")
  <2>1. /\ delivery'.at = "withdraw" /\ posting' = SummaryOf(delivery)
        /\ delivery'.before = delivery.before /\ delivery'.own = delivery.own
        /\ delivery'.posted = delivery.posted /\ delivery'.found = delivery.found
        /\ delivery'.blocks = delivery.blocks /\ delivery'.request = delivery.request
        /\ delivery'.asks = delivery.asks /\ delivery'.warned = delivery.warned
        /\ delivery'.active = delivery.active
    BY <1>1, <1>6 DEF Goes, Acted, DeliveryTypeOK, DeliveryRuns
  <2>2. ShownInv'
    BY <1>4, <1>5, <2>1 DEF ShownInv, Seen, SummaryOf
  <2>3. OnceInv'
    BY <2>1 DEF OnceInv
  <2>4. RequestInv'
    BY <1>4, <2>1 DEF RequestInv, SummaryOf, WriteSummaryComment
  <2>5. QED BY <1>3, <2>2, <2>3, <2>4
<1>7. CASE Repeats
  <2>1. /\ delivery'.at = "summary"
        /\ delivery'.before = delivery.before /\ delivery'.own = delivery.own
        /\ delivery'.posted = delivery.posted
        /\ delivery'.blocks = delivery.blocks /\ delivery'.request = delivery.request
        /\ delivery'.asks = delivery.asks /\ delivery'.warned = delivery.warned
        /\ delivery'.active = delivery.active
    BY <1>7 DEF Repeats, WriteSummaryComment, DeliveryTypeOK, DeliveryRuns
  <2>2. ShownInv'
    BY <1>4, <1>5, <2>1 DEF ShownInv, Seen
  <2>3. OnceInv'
    BY <2>1 DEF OnceInv
  <2>4. RequestInv'
    BY <1>4, <2>1 DEF RequestInv, WriteSummaryComment
  <2>5. QED BY <1>3, <2>2, <2>3, <2>4
<1>8. CASE Fails
  <2>1. /\ delivery'.at = "idle" /\ delivery'.before.commented = {} /\ delivery'.own = {}
        /\ delivery'.posted = {} /\ ~delivery'.listed /\ ~delivery'.request /\ ~delivery'.asks
    BY <1>8 DEF Fails, NoDelivery, NoPosting
  <2>2. ShownInv'
    BY <1>4, <1>5, <2>1 DEF ShownInv, Seen
  <2>3. OnceInv' /\ RequestInv'
    BY <2>1 DEF OnceInv, RequestInv
  <2>4. QED BY <1>3, <2>2, <2>3
<1>9. QED BY <1>2, <1>6, <1>7, <1>8

LEMMA WithdrawKeeps ==
  ASSUME DeliveryInv, NEW r \in 1..MaxDeliveries, Withdraw(r) PROVE DeliveryInv'
<1> USE DEF DeliveryInv
<1> DEFINE next == [Goes("withdraw") EXCEPT !.active = @ \ {r}]
<1>1. PICK given \in DeliveryAnswers :
        /\ Acted(given) => r \in requests
        /\ requests' = IF Acted(given) THEN requests \ {r} ELSE requests
        /\ CASE given = "ok" -> delivery' = next
             [] SentAgain(TRUE, given, delivery.attempt) -> Repeats
             [] OTHER -> delivery' = [next EXCEPT !.warned = TRUE]
  BY DEF Withdraw
<1>2. \/ given = "ok" /\ delivery' = next
      \/ delivery.attempt < MaxAttempts /\ Repeats
      \/ delivery' = [next EXCEPT !.warned = TRUE]
  BY <1>1 DEF SentAgain
<1>3. next \in DeliveryRuns
  <2>1. "withdraw" \in DeliverySteps
    BY DEF DeliverySteps
  <2>2. Goes("withdraw") \in DeliveryRuns
    BY <2>1, GoesTyped
  <2>3. QED BY <2>2 DEF DeliveryRuns
<1>4. /\ next.before = delivery.before /\ next.own = delivery.own
      /\ next.listed = delivery.listed /\ next.posted = delivery.posted
      /\ next.found = delivery.found
      /\ next.asks = delivery.asks /\ next.warned = delivery.warned
      /\ next.blocks = delivery.blocks /\ next.request = delivery.request
      /\ next.active = delivery.active \ {r} /\ next.at = "withdraw"
  BY DEF Goes, DeliveryTypeOK, DeliveryRuns, next
<1> HIDE DEF next
<1>5. DeliveryTypeOK'
  <2>1. delivery' \in DeliveryRuns
    BY <1>2, <1>3, RepeatsTyped DEF DeliveryRuns
  <2>2. QED BY <1>1, <2>1 DEF Withdraw, DeliveryTypeOK
<1>6. /\ delivery'.before = delivery.before /\ delivery'.own = delivery.own
      /\ delivery'.posted = delivery.posted /\ delivery'.found = delivery.found
      /\ delivery'.asks = delivery.asks /\ delivery'.at = "withdraw"
      /\ delivery'.blocks = delivery.blocks /\ delivery'.request = delivery.request
      /\ \/ delivery'.warned = delivery.warned /\ delivery'.active = delivery.active \ {r} /\ r \notin requests'
         \/ delivery'.warned = delivery.warned /\ delivery'.active = delivery.active
         \/ delivery'.warned
  <2>1. CASE given = "ok" /\ delivery' = next
    <3>1. r \notin requests'
      BY <1>1, <2>1 DEF Acted
    <3>2. QED BY <1>4, <2>1, <3>1
  <2>2. CASE Repeats
    BY <2>2 DEF Repeats, Withdraw, DeliveryTypeOK, DeliveryRuns
  <2>3. CASE delivery' = [next EXCEPT !.warned = TRUE]
    BY <1>3, <1>4, <2>3 DEF DeliveryRuns
  <2>4. QED BY <1>2, <2>1, <2>2, <2>3
<1>7. UNCHANGED <<comments, deleted, posting, deliveries>> /\ requests' \subseteq requests
  BY <1>1 DEF Withdraw
<1>8. ShownInv'
  BY <1>6, <1>7 DEF Withdraw, ShownInv, Seen
<1>9. OnceInv'
  BY <1>6 DEF OnceInv
<1>10. RequestInv'
  BY <1>6, <1>7 DEF Withdraw, RequestInv
<1>11. QED BY <1>5, <1>8, <1>9, <1>10

LEMMA PublishedKeeps == DeliveryInv /\ Published => DeliveryInv'
<1> SUFFICES ASSUME DeliveryInv, Published PROVE DeliveryInv'
  OBVIOUS
<1> USE DEF DeliveryInv
<1>1. DeliveryTypeOK'
  <2>1. "ended" \in DeliverySteps
    BY DEF DeliverySteps
  <2>2. QED BY <2>1, GoesTyped DEF Published, DeliveryTypeOK
<1>2. /\ delivery'.before = delivery.before /\ delivery'.own = delivery.own
      /\ delivery'.posted = delivery.posted /\ delivery'.found = delivery.found
      /\ delivery'.asks = delivery.asks /\ delivery'.at = "ended"
      /\ delivery'.blocks = delivery.blocks /\ delivery'.request = delivery.request
      /\ delivery'.warned = delivery.warned /\ delivery'.active = delivery.active
  BY DEF Published, Goes, DeliveryTypeOK, DeliveryRuns
<1>3. ShownInv'
  BY <1>2 DEF Published, ShownInv, Seen
<1>4. OnceInv'
  BY <1>2 DEF OnceInv
<1>5. RequestInv'
  BY <1>2 DEF Published, RequestInv
<1>6. QED BY <1>1, <1>3, <1>4, <1>5

LEMMA DiesKeeps == DeliveryInv /\ Dies => DeliveryInv'
<1> SUFFICES ASSUME DeliveryInv, Dies PROVE DeliveryInv'
  OBVIOUS
<1>1. DeliveryTypeOK' /\ Fails
  BY FailsTyped DEF Dies, Fails, DeliveryInv, DeliveryTypeOK
<1>2. comments' \in [Publishable -> Nat] /\ \A f \in Publishable : comments'[f] >= comments[f]
  BY DEF Dies, DeliveryInv, DeliveryTypeOK
<1>3. QED BY <1>1, <1>2, FailsKeeps DEF Dies, DeliveryInv

-----------------------------------------------------------------------------
LEMMA DeleteKeeps ==
  ASSUME DeliveryInv, NEW f \in Publishable, DeleteComment(f) PROVE DeliveryInv'
<1> USE DEF DeliveryInv
<1>1. /\ comments' \in [Publishable -> Nat]
      /\ \A g \in Publishable : comments'[g] <= comments[g]
      /\ \A g \in Publishable : comments'[g] = comments[g] \/ g = f
  BY DEF DeleteComment, DeliveryTypeOK
<1>2. DeliveryTypeOK'
  BY <1>1, DeliveryAssumption DEF DeleteComment, Meddle, DeliveryTypeOK
<1>3. /\ posting.commented \in SUBSET Publishable /\ delivery.before.commented \in SUBSET Publishable
      /\ delivery.own \in SUBSET Publishable /\ delivery.posted \in SUBSET Publishable
      /\ delivery.fresh \in SUBSET Publishable
  BY DeliveryAssumption DEF DeliveryTypeOK, DeliveryRuns, Postings
<1>4. ASSUME NEW S \in SUBSET Publishable, Seen(S), NEW g \in S
      PROVE  comments'[g] > 0 \/ g \in deleted'
  BY <1>1, <1>4 DEF DeleteComment, Seen
<1>5. UNCHANGED <<requests, posting, delivery, deliveries>>
  BY DEF DeleteComment, Meddle
<1>6. ShownInv'
  <2>1. \A g \in posting.commented : comments'[g] > 0 \/ g \in deleted'
    BY <1>3, <1>4 DEF ShownInv
  <2>2. \A g \in delivery.before.commented : comments'[g] > 0 \/ g \in deleted'
    BY <1>3, <1>4 DEF ShownInv
  <2>3. \A g \in delivery.own : comments'[g] > 0 \/ g \in deleted'
    BY <1>3, <1>4 DEF ShownInv
  <2>4. \A g \in delivery.posted : comments'[g] > 0 \/ g \in deleted'
    BY <1>3, <1>4 DEF ShownInv
  <2>5. QED BY <1>5, <2>1, <2>2, <2>3, <2>4 DEF ShownInv, Seen
<1>7. OnceInv'
  <2>1. \A g \in Publishable : comments[g] = 0 => comments'[g] = 0
    BY <1>1 DEF DeliveryTypeOK
  <2>2. \A g \in Publishable : comments'[g] > 0 => comments[g] > 0
    BY <1>1 DEF DeliveryTypeOK
  <2>3. QED BY <1>3, <1>5, <2>1, <2>2 DEF OnceInv, AlreadyThere
<1>8. RequestInv'
  BY <1>5 DEF RequestInv
<1>9. QED BY <1>2, <1>6, <1>7, <1>8

LEMMA OthersKeep ==
  ASSUME DeliveryInv,
         \/ \E r \in 1..MaxDeliveries : LiftRequest(r)
         \/ EditPosting
         \/ UNCHANGED deliveryVars
  PROVE  DeliveryInv'
<1> USE DEF DeliveryInv
<1>1. CASE \E r \in 1..MaxDeliveries : LiftRequest(r)
  <2>1. DeliveryTypeOK'
    BY <1>1, DeliveryAssumption DEF LiftRequest, Meddle, DeliveryTypeOK
  <2>2. UNCHANGED <<comments, deleted, posting, delivery, deliveries>> /\ requests' \subseteq requests
    BY <1>1 DEF LiftRequest, Meddle
  <2>3. QED BY <2>1, <2>2 DEF ShownInv, Seen, OnceInv, AlreadyThere, RequestInv
<1>2. CASE EditPosting
  <2>1. DeliveryTypeOK'
    <3>1. posting' \in Postings
      BY <1>2 DEF EditPosting, DeliveryTypeOK, Postings
    <3>2. meddling' \in 0..MaxMeddling
      BY <1>2, DeliveryAssumption DEF EditPosting, Meddle, DeliveryTypeOK
    <3>3. QED BY <1>2, <3>1, <3>2 DEF EditPosting, Meddle, DeliveryTypeOK
  <2>2. /\ UNCHANGED <<comments, deleted, requests, delivery, deliveries>>
        /\ posting'.commented = posting.commented /\ posting'.shown = posting.shown
        /\ posting'.blocks = posting.blocks
    BY <1>2 DEF EditPosting, Meddle, DeliveryTypeOK, Postings
  <2>3. QED BY <2>1, <2>2 DEF ShownInv, Seen, OnceInv, AlreadyThere, RequestInv
<1>3. CASE UNCHANGED deliveryVars
  BY <1>3 DEF deliveryVars, DeliveryTypeOK, ShownInv, Seen, OnceInv, AlreadyThere, RequestInv
<1>4. QED BY <1>1, <1>2, <1>3

LEMMA DeliveryKept == DeliveryInv /\ [DeliveryNext]_deliveryVars => DeliveryInv'
<1> SUFFICES ASSUME DeliveryInv, [DeliveryNext]_deliveryVars PROVE DeliveryInv'
  OBVIOUS
<1>1. CASE Sends
  BY <1>1, StartKeeps, ReviewedKeeps, ListKeeps, PlaceKeeps, PostKeeps, BareKeeps, ThreadKeeps,
     SummaryKeeps, WithdrawKeeps, PublishedKeeps, DiesKeeps DEF Sends
<1>2. CASE \E f \in Publishable : DeleteComment(f)
  BY <1>2, DeleteKeeps
<1>3. CASE ~Sends /\ ~(\E f \in Publishable : DeleteComment(f))
  BY <1>3, OthersKeep DEF DeliveryNext
<1>4. QED BY <1>1, <1>2, <1>3

\* The invariant of publishing: what a run takes for commented was commented,
\* what it is about to comment on it knows no comment of, and it knows of
\* every request for changes unless it has a warning (review.ts:249-324).
THEOREM DeliveryInvariant == DeliverySpec => []DeliveryInv
<1>1. QED BY DeliveryFirst, DeliveryKept, PTL DEF DeliverySpec

\* Types, and the bounds on attempts (retry.ts:19-38).
THEOREM DeliveryTypes == DeliverySpec => []DeliveryTypeOK
<1>1. DeliveryInv => DeliveryTypeOK
  BY DEF DeliveryInv
<1>2. QED BY <1>1, DeliveryInvariant, PTL

\* A published finding can be read (review.ts:249-313, adapter.ts:192-226).
THEOREM EveryFindingShownAlways == DeliverySpec => []EveryFindingShown
<1>1. DeliveryInv => EveryFindingShown
  BY DEF DeliveryInv, DeliveryTypeOK, DeliveryRuns, ShownInv, Seen, EveryFindingShown
<1>2. QED BY <1>1, DeliveryInvariant, PTL

-----------------------------------------------------------------------------
\* A step that comments on a finding is one of PostReview or PostThread.
LEMMA NewComments ==
  ASSUME DeliveryInv, [DeliveryNext]_deliveryVars, NEW f \in Publishable, comments'[f] > comments[f]
  PROVE  delivery.at = "post" /\ f \in delivery.fresh
<1> USE DEF DeliveryInv
<1>1. CASE PostReview
  <2>1. delivery.fresh \in SUBSET Publishable
    BY DeliveryAssumption DEF DeliveryTypeOK, DeliveryRuns
  <2>2. f \in delivery.fresh
    BY <1>1, <2>1, CommentedTyped DEF PostReview, DeliveryTypeOK
  <2>3. QED BY <1>1, <2>2 DEF PostReview
<1>2. CASE \E g \in Publishable : PostThread(g)
  <2>1. PICK g \in Publishable : PostThread(g)
    BY <1>2
  <2>2. ~UNCHANGED comments
    BY DEF DeliveryTypeOK
  <2>3. CommentOn({g})
    BY <2>1, <2>2 DEF PostThread
  <2>4. f = g
    <3>1. f \notin {g} => comments'[f] = comments[f]
      BY <2>3, CommentedTyped
    <3>2. QED BY <3>1 DEF DeliveryTypeOK
  <2>5. QED BY <2>1, <2>4 DEF PostThread
<1>3. CASE \E g \in Publishable : DeleteComment(g)
  <2>1. comments[f] \in Nat /\ comments'[f] \in {comments[f], comments[f] - 1}
    BY <1>3 DEF DeleteComment, DeliveryTypeOK
  <2>2. QED BY <2>1
<1>4. CASE UNCHANGED comments
  BY <1>4 DEF DeliveryTypeOK
<1>5. QED
  BY <1>1, <1>2, <1>3, <1>4
  DEF DeliveryNext, Sends, StartDelivery, Reviewed, ListReviews, KeepPlaceable, RequestOnly, WriteSummaryComment,
      Withdraw, Published, Dies, LiftRequest, EditPosting, deliveryVars

\* No finding is commented on twice by runs that could know of its comment
\* (retry.ts:15-18, review.ts:254-258).
THEOREM CommentedOnceEverAlways == DeliverySpec => CommentedOnceEver
<1>1. ASSUME DeliveryInv, [DeliveryNext]_deliveryVars, NEW f \in Publishable,
             comments'[f] > comments[f], comments[f] > 0
      PROVE  ~delivery.listed /\ f \notin delivery.before.commented
  BY <1>1, NewComments DEF DeliveryInv, DeliveryTypeOK, OnceInv, AlreadyThere
<1>2. DeliveryInv /\ [DeliveryNext]_deliveryVars
        => [\A f \in Publishable :
              comments'[f] > comments[f] /\ comments[f] > 0
                => ~delivery.listed /\ f \notin delivery.before.commented]_deliveryVars
  BY <1>1
<1>3. QED BY <1>2, DeliveryInvariant, PTL DEF DeliverySpec, CommentedOnceEver

\* A step that takes a request away is one of Withdraw, or a person's.
LEMMA FewerRequests ==
  ASSUME DeliveryInv, [DeliveryNext]_deliveryVars,
         requests' \subseteq requests, requests' # requests, meddling' = meddling
  PROVE  ~posting.blocks
<1> USE DEF DeliveryInv
<1>1. CASE \E r \in 1..MaxDeliveries : Withdraw(r)
  BY <1>1 DEF Withdraw, RequestInv
<1>2. CASE \E r \in 1..MaxDeliveries : LiftRequest(r)
  BY <1>2 DEF LiftRequest, Meddle, DeliveryTypeOK
<1>3. CASE requests \subseteq requests'
  BY <1>3
<1>4. QED
  BY <1>1, <1>2, <1>3
  DEF DeliveryNext, Sends, StartDelivery, Reviewed, ListReviews, KeepPlaceable, PostReview, RequestOnly, Requested,
      PostThread, WriteSummaryComment, Published, Dies, DeleteComment, EditPosting, deliveryVars

\* The request for changes follows the verdict that can be read
\* (adapter.ts:138-186).
THEOREM RequestFollowsVerdictAlways == DeliverySpec => RequestFollowsVerdict
<1>1. DeliveryInv => (delivery.at = "ended" /\ delivery.asks /\ ~delivery.blocks /\ ~delivery.warned => requests = {})
  BY DEF DeliveryInv, RequestInv
<1>2. DeliveryInv /\ [DeliveryNext]_deliveryVars
        => [requests' \subseteq requests /\ requests' # requests /\ meddling' = meddling
              => ~posting.blocks]_deliveryVars
  BY FewerRequests
<1>3. QED BY <1>1, <1>2, DeliveryInvariant, PTL DEF DeliverySpec, RequestFollowsVerdict

-----------------------------------------------------------------------------
(* Filtering *)

PicksFirst(seq, S, g) ==
  g = [n \in 0..Len(seq) |->
         IF n = 0 THEN <<>>
         ELSE IF seq[n] \in S THEN Append(g[n - 1], seq[n]) ELSE g[n - 1]]

LEMMA PickedBy ==
  ASSUME NEW T, NEW seq \in Seq(T), NEW S
  PROVE  \E g \in [0..Len(seq) -> Seq(T)] :
           PicksFirst(seq, S, g) /\ Picked(seq, S) = g[Len(seq)]
<1> DEFINE N == Len(seq)
           TS == Seq(T)
           step == [p \in (1..N) \X TS |-> IF seq[p[1]] \in S THEN Append(p[2], seq[p[1]]) ELSE p[2]]
           pick == CHOOSE g : PicksFirst(seq, S, g)
<1>1. Picked(seq, S) = pick[N]
  BY DEF Picked, PicksFirst
<1>2. N \in Nat /\ \A n \in 1..N : seq[n] \in T
  BY LenProperties
<1>3. \A n \in 1..N, s \in TS :
        /\ step[<<n, s>>] = IF seq[n] \in S THEN Append(s, seq[n]) ELSE s
        /\ step[<<n, s>>] \in TS
  BY <1>2, AppendProperties
<1>4. step \in [(1..N) \X TS -> TS]
  <2>1. \A p \in (1..N) \X TS : p = <<p[1], p[2]>> /\ p[1] \in 1..N /\ p[2] \in TS
    OBVIOUS
  <2>2. \A p \in (1..N) \X TS : step[p] \in TS
    <3> HIDE DEF step, TS
    <3>1. QED BY <1>3, <2>1
  <2>3. QED BY <2>2
<1>5. <<>> \in TS
  OBVIOUS
<1> HIDE DEF step, TS
<1>6. PICK h \in [0..N -> TS] : Recurs(h, N, <<>>, step)
  <2> HIDE DEF N
  <2>1. QED BY <1>2, <1>4, <1>5, Recursion
<1>7. \A n \in 0..N : h[n] = IF n = 0 THEN <<>>
                             ELSE IF seq[n] \in S THEN Append(h[n - 1], seq[n]) ELSE h[n - 1]
  <2> SUFFICES ASSUME NEW n \in 0..N
               PROVE  h[n] = IF n = 0 THEN <<>>
                             ELSE IF seq[n] \in S THEN Append(h[n - 1], seq[n]) ELSE h[n - 1]
    OBVIOUS
  <2>1. n # 0 => n \in 1..N /\ n - 1 \in 0..N
    BY <1>2
  <2>2. n # 0 => h[n - 1] \in TS
    BY <1>6, <2>1
  <2>3. QED BY <1>3, <1>6, <2>1, <2>2 DEF Recurs
<1>8. PicksFirst(seq, S, h)
  BY <1>6, <1>7 DEF PicksFirst
<1>9. PicksFirst(seq, S, pick)
  BY <1>8
<1>10. DOMAIN pick = 0..N
  BY <1>9 DEF PicksFirst
<1>11. pick \in [0..N -> TS]
  <2> DEFINE G == {n \in 0..N : pick[n] \in TS}
  <2>1. 0 \in G
    <3>1. 0 \in 0..N
      BY <1>2
    <3>2. pick[0] = <<>>
      BY <1>9, <3>1 DEF PicksFirst
    <3>3. QED BY <1>5, <3>1, <3>2
  <2>2. ASSUME NEW n \in G, n + 1 \in 0..N PROVE n + 1 \in G
    <3>1. n + 1 # 0 /\ (n + 1) - 1 = n /\ n + 1 \in 1..N /\ pick[n] \in TS
      BY <1>2, <2>2
    <3>2. pick[n + 1] = IF seq[n + 1] \in S THEN Append(pick[n], seq[n + 1]) ELSE pick[n]
      BY <1>9, <2>2, <3>1 DEF PicksFirst
    <3>3. Append(pick[n], seq[n + 1]) \in TS
      BY <1>2, <3>1, AppendProperties DEF TS
    <3>4. QED BY <2>2, <3>1, <3>2, <3>3
  <2>3. G = 0..N
    <3> HIDE DEF G, N
    <3>1. G \in SUBSET (0..N)
      BY DEF G
    <3>2. QED BY <1>2, <2>1, <2>2, <3>1, AllUpTo
  <2> HIDE DEF pick
  <2>4. \A n \in 0..N : pick[n] \in TS
    BY <2>3
  <2>5. pick = [n \in 0..N |-> pick[n]]
    BY <1>9, <1>10 DEF PicksFirst
  <2>6. QED BY <2>4, <2>5
<1> HIDE DEF pick
<1>12. QED BY <1>1, <1>9, <1>11 DEF TS

\* What is picked: what is in both, in the order of the sequence, so nothing
\* more often than it was there.
LEMMA PickedIs ==
  ASSUME NEW T, NEW seq \in Seq(T), NEW S
  PROVE  /\ Picked(seq, S) \in Seq(T)
         /\ Range(Picked(seq, S)) = Range(seq) \cap S
         /\ \A x : OnceIn(seq, x) => OnceIn(Picked(seq, S), x)
<1> DEFINE N == Len(seq)
<1>1. PICK g \in [0..N -> Seq(T)] : PicksFirst(seq, S, g) /\ Picked(seq, S) = g[N]
  BY PickedBy
<1>2. N \in Nat /\ DOMAIN seq = 1..N /\ \A n \in 1..N : seq[n] \in T
  BY LenProperties
<1>3. g[0] = <<>>
  BY <1>1, <1>2 DEF PicksFirst
<1>4. \A n \in 0..N : n + 1 \in 0..N =>
        /\ n \in Nat /\ n + 1 \in 1..N
        /\ g[n + 1] = IF seq[n + 1] \in S THEN Append(g[n], seq[n + 1]) ELSE g[n]
  <2> SUFFICES ASSUME NEW n \in 0..N, n + 1 \in 0..N
               PROVE  /\ n \in Nat /\ n + 1 \in 1..N
                      /\ g[n + 1] = IF seq[n + 1] \in S THEN Append(g[n], seq[n + 1]) ELSE g[n]
    OBVIOUS
  <2>1. n \in Nat /\ n + 1 \in 1..N /\ n + 1 # 0 /\ (n + 1) - 1 = n
    BY <1>2
  <2>2. g[n + 1] = IF n + 1 = 0 THEN <<>>
                   ELSE IF seq[n + 1] \in S THEN Append(g[(n + 1) - 1], seq[n + 1]) ELSE g[(n + 1) - 1]
    BY <1>1 DEF PicksFirst
  <2>3. QED BY <2>1, <2>2
<1> HIDE DEF N
<1> DEFINE Upto(n) == {seq[m] : m \in 1..n}
           G == {n \in 0..N : Range(g[n]) = Upto(n) \cap S}
<1>5. G = 0..N
  <2>1. 0 \in G
    BY <1>2, <1>3 DEF Range
  <2>2. ASSUME NEW n \in G, n + 1 \in 0..N PROVE n + 1 \in G
    <3>1. g[n] \in Seq(T) /\ seq[n + 1] \in T /\ Range(g[n]) = Upto(n) \cap S
      BY <1>1, <1>2, <1>4, <2>2
    <3>2. Upto(n + 1) = Upto(n) \cup {seq[n + 1]}
      <4>1. \A m \in 1..(n + 1) : m \in 1..n \/ m = n + 1
        BY <1>4, <2>2
      <4>2. 1..n \subseteq 1..(n + 1) /\ n + 1 \in 1..(n + 1)
        BY <1>4, <2>2
      <4>3. QED BY <4>1, <4>2
    <3>3. Range(Append(g[n], seq[n + 1])) = Range(g[n]) \cup {seq[n + 1]}
      BY <3>1, AppendsOne
    <3> HIDE DEF Upto
    <3>4. QED BY <1>4, <2>2, <3>1, <3>2, <3>3
  <2>3. G \in SUBSET (0..N)
    OBVIOUS
  <2> HIDE DEF G
  <2>4. QED BY <1>2, <2>1, <2>2, <2>3, AllUpTo
<1>6. Range(g[N]) = Range(seq) \cap S
  <2>1. Range(g[N]) = Upto(N) \cap S
    <3>1. N \in 0..N
      BY <1>2
    <3> HIDE DEF Upto
    <3>2. QED BY <1>5, <3>1
  <2>2. Range(seq) = Upto(N)
    BY <1>2 DEF Range
  <2>3. QED BY <2>1, <2>2
<1>7. ASSUME NEW x, OnceIn(seq, x)
      PROVE  OnceIn(g[N], x)
  <2> DEFINE H == {n \in 0..N : OnceIn(g[n], x)}
  <2>1. 0 \in H
    BY <1>2, <1>3 DEF OnceIn
  <2>2. ASSUME NEW n \in H, n + 1 \in 0..N PROVE n + 1 \in H
    <3>1. g[n] \in Seq(T) /\ seq[n + 1] \in T /\ Range(g[n]) = Upto(n) \cap S /\ OnceIn(g[n], x)
      BY <1>1, <1>2, <1>4, <1>5, <2>2
    <3>2. x = seq[n + 1] => x \notin Upto(n)
      <4> SUFFICES ASSUME NEW m \in 1..n, seq[m] = x, seq[n + 1] = x PROVE FALSE
        OBVIOUS
      <4>1. m \in 1..N /\ n + 1 \in 1..N /\ m # n + 1
        BY <1>2, <1>4, <2>2
      <4>2. QED BY <1>2, <1>7, <4>1 DEF OnceIn
    <3> HIDE DEF Upto
    <3>3. OnceIn(Append(g[n], seq[n + 1]), x)
      BY <3>1, <3>2, OnceAppend
    <3>4. QED BY <1>4, <2>2, <3>1, <3>3
  <2>3. H \in SUBSET (0..N)
    OBVIOUS
  <2>4. N \in 0..N
    BY <1>2
  <2> HIDE DEF H
  <2>5. H = 0..N
    BY <1>2, <2>1, <2>2, <2>3, AllUpTo
  <2>6. QED BY <2>4, <2>5 DEF H
<1>8. QED
  <2>1. N \in 0..N
    BY <1>2
  <2>2. QED BY <1>1, <1>6, <1>7, <2>1 DEF N

-----------------------------------------------------------------------------
(* Bundles within limits *)

LEMMA PerFileHolds ==
  ASSUME NEW S, NEW s \in Seq(S)
  PROVE  /\ PerFile(s) \in Seq(Seq(S)) /\ DOMAIN PerFile(s) = DOMAIN s
         /\ FlattenSeq(PerFile(s)) = s
         /\ \A n \in DOMAIN s : PerFile(s)[n] = <<s[n]>>
<1> DEFINE N == Len(s)
           list == PerFile(s)
           cut == [n \in 0..N |-> n]
<1>1. N \in Nat /\ DOMAIN s = 1..N /\ \A n \in 1..N : s[n] \in S
  BY LenProperties
<1>2. list \in [1..N -> Seq(S)] /\ \A n \in 1..N : list[n] = <<s[n]>>
  BY <1>1 DEF PerFile
<1>3. list \in Seq(Seq(S)) /\ Len(list) = N /\ DOMAIN list = 1..N
  <2> HIDE DEF list, N
  <2>1. QED BY <1>1, <1>2, AreSeq
<1>4. ASSUME NEW n \in 1..N PROVE cut[n - 1] <= cut[n] /\ list[n] = SubSeq(s, cut[n - 1] + 1, cut[n])
  <2>1. n - 1 \in 0..N /\ n \in 0..N /\ (n - 1) + 1 = n /\ n \in Int /\ n - 1 <= n
    BY <1>1
  <2>2. \A i \in n..n : s[i] \in S
    BY <1>1
  <2>3. /\ SubSeq(s, n, n) \in Seq(S) /\ Len(SubSeq(s, n, n)) = 1
        /\ \A i \in 1..(n - n + 1) : SubSeq(s, n, n)[i] = s[n + i - 1]
    BY <2>1, <2>2, SubSeqProperties
  <2>4. SubSeq(s, n, n)[1] = s[n]
    <3>1. 1 \in 1..(n - n + 1) /\ n + 1 - 1 = n
      BY <2>1
    <3>2. SubSeq(s, n, n)[1] = s[n + 1 - 1]
      BY <2>3, <3>1
    <3>3. QED BY <3>1, <3>2
  <2>5. <<s[n]>> \in Seq(S) /\ Len(<<s[n]>>) = 1 /\ <<s[n]>>[1] = s[n]
    BY <1>1
  <2>6. SubSeq(s, n, n) = <<s[n]>>
    <3>1. PICK t, u : t = SubSeq(s, n, n) /\ u = <<s[n]>>
      OBVIOUS
    <3>2. t \in Seq(S) /\ Len(t) = 1 /\ u \in Seq(S) /\ Len(u) = 1 /\ t[1] = u[1]
      BY <2>3, <2>4, <2>5, <3>1
    <3>3. \A i \in 1..Len(t) : t[i] = u[i]
      BY <3>2
    <3>4. t = u
      BY <3>2, <3>3, SeqEqual
    <3>5. QED BY <3>1, <3>4
  <2>7. cut[n - 1] = n - 1 /\ cut[n] = n
    BY <2>1
  <2> HIDE DEF cut, list
  <2>8. QED BY <1>2, <2>1, <2>6, <2>7
<1>5. cut \in [0..N -> 0..N] /\ cut[0] = 0 /\ cut[N] = N
  BY <1>1
<1>6. FlattenSeq(list) = s
  <2> HIDE DEF cut, list
  <2>1. QED BY <1>3, <1>4, <1>5, FlattenCuts
<1>7. QED BY <1>1, <1>2, <1>3, <1>6

LEMMA ChunksHold ==
  ASSUME NEW S, NEW s \in Seq(S)
  PROVE  /\ Chunks(s) \in Seq(Seq(S))
         /\ FlattenSeq(Chunks(s)) = s
         /\ \A n \in DOMAIN Chunks(s) : Chunks(s)[n] # <<>> /\ Len(Chunks(s)[n]) <= BundleFiles
<1> DEFINE L == Len(s)
           B == BundleFiles
           N == (L + B - 1) \div B
           list == Chunks(s)
           least(n) == IF n * B < L THEN n * B ELSE L
           cut == [n \in 0..N |-> least(n)]
<1>1. L \in Nat /\ B \in Nat \ {0} /\ s \in [1..L -> S]
  BY LenProperties, PlanningAssumption
<1>2. N \in Nat /\ L <= N * B /\ \A n \in 1..N : (n - 1) * B < L
  <2> HIDE DEF L, B
  <2>1. QED BY <1>1, Pieces
<1>3. list = [n \in 1..N |-> SubSeq(s, (n - 1) * B + 1, least(n))]
  BY DEF Chunks
<1> HIDE DEF L, B, N, list
<1>4. ASSUME NEW n \in 0..N PROVE least(n) \in 0..L
  BY <1>1, <1>2
<1>5. ASSUME NEW n \in 1..N
      PROVE  /\ n - 1 \in 0..N /\ n \in 0..N
             /\ least(n - 1) = (n - 1) * B /\ least(n - 1) < least(n) /\ least(n) <= least(n - 1) + B
             /\ least(n - 1) \in 0..L /\ least(n) \in 0..L
  <2>1. n - 1 \in 0..N /\ n \in 0..N /\ (n - 1) * B < L
    BY <1>2
  <2>2. least(n - 1) \in 0..L /\ least(n) \in 0..L
    BY <1>4, <2>1
  <2>3. (n - 1) * B + B = n * B /\ (n - 1) * B \in Nat /\ n * B \in Nat
    BY <1>1, <1>2
  <2>4. least(n - 1) = (n - 1) * B
    BY <2>1
  <2>5. PICK a, b : a = (n - 1) * B /\ b = n * B
    OBVIOUS
  <2>6. least(n) = IF b < L THEN b ELSE L
    BY <2>5
  <2>7. a \in Nat /\ b \in Nat /\ a + B = b /\ a < L
    BY <2>1, <2>3, <2>5
  <2>8. a < least(n) /\ least(n) <= a + B
    <3> HIDE DEF least
    <3>1. QED BY <1>1, <2>6, <2>7
  <2>9. QED BY <2>1, <2>2, <2>4, <2>5, <2>8
<1>6. ASSUME NEW n \in 1..N
      PROVE  /\ cut[n - 1] <= cut[n] /\ list[n] = SubSeq(s, cut[n - 1] + 1, cut[n])
             /\ list[n] \in Seq(S) /\ list[n] # <<>> /\ Len(list[n]) <= B
  <2>1. cut[n - 1] = (n - 1) * B /\ cut[n] = least(n) /\ cut[n - 1] < cut[n] /\ cut[n] <= cut[n - 1] + B
    BY <1>5
  <2>2. list[n] = SubSeq(s, cut[n - 1] + 1, cut[n])
    BY <1>3, <2>1
  <2>3. PICK a, b : a = cut[n - 1] /\ b = cut[n]
    OBVIOUS
  <2>4. a \in 0..L /\ b \in 0..L
    BY <1>5, <2>3
  <2> HIDE DEF cut, least
  <2>5. a < b /\ b <= a + B /\ list[n] = SubSeq(s, a + 1, b)
    BY <2>1, <2>2, <2>3
  <2>6. a + 1 \in Int /\ b \in Int /\ \A i \in (a + 1)..b : s[i] \in S
    BY <1>1, <2>4
  <2>7. list[n] \in Seq(S) /\ Len(list[n]) = b - (a + 1) + 1
    <3>1. a + 1 <= b
      BY <2>4, <2>5
    <3>2. QED BY <2>5, <2>6, <3>1, SubSeqProperties
  <2>8. Len(list[n]) <= B /\ Len(list[n]) # 0 /\ a <= b
    BY <1>1, <2>4, <2>5, <2>7
  <2>9. list[n] # <<>>
    BY <2>8, EmptySeq
  <2>10. QED BY <2>2, <2>3, <2>7, <2>8, <2>9
<1>7. cut \in [0..N -> 0..L]
  BY <1>4
<1>8. cut[0] = 0 /\ cut[N] = L
  <2>1. 0 \in 0..N /\ N \in 0..N /\ 0 * B = 0 /\ (0 < L \/ L = 0) /\ ~(N * B < L)
    BY <1>1, <1>2
  <2>2. least(0) = 0 /\ least(N) = L
    BY <2>1
  <2>3. QED BY <2>1, <2>2
<1> HIDE DEF cut
<1>9. list \in Seq(Seq(S)) /\ Len(list) = N /\ DOMAIN list = 1..N
  <2>1. list \in [1..N -> Seq(S)]
    BY <1>3, <1>6
  <2>2. QED BY <1>2, <2>1, AreSeq
<1>10. FlattenSeq(list) = s
  BY <1>6, <1>7, <1>8, <1>9, FlattenCuts DEF L
<1>11. QED BY <1>6, <1>9, <1>10 DEF list, B

LEMMA PlacesFinite ==
  ASSUME NEW S, NEW s \in Seq(S)
  PROVE  IsFiniteSet(DOMAIN s)
<1>1. DOMAIN s = 1..Len(s) /\ Len(s) \in Nat
  BY LenProperties
<1>2. PICK n \in Nat : DOMAIN s = 1..n
  BY <1>1
<1>3. QED BY <1>2, FS_Interval

LEMMA PatchIs ==
  ASSUME NEW bundle \in Seq(Nat), \A i \in Range(bundle) : files[i].patch \in Nat
  PROVE  Patch(bundle) \in Nat
<1> DEFINE f == [i \in DOMAIN bundle |-> files[bundle[i]].patch]
<1>1. DOMAIN bundle = 1..Len(bundle) /\ Len(bundle) \in Nat
  BY LenProperties
<1>2. IsFiniteSet(DOMAIN bundle)
  BY PlacesFinite
<1>3. \A i \in DOMAIN bundle : f[i] \in Nat
  BY DEF Range
<1>4. DOMAIN f = DOMAIN bundle
  OBVIOUS
<1>5. Patch(bundle) = SumFunctionOnSet(f, DOMAIN bundle)
  BY <1>4 DEF Patch, Sum
<1> HIDE DEF f
<1>6. QED BY <1>2, <1>3, <1>5, SumType

\* Within the limits: a bundle of several files has no more than its share.
Fits(bundle) ==
  /\ bundle # <<>>
  /\ Len(bundle) <= BundleFiles
  /\ Len(bundle) > 1 => Patch(bundle) <= BundleChars

LEMMA LimitedFits ==
  ASSUME NEW chunk \in Seq(Nat), chunk # <<>>, Len(chunk) <= BundleFiles,
         \A i \in Range(chunk) : files[i].patch \in Nat
  PROVE  /\ Limited(chunk) \in Seq(Seq(Nat))
         /\ FlattenSeq(Limited(chunk)) = chunk
         /\ \A n \in DOMAIN Limited(chunk) : Fits(Limited(chunk)[n])
<1>1. CASE Len(chunk) > 1 /\ Patch(chunk) > BundleChars
  <2>1. Limited(chunk) = PerFile(chunk)
    BY <1>1 DEF Limited
  <2>2. /\ PerFile(chunk) \in Seq(Seq(Nat)) /\ FlattenSeq(PerFile(chunk)) = chunk
        /\ \A n \in DOMAIN PerFile(chunk) : PerFile(chunk)[n] = <<chunk[n]>>
    BY PerFileHolds
  <2>3. ASSUME NEW x PROVE Fits(<<x>>)
    <3>1. <<x>> # <<>> /\ Len(<<x>>) = 1
      OBVIOUS
    <3>2. QED BY <3>1, PlanningAssumption DEF Fits
  <2>4. QED BY <2>1, <2>2, <2>3
<1>2. CASE ~(Len(chunk) > 1 /\ Patch(chunk) > BundleChars)
  <2>1. Limited(chunk) = <<chunk>>
    BY <1>2 DEF Limited
  <2>2. <<chunk>> \in Seq(Seq(Nat)) /\ FlattenSeq(<<chunk>>) = chunk
    BY FlattenOne
  <2>3. Patch(chunk) \in Nat /\ BundleChars \in Nat
    BY PatchIs, PlanningAssumption
  <2>4. Fits(chunk)
    BY <1>2, <2>3 DEF Fits
  <2>5. \A n \in DOMAIN <<chunk>> : <<chunk>>[n] = chunk
    OBVIOUS
  <2>6. QED BY <2>1, <2>2, <2>4, <2>5
<1>3. QED BY <1>1, <1>2

\* What enforceLimits does to a list: nothing is lost, doubled or moved, and
\* every bundle fits.
LEMMA EnforceLimitsHolds ==
  ASSUME NEW list \in Seq(Seq(Nat)),
         \A b \in DOMAIN list : \A i \in Range(list[b]) : files[i].patch \in Nat
  PROVE  /\ EnforceLimits(list) \in Seq(Seq(Nat))
         /\ FlattenSeq(EnforceLimits(list)) = FlattenSeq(list)
         /\ \A b \in DOMAIN EnforceLimits(list) : Fits(EnforceLimits(list)[b])
<1> DEFINE cut == [b \in DOMAIN list |-> Chunks(list[b])]
           chunks == FlattenSeq(cut)
           pieces == [c \in DOMAIN chunks |-> Limited(chunks[c])]
<1>1. EnforceLimits(list) = FlattenSeq(pieces)
  BY DEF EnforceLimits, FlatMap
<1>2. DOMAIN list = 1..Len(list) /\ Len(list) \in Nat /\ \A b \in 1..Len(list) : list[b] \in Seq(Nat)
  BY LenProperties
<1>3. \A b \in 1..Len(list) :
        /\ Chunks(list[b]) \in Seq(Seq(Nat)) /\ FlattenSeq(Chunks(list[b])) = list[b]
        /\ \A n \in DOMAIN Chunks(list[b]) : Chunks(list[b])[n] # <<>> /\ Len(Chunks(list[b])[n]) <= BundleFiles
  BY <1>2, ChunksHold
<1>4. cut \in [1..Len(list) -> Seq(Seq(Nat))]
  BY <1>2, <1>3
<1>5. cut \in Seq(Seq(Seq(Nat))) /\ Len(cut) = Len(list) /\ DOMAIN cut = 1..Len(list)
  <2> HIDE DEF cut
  <2>1. QED BY <1>2, <1>4, AreSeq
<1>6. \A b \in 1..Len(list) : cut[b] = Chunks(list[b])
  BY <1>2
<1> HIDE DEF cut
<1>7. chunks \in Seq(Seq(Nat)) /\ FlattenSeq(chunks) = FlattenSeq(list)
  <2>1. \A n \in 1..Len(list) : FlattenSeq(cut[n]) = list[n]
    BY <1>3, <1>6
  <2>2. cut \in Seq(Seq(Seq(Nat))) /\ Len(cut) = Len(list)
    BY <1>5
  <2>3. FlattenSeq(cut) \in Seq(Seq(Nat)) /\ FlattenSeq(FlattenSeq(cut)) = FlattenSeq(list)
    BY ONLY list \in Seq(Seq(Nat)), <2>1, <2>2, FlattenPieces
  <2>4. QED BY <2>3
<1>8. Range(chunks) = UNION {Range(cut[b]) : b \in 1..Len(list)}
  BY <1>5, FlattenHolds
<1>9. ASSUME NEW c \in DOMAIN chunks
      PROVE  /\ chunks[c] \in Seq(Nat) /\ chunks[c] # <<>> /\ Len(chunks[c]) <= BundleFiles
             /\ \A i \in Range(chunks[c]) : files[i].patch \in Nat
  <2> HIDE DEF chunks
  <2>1. PICK b \in 1..Len(list) : chunks[c] \in Range(cut[b])
    <3>1. chunks[c] \in Range(chunks)
      BY DEF Range
    <3>2. QED BY <1>8, <3>1
  <2>2. PICK n \in DOMAIN Chunks(list[b]) : chunks[c] = Chunks(list[b])[n]
    BY <1>6, <2>1 DEF Range
  <2>3. chunks[c] # <<>> /\ Len(chunks[c]) <= BundleFiles
    BY <1>3, <2>2
  <2>4. Range(chunks[c]) \subseteq Range(list[b])
    <3>1. Range(list[b]) = UNION {Range(Chunks(list[b])[m]) : m \in DOMAIN Chunks(list[b])}
      BY <1>3, FlattenHolds
    <3>2. QED BY <2>2, <3>1
  <2>5. \A i \in Range(chunks[c]) : files[i].patch \in Nat
    BY <1>2, <2>4
  <2>6. chunks[c] \in Seq(Nat)
    <3>1. DOMAIN chunks = 1..Len(chunks)
      BY <1>7, LenProperties
    <3>2. QED BY <1>7, <3>1, LenProperties
  <2>7. QED BY <2>3, <2>5, <2>6
<1>10. DOMAIN chunks = 1..Len(chunks) /\ Len(chunks) \in Nat
  BY <1>7, LenProperties
<1> HIDE DEF chunks
<1>11. \A c \in 1..Len(chunks) :
         /\ Limited(chunks[c]) \in Seq(Seq(Nat)) /\ FlattenSeq(Limited(chunks[c])) = chunks[c]
         /\ \A n \in DOMAIN Limited(chunks[c]) : Fits(Limited(chunks[c])[n])
  BY <1>9, <1>10, LimitedFits
<1>12. pieces \in [1..Len(chunks) -> Seq(Seq(Nat))]
  BY <1>10, <1>11
<1>13. pieces \in Seq(Seq(Seq(Nat))) /\ Len(pieces) = Len(chunks) /\ DOMAIN pieces = 1..Len(chunks)
  <2> HIDE DEF pieces
  <2>1. QED BY <1>10, <1>12, AreSeq
<1>14. \A c \in 1..Len(chunks) : pieces[c] = Limited(chunks[c])
  BY <1>10
<1> HIDE DEF pieces
<1>15. FlattenSeq(pieces) \in Seq(Seq(Nat)) /\ FlattenSeq(FlattenSeq(pieces)) = FlattenSeq(chunks)
  <2>1. \A n \in 1..Len(chunks) : FlattenSeq(pieces[n]) = chunks[n]
    BY <1>11, <1>14
  <2>2. chunks \in Seq(Seq(Nat))
    BY <1>7
  <2>3. pieces \in Seq(Seq(Seq(Nat))) /\ Len(pieces) = Len(chunks)
    BY <1>13
  <2>4. FlattenSeq(pieces) \in Seq(Seq(Nat)) /\ FlattenSeq(FlattenSeq(pieces)) = FlattenSeq(chunks)
    BY ONLY <2>1, <2>2, <2>3, FlattenPieces
  <2>5. QED BY <2>4
<1>16. Range(FlattenSeq(pieces)) = UNION {Range(pieces[c]) : c \in 1..Len(chunks)}
  BY <1>13, FlattenHolds
<1>17. ASSUME NEW b \in DOMAIN FlattenSeq(pieces) PROVE Fits(FlattenSeq(pieces)[b])
  <2>1. FlattenSeq(pieces)[b] \in Range(FlattenSeq(pieces))
    BY DEF Range
  <2>2. PICK c \in 1..Len(chunks) : FlattenSeq(pieces)[b] \in Range(pieces[c])
    BY <1>16, <2>1
  <2>3. PICK n \in DOMAIN Limited(chunks[c]) : FlattenSeq(pieces)[b] = Limited(chunks[c])[n]
    BY <1>14, <2>2 DEF Range
  <2>4. QED BY <1>11, <2>3
<1>18. QED BY <1>1, <1>7, <1>15, <1>17

-----------------------------------------------------------------------------
(* What is grouped *)

\* Files of the change, each once.
Chosen(s) == s \in Seq(Nat) /\ Range(s) \subseteq DOMAIN files /\ \A x : OnceIn(s, x)

LEMMA IndexesAre ==
  ASSUME NEW S, NEW s \in Seq(S)
  PROVE  /\ Indexes(s) \in Seq(Nat) /\ Range(Indexes(s)) = DOMAIN s
         /\ \A x : OnceIn(Indexes(s), x)
<1>1. Len(s) \in Nat /\ DOMAIN s = 1..Len(s)
  BY LenProperties
<1> DEFINE f == Indexes(s)
<1>2. f \in [1..Len(s) -> Nat] /\ \A i \in 1..Len(s) : f[i] = i
  BY <1>1 DEF Indexes
<1> HIDE DEF f
<1>3. f \in Seq(Nat) /\ DOMAIN f = 1..Len(s)
  BY <1>1, <1>2, AreSeq
<1>4. QED BY <1>1, <1>2, <1>3 DEF Range, OnceIn, f

\* The files that indexes of a sequence name.
LEMMA NamedAre ==
  ASSUME NEW s \in Seq(Nat), \A x : OnceIn(s, x), NEW m \in Seq(Int), Range(m) \subseteq DOMAIN s,
         NEW f, f = [i \in DOMAIN m |-> s[m[i]]]
  PROVE  /\ f \in Seq(Nat) /\ DOMAIN f = DOMAIN m
         /\ Range(f) = {s[k] : k \in Range(m)}
         /\ \A k \in DOMAIN s : OnceIn(m, k) => OnceIn(f, s[k])
<1>1. Len(m) \in Nat /\ DOMAIN m = 1..Len(m) /\ DOMAIN s = 1..Len(s) /\ \A k \in DOMAIN s : s[k] \in Nat
  BY LenProperties
<1>2. \A i \in DOMAIN m : m[i] \in DOMAIN s
  BY DEF Range
<1>3. f \in [1..Len(m) -> Nat]
  BY <1>1, <1>2
<1>4. f \in Seq(Nat) /\ DOMAIN f = DOMAIN m
  BY <1>1, <1>3, AreSeq
<1>5. Range(f) = {s[k] : k \in Range(m)}
  <2>1. Range(f) = {f[i] : i \in DOMAIN m} /\ Range(m) = {m[i] : i \in DOMAIN m}
    BY <1>4 DEF Range
  <2>2. QED BY <2>1
<1>6. ASSUME NEW k \in DOMAIN s, OnceIn(m, k) PROVE OnceIn(f, s[k])
  <2> SUFFICES ASSUME NEW a \in DOMAIN m, NEW b \in DOMAIN m, f[a] = s[k], f[b] = s[k] PROVE a = b
    BY <1>4 DEF OnceIn
  <2>1. m[a] = k /\ m[b] = k
    BY <1>2 DEF OnceIn
  <2>2. QED BY <1>6, <2>1 DEF OnceIn
<1>7. QED BY <1>4, <1>5, <1>6

\* The files in scope and no others.
HoldsScope(list) == list \in Seq(Seq(Nat)) /\ Range(FlattenSeq(list)) = Range(scope)

LEMMA FewHold ==
  ASSUME scope \in Seq(Nat)
  PROVE  HoldsScope(<<scope>>) /\ FlattenSeq(<<scope>>) = scope
BY FlattenOne DEF HoldsScope

LEMMA ByDirectoryHolds ==
  ASSUME Chosen(scope), NEW S, files \in Seq(S)
  PROVE  HoldsScope(ByDirectory) /\ \A x : OnceIn(FlattenSeq(ByDirectory), x)
<1> DEFINE dir(n) == files[scope[n]].dir
           First == {n \in DOMAIN scope : \A m \in 1..(n - 1) : dir(m) # dir(n)}
           firsts == Picked(Indexes(scope), First)
           Of(d) == {i \in DOMAIN files : files[i].dir = dir(firsts[d])}
           list == [d \in DOMAIN firsts |-> Picked(scope, Of(d))]
<1>1. ByDirectory = list
  BY DEF ByDirectory
<1>2. scope \in Seq(Nat) /\ DOMAIN scope = 1..Len(scope) /\ Len(scope) \in Nat
  BY LenProperties DEF Chosen
<1>3. \A n \in DOMAIN scope : scope[n] \in DOMAIN files
  BY DEF Chosen, Range
<1>4. /\ firsts \in Seq(Nat) /\ Range(firsts) = DOMAIN scope \cap First
      /\ \A x : OnceIn(firsts, x)
  <2> HIDE DEF First
  <2>1. Indexes(scope) \in Seq(Nat) /\ Range(Indexes(scope)) = DOMAIN scope /\ \A x : OnceIn(Indexes(scope), x)
    BY <1>2, IndexesAre
  <2>2. QED BY <2>1, PickedIs
<1>5. Len(firsts) \in Nat /\ DOMAIN firsts = 1..Len(firsts)
  <2> HIDE DEF firsts
  <2>1. QED BY <1>4, LenProperties
<1>6. \A d \in DOMAIN firsts : firsts[d] \in First
  <2> HIDE DEF firsts, First
  <2>1. QED BY <1>4 DEF Range
<1> HIDE DEF firsts
<1>7. ASSUME NEW d \in DOMAIN firsts
      PROVE  /\ Picked(scope, Of(d)) \in Seq(Nat)
             /\ Range(Picked(scope, Of(d))) = Range(scope) \cap Of(d)
             /\ \A x : OnceIn(Picked(scope, Of(d)), x)
  <2> HIDE DEF Of
  <2>1. QED BY <1>2, PickedIs DEF Chosen
<1>8. list \in Seq(Seq(Nat)) /\ DOMAIN list = DOMAIN firsts /\ \A d \in DOMAIN firsts : list[d] = Picked(scope, Of(d))
  <2> HIDE DEF Of
  <2>1. list \in [1..Len(firsts) -> Seq(Nat)] /\ \A d \in DOMAIN firsts : list[d] = Picked(scope, Of(d))
    BY <1>5, <1>7
  <2> HIDE DEF list
  <2>2. QED BY <1>5, <2>1, AreSeq
<1> HIDE DEF list
<1>9. UNION {Range(list[d]) : d \in DOMAIN list} = Range(scope)
  <2>1. ASSUME NEW d \in DOMAIN list PROVE Range(list[d]) \subseteq Range(scope)
    BY <1>7, <1>8, ZenonT(60)
  <2>2. ASSUME NEW n \in DOMAIN scope PROVE \E d \in DOMAIN list : scope[n] \in Range(list[d])
    <3> DEFINE Same == {m \in DOMAIN scope : dir(m) = dir(n)}
    <3>1. Same \in SUBSET Nat /\ Same # {}
      BY <1>2
    <3>2. PICK m \in Same : \A k \in Same : m <= k
      <4> HIDE DEF Same
      <4>1. QED BY <3>1, LeastNumber
    <3>3. m \in First
      <4>1. ASSUME NEW k \in 1..(m - 1) PROVE dir(k) # dir(m)
        <5>1. k \in DOMAIN scope /\ ~(m <= k)
          BY <1>2, <3>2
        <5>2. QED BY <3>2, <5>1
      <4>2. QED BY <3>2, <4>1
    <3>4. PICK d \in DOMAIN firsts : firsts[d] = m
      <4> HIDE DEF First, Same
      <4>1. m \in Range(firsts)
        BY <1>4, <3>2, <3>3 DEF Same
      <4>2. QED BY <4>1 DEF Range
    <3>5. scope[n] \in Of(d) /\ scope[n] \in Range(scope)
      BY <1>3, <3>2, <3>4 DEF Range
    <3> HIDE DEF Of
    <3>6. Range(Picked(scope, Of(d))) = Range(scope) \cap Of(d)
      BY <1>7
    <3>7. d \in DOMAIN list /\ list[d] = Picked(scope, Of(d))
      BY <1>8
    <3>8. scope[n] \in Range(list[d])
      BY <3>5, <3>6, <3>7
    <3>9. QED BY <3>7, <3>8
  <2>3. \A i \in Range(scope) : \E n \in DOMAIN scope : i = scope[n]
    BY DEF Range
  <2>4. QED BY <2>1, <2>2, <2>3
<1>10. ASSUME NEW x PROVE PlacedOnce(list, x)
  <2>1. \A d \in DOMAIN list : OnceIn(list[d], x)
    <3> HIDE DEF Of
    <3>1. QED BY <1>7, <1>8
  <2>2. ASSUME NEW d \in DOMAIN list, NEW e \in DOMAIN list, x \in Range(list[d]), x \in Range(list[e])
        PROVE  d = e
    <3>1. d \in DOMAIN firsts /\ e \in DOMAIN firsts /\ x \in Of(d) /\ x \in Of(e)
      <4> HIDE DEF Of
      <4>1. QED BY <1>7, <1>8, <2>2
    <3>2. dir(firsts[d]) = dir(firsts[e])
      BY <3>1
    <3>3. firsts[d] \in First /\ firsts[e] \in First
      BY <1>6, <3>1
    <3>4. PICK a, b : a = firsts[d] /\ b = firsts[e]
      OBVIOUS
    <3>5. a \in First /\ b \in First /\ dir(a) = dir(b)
      BY <3>2, <3>3, <3>4
    <3>6. a = b
      <4>1. a \in 1..Len(scope) /\ b \in 1..Len(scope)
        BY <1>2, <3>5
      <4>2. ~(a \in 1..(b - 1)) /\ ~(b \in 1..(a - 1))
        BY <3>5
      <4>3. QED BY <1>2, <4>1, <4>2
    <3>7. QED BY <1>4, <3>1, <3>4, <3>6 DEF OnceIn
  <2>3. QED BY <2>1, <2>2 DEF PlacedOnce
<1>11. Range(FlattenSeq(list)) = Range(scope) /\ \A x : OnceIn(FlattenSeq(list), x)
  BY <1>8, <1>9, <1>10, FlattenHolds, FlattenOnce
<1>12. QED BY <1>1, <1>8, <1>11 DEF HoldsScope

\* A group that names a file twice.
NamesTwice(group, x) ==
  Cardinality({n \in DOMAIN group : group[n] \in DOMAIN scope /\ scope[group[n]] = x}) > 1

\* What is taken of the groups so far.
Accs == [taken : SUBSET (DOMAIN scope), list : Seq(Seq(Nat))]
TakenIs(acc) == Range(FlattenSeq(acc.list)) = {scope[k] : k \in acc.taken}

LEMMA NamedTwice ==
  ASSUME Chosen(scope), NEW group \in Seq(Int), NEW k \in DOMAIN scope, ~OnceIn(group, k)
  PROVE  NamesTwice(group, scope[k])
<1> DEFINE at == {n \in DOMAIN group : group[n] \in DOMAIN scope /\ scope[group[n]] = scope[k]}
<1>1. Len(group) \in Nat /\ DOMAIN group = 1..Len(group)
  BY LenProperties
<1>2. PICK m \in DOMAIN group, n \in DOMAIN group : group[m] = k /\ group[n] = k /\ m # n
  BY DEF OnceIn
<1>3. m \in at /\ n \in at
  BY <1>2
<1>4. IsFiniteSet(DOMAIN group)
  BY PlacesFinite
<1>5. at \in SUBSET (DOMAIN group)
  OBVIOUS
<1> HIDE DEF at
<1>6. IsFiniteSet(at) /\ Cardinality(at) \in Nat
  BY <1>4, <1>5, FS_Subset, FS_CardinalityType
<1>7. Cardinality(at) # 0
  BY <1>3, <1>6, FS_EmptySet
<1>8. Cardinality(at) # 1
  BY <1>2, <1>3, <1>6, FS_Singleton
<1>9. Cardinality(at) > 1
  BY <1>6, <1>7, <1>8
<1>10. QED BY <1>9 DEF NamesTwice, at

LEMMA AddGroupIs ==
  ASSUME Chosen(scope), NEW acc \in Accs, NEW group \in Seq(Int)
  PROVE  /\ AddGroup(acc, group) \in Accs
         /\ TakenIs(acc) =>
              /\ TakenIs(AddGroup(acc, group))
              /\ \A x : OnceIn(FlattenSeq(acc.list), x) /\ ~NamesTwice(group, x)
                          => OnceIn(FlattenSeq(AddGroup(acc, group).list), x)
<1> DEFINE Free == DOMAIN scope \ acc.taken
           members == Picked(group, Free)
           f == [i \in DOMAIN members |-> scope[members[i]]]
           new == AddGroup(acc, group)
<1>1. /\ new.taken = acc.taken \cup Range(members)
      /\ new.list = IF members = <<>> THEN acc.list ELSE Append(acc.list, f)
      /\ new = [taken |-> new.taken, list |-> new.list]
  BY DEF AddGroup
<1>2. acc.taken \in SUBSET (DOMAIN scope) /\ acc.list \in Seq(Seq(Nat))
  BY DEF Accs
<1>3. /\ members \in Seq(Int) /\ Range(members) = Range(group) \cap Free
      /\ \A x : OnceIn(group, x) => OnceIn(members, x)
  <2> HIDE DEF Free
  <2>1. QED BY PickedIs
<1>4. Range(members) \subseteq DOMAIN scope /\ Range(members) \cap acc.taken = {}
  BY <1>3
<1> HIDE DEF members
<1>5. /\ f \in Seq(Nat) /\ DOMAIN f = DOMAIN members /\ Range(f) = {scope[k] : k \in Range(members)}
      /\ \A k \in DOMAIN scope : OnceIn(members, k) => OnceIn(f, scope[k])
  <2>1. PICK g : g = f
    OBVIOUS
  <2> HIDE DEF f
  <2>2. scope \in Seq(Nat) /\ \A x : OnceIn(scope, x)
    BY DEF Chosen
  <2>3. g = [i \in DOMAIN members |-> scope[members[i]]]
    BY <2>1 DEF f
  <2>4. /\ g \in Seq(Nat) /\ DOMAIN g = DOMAIN members /\ Range(g) = {scope[k] : k \in Range(members)}
        /\ \A k \in DOMAIN scope : OnceIn(members, k) => OnceIn(g, scope[k])
    BY <1>3, <1>4, <2>2, <2>3, NamedAre
  <2>5. QED BY <2>1, <2>4
<1> HIDE DEF f, new
<1>6. new \in Accs
  <2>1. new.taken \in SUBSET (DOMAIN scope)
    BY <1>1, <1>2, <1>4
  <2>2. new.list \in Seq(Seq(Nat))
    BY <1>1, <1>2, <1>5, AppendProperties
  <2>3. QED BY <1>1, <2>1, <2>2 DEF Accs
<1>7. ASSUME TakenIs(acc)
      PROVE  /\ TakenIs(new)
             /\ \A x : OnceIn(FlattenSeq(acc.list), x) /\ ~NamesTwice(group, x)
                         => OnceIn(FlattenSeq(new.list), x)
  <2>1. CASE members = <<>>
    <3>1. Range(members) = {}
      BY <2>1 DEF Range
    <3>2. new.list = acc.list /\ new.taken = acc.taken
      BY <1>1, <2>1, <3>1
    <3>3. QED BY <1>7, <3>2 DEF TakenIs
  <2>2. CASE members # <<>>
    <3>1. new.list = acc.list \o <<f>> /\ <<f>> \in Seq(Seq(Nat)) /\ FlattenSeq(<<f>>) = f
      BY <1>1, <1>2, <1>5, <2>2, AppendIsConcat, FlattenOne
    <3>2. FlattenSeq(acc.list) \in Seq(Nat)
      BY <1>2, FlattenHolds
    <3>3. FlattenSeq(new.list) = FlattenSeq(acc.list) \o f
      <4>1. FlattenSeq(acc.list \o <<f>>) = FlattenSeq(acc.list) \o FlattenSeq(<<f>>)
        BY <1>2, <3>1, FlattenConcat
      <4>2. QED BY <3>1, <4>1
    <3>4. Range(FlattenSeq(new.list)) = Range(FlattenSeq(acc.list)) \cup Range(f)
      BY <1>5, <3>2, <3>3, RangeConcatenation
    <3>5. TakenIs(new)
      BY <1>1, <1>5, <1>7, <3>4 DEF TakenIs
    <3>6. ASSUME NEW x, OnceIn(FlattenSeq(acc.list), x), ~NamesTwice(group, x)
          PROVE  OnceIn(FlattenSeq(new.list), x)
      <4>1. OnceIn(f, x)
        <5>1. CASE x \in Range(f)
          <6>1. PICK k \in Range(members) : x = scope[k]
            BY <1>5, <5>1
          <6>2. k \in DOMAIN scope
            BY <1>4
          <6>3. OnceIn(group, k)
            BY <3>6, <6>1, <6>2, NamedTwice
          <6>4. QED BY <1>3, <1>5, <6>1, <6>2, <6>3
        <5>2. CASE x \notin Range(f)
          BY <5>2 DEF OnceIn, Range
        <5>3. QED BY <5>1, <5>2
      <4>2. ~(x \in Range(FlattenSeq(acc.list)) /\ x \in Range(f))
        <5> SUFFICES ASSUME x \in Range(FlattenSeq(acc.list)), x \in Range(f) PROVE FALSE
          OBVIOUS
        <5>1. PICK k \in Range(members) : x = scope[k]
          BY <1>5
        <5>2. PICK j \in acc.taken : x = scope[j]
          BY <1>7 DEF TakenIs
        <5>3. k \in DOMAIN scope /\ j \in DOMAIN scope /\ k # j
          BY <1>2, <1>4, <5>1, <5>2
        <5>4. OnceIn(scope, x)
          BY DEF Chosen
        <5>5. QED BY <5>1, <5>2, <5>3, <5>4 DEF OnceIn
      <4>3. OnceIn(FlattenSeq(acc.list) \o f, x)
        BY <1>5, <3>2, <3>6, <4>1, <4>2, OnceConcat
      <4>4. QED BY <3>3, <4>3
    <3>7. QED BY <3>5, <3>6
  <2>3. QED BY <2>1, <2>2
<1>8. QED BY <1>6, <1>7 DEF new

GroupsFirst(groups, g) ==
  g = [n \in 0..Len(groups) |->
         IF n = 0 THEN [taken |-> {}, list |-> <<>>] ELSE AddGroup(g[n - 1], groups[n])]

LEMMA GroupedBy ==
  ASSUME Chosen(scope), NEW groups \in Seq(Seq(Int))
  PROVE  \E g \in [0..Len(groups) -> Accs] :
           /\ GroupsFirst(groups, g)
           /\ LET acc == g[Len(groups)]
                  missing == Picked(Indexes(scope), DOMAIN scope \ acc.taken)
              IN  Grouped(groups) = acc.list \o [i \in DOMAIN missing |-> <<scope[missing[i]]>>]
<1> DEFINE N == Len(groups)
           none == [taken |-> {}, list |-> <<>>]
           step == [p \in (1..N) \X Accs |-> AddGroup(p[2], groups[p[1]])]
           pick == CHOOSE g : GroupsFirst(groups, g)
<1>1. LET acc == pick[N]
          missing == Picked(Indexes(scope), DOMAIN scope \ acc.taken)
      IN  Grouped(groups) = acc.list \o [i \in DOMAIN missing |-> <<scope[missing[i]]>>]
  BY DEF Grouped, GroupsFirst
<1>2. N \in Nat /\ \A n \in 1..N : groups[n] \in Seq(Int)
  BY LenProperties
<1>3. \A n \in 1..N, acc \in Accs :
        step[<<n, acc>>] = AddGroup(acc, groups[n]) /\ step[<<n, acc>>] \in Accs
  BY <1>2, AddGroupIs
<1>4. step \in [(1..N) \X Accs -> Accs]
  <2>1. \A p \in (1..N) \X Accs : p = <<p[1], p[2]>> /\ p[1] \in 1..N /\ p[2] \in Accs
    OBVIOUS
  <2>2. \A p \in (1..N) \X Accs : step[p] \in Accs
    <3> HIDE DEF step
    <3>1. QED BY <1>3, <2>1
  <2>3. QED BY <2>2
<1>5. none \in Accs
  BY DEF Accs
<1> HIDE DEF step, none
<1>6. PICK h \in [0..N -> Accs] : Recurs(h, N, none, step)
  <2> HIDE DEF N
  <2>1. QED BY <1>2, <1>4, <1>5, Recursion
<1>7. \A n \in 0..N : h[n] = IF n = 0 THEN none ELSE AddGroup(h[n - 1], groups[n])
  <2> SUFFICES ASSUME NEW n \in 0..N
               PROVE  h[n] = IF n = 0 THEN none ELSE AddGroup(h[n - 1], groups[n])
    OBVIOUS
  <2>1. n # 0 => n \in 1..N /\ n - 1 \in 0..N
    BY <1>2
  <2>2. n # 0 => h[n - 1] \in Accs
    BY <1>6, <2>1
  <2>3. QED BY <1>3, <1>6, <2>1, <2>2 DEF Recurs
<1>8. GroupsFirst(groups, h)
  BY <1>6, <1>7 DEF GroupsFirst, none
<1>9. GroupsFirst(groups, pick)
  BY <1>8
<1> HIDE DEF pick
<1>10. DOMAIN pick = 0..N /\ \A n \in 0..N : pick[n] = IF n = 0 THEN none ELSE AddGroup(pick[n - 1], groups[n])
  BY <1>9 DEF GroupsFirst, none
<1> DEFINE G == {n \in 0..N : pick[n] \in Accs}
<1>11. 0 \in G
  <2>1. 0 \in 0..N
    BY <1>2
  <2>2. QED BY <1>5, <1>10, <2>1
<1>12. ASSUME NEW n \in G, n + 1 \in 0..N PROVE n + 1 \in G
  <2>1. n + 1 # 0 /\ (n + 1) - 1 = n /\ n + 1 \in 1..N /\ pick[n] \in Accs /\ n \in 0..N
    BY <1>2, <1>12
  <2>2. pick[n + 1] = AddGroup(pick[n], groups[n + 1])
    BY <1>10, <1>12, <2>1
  <2>3. AddGroup(pick[n], groups[n + 1]) \in Accs
    BY <1>2, <2>1, AddGroupIs
  <2>4. QED BY <1>12, <2>2, <2>3
<1>13. G \in SUBSET (0..N)
  OBVIOUS
<1>14. pick \in [0..N -> Accs]
  <2>1. G = 0..N
    <3> HIDE DEF G, N
    <3>1. QED BY <1>2, <1>11, <1>12, <1>13, AllUpTo
  <2>2. \A n \in 0..N : pick[n] \in Accs
    BY <2>1
  <2>3. pick = [n \in 0..N |-> pick[n]]
    BY <1>9, <1>10 DEF GroupsFirst
  <2>4. QED BY <2>2, <2>3
<1>15. QED BY <1>1, <1>9, <1>14 DEF N

\* Whatever it answers: the files in scope, each once unless a group named it twice.
LEMMA GroupedHolds ==
  ASSUME Chosen(scope), NEW groups \in Seq(Seq(Int))
  PROVE  /\ HoldsScope(Grouped(groups))
         /\ \A x : \/ OnceIn(FlattenSeq(Grouped(groups)), x)
                   \/ \E g \in DOMAIN groups : NamesTwice(groups[g], x)
<1> DEFINE N == Len(groups)
<1>1. PICK g \in [0..N -> Accs] :
        /\ GroupsFirst(groups, g)
        /\ LET acc == g[N]
               missing == Picked(Indexes(scope), DOMAIN scope \ acc.taken)
           IN  Grouped(groups) = acc.list \o [i \in DOMAIN missing |-> <<scope[missing[i]]>>]
  BY GroupedBy
<1>2. N \in Nat /\ DOMAIN groups = 1..N /\ \A n \in 1..N : groups[n] \in Seq(Int)
  BY LenProperties
<1>3. \A n \in 0..N : g[n] = IF n = 0 THEN [taken |-> {}, list |-> <<>>] ELSE AddGroup(g[n - 1], groups[n])
  BY <1>1 DEF GroupsFirst
<1> DEFINE Once(n) == \A x : OnceIn(FlattenSeq(g[n].list), x) \/ \E k \in 1..n : NamesTwice(groups[k], x)
           G == {n \in 0..N : TakenIs(g[n]) /\ Once(n)}
<1> HIDE DEF N
<1>4. 0 \in G
  <2>1. 0 \in 0..N /\ g[0] = [taken |-> {}, list |-> <<>>]
    BY <1>2, <1>3
  <2>2. FlattenSeq(g[0].list) = <<>> /\ g[0].taken = {}
    BY <2>1, FlattenNone
  <2>3. TakenIs(g[0])
    BY <2>2 DEF TakenIs, Range
  <2>4. Once(0)
    BY <2>2 DEF OnceIn
  <2>5. QED BY <2>1, <2>3, <2>4
<1>5. ASSUME NEW n \in G, n + 1 \in 0..N PROVE n + 1 \in G
  <2>1. n \in 0..N /\ n + 1 # 0 /\ (n + 1) - 1 = n /\ n + 1 \in 1..N /\ g[n] \in Accs
    BY <1>1, <1>2, <1>5
  <2>2. g[n + 1] = AddGroup(g[n], groups[n + 1])
    BY <1>3, <1>5, <2>1
  <2>3. groups[n + 1] \in Seq(Int) /\ TakenIs(g[n]) /\ Once(n)
    BY <1>2, <1>5, <2>1
  <2>4. TakenIs(g[n + 1])
    BY <2>1, <2>2, <2>3, AddGroupIs
  <2>5. ASSUME NEW x
        PROVE OnceIn(FlattenSeq(g[n + 1].list), x) \/ \E k \in 1..(n + 1) : NamesTwice(groups[k], x)
    <3>1. n + 1 \in 1..(n + 1) /\ \A k \in 1..n : k \in 1..(n + 1)
      BY <1>2, <2>1
    <3>2. CASE \E k \in 1..n : NamesTwice(groups[k], x)
      BY <3>1, <3>2
    <3>3. CASE NamesTwice(groups[n + 1], x)
      BY <3>1, <3>3
    <3>4. CASE OnceIn(FlattenSeq(g[n].list), x) /\ ~NamesTwice(groups[n + 1], x)
      BY <2>1, <2>2, <2>3, <3>4, AddGroupIs
    <3>5. QED BY <2>3, <3>2, <3>3, <3>4
  <2>6. QED BY <1>5, <2>4, <2>5
<1>6. N \in G
  <2>1. G \in SUBSET (0..N) /\ N \in 0..N
    BY <1>2
  <2> HIDE DEF G
  <2>2. QED BY <1>2, <1>4, <1>5, <2>1, AllUpTo
<1> DEFINE acc == g[N]
           Left == DOMAIN scope \ acc.taken
           missing == Picked(Indexes(scope), Left)
           names == [i \in DOMAIN missing |-> scope[missing[i]]]
           single == [i \in DOMAIN missing |-> <<scope[missing[i]]>>]
<1>7. /\ acc \in Accs /\ TakenIs(acc)
      /\ \A x : OnceIn(FlattenSeq(acc.list), x) \/ \E k \in DOMAIN groups : NamesTwice(groups[k], x)
  BY <1>1, <1>2, <1>6
<1>8. Grouped(groups) = acc.list \o single
  BY <1>1 DEF N
<1> HIDE DEF acc, G
<1>9. acc.list \in Seq(Seq(Nat)) /\ acc.taken \subseteq DOMAIN scope
  BY <1>7 DEF Accs
<1>10. scope \in Seq(Nat) /\ \A x : OnceIn(scope, x)
  BY DEF Chosen
<1>11. missing \in Seq(Nat) /\ Range(missing) = Left /\ \A x : OnceIn(missing, x)
  <2>1. Indexes(scope) \in Seq(Nat) /\ Range(Indexes(scope)) = DOMAIN scope /\ \A x : OnceIn(Indexes(scope), x)
    BY <1>10, IndexesAre
  <2>2. Left \subseteq DOMAIN scope
    OBVIOUS
  <2> HIDE DEF Left
  <2>3. /\ missing \in Seq(Nat) /\ Range(missing) = Range(Indexes(scope)) \cap Left
        /\ \A x : OnceIn(Indexes(scope), x) => OnceIn(missing, x)
    BY <2>1, PickedIs
  <2>4. DOMAIN scope \cap Left = Left
    BY <2>2
  <2> HIDE DEF missing
  <2>5. QED BY <2>1, <2>3, <2>4
<1>12. missing \in Seq(Int) /\ Range(missing) \subseteq DOMAIN scope
  <2> HIDE DEF missing
  <2>1. missing \in Seq(Int)
    BY <1>11, SeqMonotonic
  <2>2. QED BY <1>11, <2>1
<1> HIDE DEF missing, Left
<1>13. /\ names \in Seq(Nat) /\ DOMAIN names = DOMAIN missing
       /\ Range(names) = {scope[k] : k \in Left}
       /\ \A k \in DOMAIN scope : OnceIn(missing, k) => OnceIn(names, scope[k])
  <2>1. names = [i \in DOMAIN missing |-> scope[missing[i]]]
    OBVIOUS
  <2> HIDE DEF names
  <2>2. QED BY <1>10, <1>11, <1>12, <2>1, NamedAre
<1>14. single = PerFile(names)
  <2>1. \A i \in DOMAIN missing : <<names[i]>> = <<scope[missing[i]]>>
    OBVIOUS
  <2> HIDE DEF names
  <2>2. QED BY <1>13, <2>1 DEF PerFile
<1> HIDE DEF names, single
<1>15. single \in Seq(Seq(Nat)) /\ FlattenSeq(single) = names
  BY <1>13, <1>14, PerFileHolds
<1>16. /\ Grouped(groups) \in Seq(Seq(Nat))
       /\ FlattenSeq(Grouped(groups)) = FlattenSeq(acc.list) \o names
  <2>1. acc.list \o single \in Seq(Seq(Nat))
    BY <1>9, <1>15, ConcatProperties
  <2>2. FlattenSeq(acc.list \o single) = FlattenSeq(acc.list) \o FlattenSeq(single)
    BY <1>9, <1>15, FlattenConcat
  <2>3. QED BY <1>8, <1>15, <2>1, <2>2
<1>17. FlattenSeq(acc.list) \in Seq(Nat)
  BY <1>9, FlattenHolds
<1>18. Range(FlattenSeq(Grouped(groups))) = {scope[k] : k \in DOMAIN scope}
  <2>1. Range(FlattenSeq(Grouped(groups))) = Range(FlattenSeq(acc.list)) \cup Range(names)
    BY <1>13, <1>16, <1>17, RangeConcatenation
  <2>2. acc.taken \cup Left = DOMAIN scope
    BY <1>9 DEF Left
  <2>3. QED BY <1>7, <1>13, <2>1, <2>2 DEF TakenIs
<1>19. ASSUME NEW x, OnceIn(FlattenSeq(acc.list), x) PROVE OnceIn(FlattenSeq(Grouped(groups)), x)
  <2>1. OnceIn(names, x)
    <3>1. CASE x \in Range(names)
      <4>1. PICK k \in Left : x = scope[k]
        BY <1>13, <3>1
      <4>2. k \in DOMAIN scope
        BY DEF Left
      <4>3. QED BY <1>11, <1>13, <4>1, <4>2
    <3>2. CASE x \notin Range(names)
      BY <3>2 DEF OnceIn, Range
    <3>3. QED BY <3>1, <3>2
  <2>2. ~(x \in Range(FlattenSeq(acc.list)) /\ x \in Range(names))
    <3> SUFFICES ASSUME x \in Range(FlattenSeq(acc.list)), x \in Range(names) PROVE FALSE
      OBVIOUS
    <3>1. PICK k \in Left : x = scope[k]
      BY <1>13
    <3>2. PICK j \in acc.taken : x = scope[j]
      BY <1>7 DEF TakenIs
    <3>3. k \in DOMAIN scope /\ j \in DOMAIN scope /\ k # j
      BY <1>9 DEF Left
    <3>4. QED BY <1>10, <3>1, <3>2, <3>3 DEF OnceIn
  <2>3. QED BY <1>13, <1>16, <1>17, <1>19, <2>1, <2>2, OnceConcat
<1>20. Range(scope) = {scope[k] : k \in DOMAIN scope}
  BY DEF Range
<1>21. HoldsScope(Grouped(groups))
  BY <1>16, <1>18, <1>20 DEF HoldsScope
<1>22. QED BY <1>7, <1>19, <1>21

-----------------------------------------------------------------------------
(* The plan as it grows *)

Bundled(list, groups) ==
  /\ HoldsScope(list)
  /\ \A b \in DOMAIN list : Fits(list[b])
  /\ \A x : \/ OnceIn(FlattenSeq(list), x)
            \/ \E g \in DOMAIN groups : NamesTwice(groups[g], x)

LEMMA PatchesAre ==
  ASSUME files \in Seq(Changes)
  PROVE  \A i \in DOMAIN files : files[i] \in File /\ files[i].patch \in Nat
<1>1. \A i \in DOMAIN files : files[i] \in Changes
  BY LenProperties
<1>2. QED BY <1>1, PlanningAssumption DEF File

LEMMA EnforcedHolds ==
  ASSUME files \in Seq(Changes), Chosen(scope), NEW list, HoldsScope(list)
  PROVE  /\ HoldsScope(EnforceLimits(list))
         /\ \A b \in DOMAIN EnforceLimits(list) : Fits(EnforceLimits(list)[b])
         /\ FlattenSeq(EnforceLimits(list)) = FlattenSeq(list)
<1>1. list \in Seq(Seq(Nat)) /\ Range(FlattenSeq(list)) = Range(scope)
  BY DEF HoldsScope
<1>2. \A b \in DOMAIN list : \A i \in Range(list[b]) : files[i].patch \in Nat
  <2>1. Range(FlattenSeq(list)) = UNION {Range(list[b]) : b \in DOMAIN list}
    BY <1>1, FlattenHolds
  <2>2. Range(scope) \subseteq DOMAIN files
    BY DEF Chosen
  <2>3. \A b \in DOMAIN list : \A i \in Range(list[b]) : i \in DOMAIN files
    BY <1>1, <2>1, <2>2
  <2>4. QED BY <2>3, PatchesAre
<1>3. QED BY <1>1, <1>2, EnforceLimitsHolds DEF HoldsScope

LEMMA UngroupedHolds ==
  ASSUME files \in Seq(Changes), Chosen(scope), NEW groups
  PROVE  Bundled(Ungrouped, groups)
<1>1. scope \in Seq(Nat) /\ Len(scope) \in Nat /\ \A x : OnceIn(scope, x)
  BY LenProperties DEF Chosen
<1>2. Bundled(PerFile(scope), groups)
  <2>1. /\ PerFile(scope) \in Seq(Seq(Nat)) /\ DOMAIN PerFile(scope) = DOMAIN scope
        /\ FlattenSeq(PerFile(scope)) = scope /\ \A n \in DOMAIN scope : PerFile(scope)[n] = <<scope[n]>>
    BY <1>1, PerFileHolds
  <2>2. ASSUME NEW x PROVE Fits(<<x>>)
    <3>1. <<x>> # <<>> /\ Len(<<x>>) = 1
      OBVIOUS
    <3>2. QED BY <3>1, PlanningAssumption DEF Fits
  <2>3. QED BY <1>1, <2>1, <2>2 DEF Bundled, HoldsScope
<1>3. Bundled(EnforceLimits(<<scope>>), groups)
  BY <1>1, FewHold, EnforcedHolds DEF Bundled
<1>4. Bundled(EnforceLimits(ByDirectory), groups)
  BY ByDirectoryHolds, EnforcedHolds DEF Bundled
<1>5. \/ Ungrouped = PerFile(scope)
      \/ Ungrouped = EnforceLimits(<<scope>>)
      \/ Ungrouped = EnforceLimits(ByDirectory)
  <2>1. Len(scope) <= 1 \/ (Len(scope) > 1 /\ Len(scope) < GroupingMin) \/ (Len(scope) > 1 /\ Len(scope) >= GroupingMin)
    BY <1>1, PlanningAssumption
  <2>2. CASE Len(scope) <= 1
    BY <1>1, <2>2 DEF Ungrouped
  <2>3. CASE Len(scope) > 1 /\ Len(scope) < GroupingMin
    BY <1>1, <2>3, PlanningAssumption DEF Ungrouped
  <2>4. CASE Len(scope) > 1 /\ Len(scope) >= GroupingMin
    BY <1>1, <2>4, PlanningAssumption DEF Ungrouped
  <2>5. QED BY <2>1, <2>2, <2>3, <2>4
<1>6. QED BY <1>2, <1>3, <1>4, <1>5

LEMMA AnsweredHolds ==
  ASSUME files \in Seq(Changes), Chosen(scope), NEW groups \in Seq(Seq(Int))
  PROVE  Bundled(EnforceLimits(Grouped(groups)), groups)
BY GroupedHolds, EnforcedHolds DEF Bundled

\* An earlier run's bundles that cover the scope.
Reused(list) ==
  /\ HoldsScope(list)
  /\ \A b \in DOMAIN list : list[b] # <<>>
  /\ \A x : OnceIn(FlattenSeq(list), x)

\* As many, each once and none that is not in scope: all of it.
LEMMA CoversAll ==
  ASSUME NEW listed, listed \in Seq(Nat), Chosen(scope), Len(listed) = Len(scope), IsInjective(listed),
         Range(listed) \subseteq Range(scope)
  PROVE  Range(listed) = Range(scope)
<1> DEFINE n == Len(scope)
           S == Range(scope)
<1>1. n \in Nat /\ DOMAIN scope = 1..n /\ DOMAIN listed = 1..n /\ scope \in Seq(Nat)
  BY LenProperties DEF Chosen
<1>2. scope \in [1..n -> S] /\ listed \in [1..n -> S]
  BY <1>1, LenProperties DEF Range
<1> HIDE DEF n, S
<1>3. IsFiniteSet(1..n) /\ Cardinality(1..n) = n
  BY <1>1, FS_Interval
<1>4. IsInjective(scope)
  BY <1>1 DEF Chosen, OnceIn, IsInjective
<1>5. scope \in Surjection(1..n, S) /\ scope \in Injection(1..n, S)
  BY <1>1, <1>2, <1>4 DEF Surjection, Injection, Range, S
<1>6. IsFiniteSet(S) /\ Cardinality(S) = Cardinality(1..n)
  BY <1>3, <1>5, FS_Surjection
<1>7. listed \in Injection(1..n, S)
  BY <1>2 DEF Injection
<1>8. listed \in Surjection(1..n, S)
  BY <1>6, <1>7, FS_Injection
<1>9. QED BY <1>1, <1>8 DEF Surjection, Range, S

LEMMA CoveredHolds ==
  ASSUME Chosen(scope), NEW earlier \in Earlier, Covers(earlier)
  PROVE  Reused(earlier)
<1>1. earlier \in Seq(Seq(Nat)) /\ \A b \in DOMAIN earlier : earlier[b] # <<>>
  <2>1. earlier \in Seq(Seq(Nat) \ {<<>>})
    BY PlanningAssumption
  <2>2. Len(earlier) \in Nat /\ DOMAIN earlier = 1..Len(earlier)
        /\ \A b \in DOMAIN earlier : earlier[b] \in Seq(Nat) \ {<<>>}
    BY <2>1, LenProperties
  <2>3. earlier \in [1..Len(earlier) -> Seq(Nat)]
    BY <2>1, <2>2
  <2>4. earlier \in Seq(Seq(Nat))
    BY <2>2, <2>3, AreSeq
  <2>5. QED BY <2>2, <2>4
<1>2. PICK listed : /\ listed = FlattenSeq(earlier)
                    /\ Len(listed) = Len(scope) /\ IsInjective(listed)
                    /\ Range(listed) \subseteq Range(scope)
  BY DEF Covers
<1>3. listed \in Seq(Nat)
  BY <1>1, <1>2, FlattenHolds
<1>4. Range(listed) = Range(scope)
  BY <1>2, <1>3, CoversAll
<1>5. \A x : OnceIn(listed, x)
  BY <1>2 DEF OnceIn, IsInjective
<1>6. QED BY <1>1, <1>2, <1>4, <1>5 DEF Reused, HoldsScope

\* A file that is once among the files of the bundles has one place.
LEMMA OnePlace ==
  ASSUME bundles \in Seq(Seq(Nat)), NEW i, i \in Range(FlattenSeq(bundles)), OnceIn(FlattenSeq(bundles), i)
  PROVE  Cardinality(Places(i)) = 1
<1>1. Range(FlattenSeq(bundles)) = UNION {Range(bundles[b]) : b \in DOMAIN bundles}
  BY FlattenHolds
<1>2. PlacedOnce(bundles, i)
  BY FlattenOnce
<1>3. PICK b \in DOMAIN bundles : i \in Range(bundles[b])
  BY <1>1
<1>4. PICK n \in DOMAIN bundles[b] : bundles[b][n] = i
  BY <1>3 DEF Range
<1>5. <<b, n>> \in Places(i)
  BY <1>4 DEF Places
<1>6. ASSUME NEW p \in Places(i) PROVE p = <<b, n>>
  <2>1. p[1] \in DOMAIN bundles /\ p[2] \in DOMAIN bundles[p[1]] /\ bundles[p[1]][p[2]] = i /\ p = <<p[1], p[2]>>
    BY DEF Places
  <2>2. i \in Range(bundles[p[1]])
    BY <2>1 DEF Range
  <2>3. p[1] = b
    BY <1>2, <1>3, <2>1, <2>2 DEF PlacedOnce
  <2>4. p[2] = n
    BY <1>2, <1>4, <2>1, <2>3 DEF PlacedOnce, OnceIn
  <2>5. QED BY <2>1, <2>3, <2>4
<1>7. Places(i) = {<<b, n>>}
  BY <1>5, <1>6
<1>8. QED BY <1>7, FS_Singleton

\* What BundlesHoldScope says of both.
LEMMA ReusedPlaces ==
  ASSUME Reused(bundles)
  PROVE  /\ UNION {Range(bundles[b]) : b \in DOMAIN bundles} = Range(scope)
         /\ \A i \in Range(scope) : Cardinality(Places(i)) = 1
<1>1. bundles \in Seq(Seq(Nat)) /\ Range(FlattenSeq(bundles)) = Range(scope)
      /\ \A x : OnceIn(FlattenSeq(bundles), x)
  BY DEF Reused, HoldsScope
<1>2. Range(FlattenSeq(bundles)) = UNION {Range(bundles[b]) : b \in DOMAIN bundles}
  BY <1>1, FlattenHolds
<1>3. QED BY <1>1, <1>2, OnePlace

LEMMA PlacesAre ==
  ASSUME Bundled(bundles, answer), Chosen(scope)
  PROVE  /\ UNION {Range(bundles[b]) : b \in DOMAIN bundles} = Range(scope)
         /\ \A b \in DOMAIN bundles :
              Len(bundles[b]) > 1 => Len(bundles[b]) <= BundleFiles /\ Patch(bundles[b]) <= BundleChars
         /\ \A i \in Range(scope) : Cardinality(Places(i)) = 1 \/ TwiceInOneGroup(i)
<1>1. bundles \in Seq(Seq(Nat)) /\ Range(FlattenSeq(bundles)) = Range(scope)
  BY DEF Bundled, HoldsScope
<1>2. Range(FlattenSeq(bundles)) = UNION {Range(bundles[b]) : b \in DOMAIN bundles}
  BY <1>1, FlattenHolds
<1>3. \A b \in DOMAIN bundles :
        Len(bundles[b]) <= BundleFiles /\ (Len(bundles[b]) > 1 => Patch(bundles[b]) <= BundleChars)
  BY DEF Bundled, Fits
<1>4. ASSUME NEW i \in Range(scope), ~TwiceInOneGroup(i) PROVE Cardinality(Places(i)) = 1
  <2>1. OnceIn(FlattenSeq(bundles), i)
    BY <1>4 DEF Bundled, TwiceInOneGroup, NamesTwice
  <2>2. QED BY <1>1, <2>1, OnePlace
<1>5. QED BY <1>1, <1>2, <1>3, <1>4

\* The tasks of the bundles there are.
PlanCell == {c \in Cell : c.bundle \in DOMAIN bundles}

LEMMA CellsAre ==
  ASSUME bundles \in Seq(Seq(Nat)), NEW disabled, NEW ultra \in BOOLEAN, NEW guidelines \in BOOLEAN,
         NEW all, all = AllTasks(disabled, ultra, guidelines)
  PROVE  all \subseteq PlanCell /\ IsFiniteSet(all)
<1> DEFINE Place == (DOMAIN Reviewers) \X (DOMAIN bundles) \X BOOLEAN
           f == [p \in Place |-> [reviewer |-> p[1], bundle |-> p[2], second |-> p[3],
                                  files |-> Sees(p[1], bundles[p[2]])]]
           image == {f[p] : p \in Place}
<1>1. /\ DOMAIN bundles = 1..Len(bundles) /\ Len(bundles) \in Nat
      /\ \A b \in DOMAIN bundles : bundles[b] \in Seq(Nat)
  BY LenProperties
<1>2. DOMAIN Reviewers = 1..Len(Reviewers) /\ Len(Reviewers) \in Nat
  BY PlanningAssumption, LenProperties
<1>3. ASSUME NEW c \in all PROVE c \in image /\ c \in PlanCell
  <2>1. PICK p \in Place : c = TaskAt(p[1], p[2], p[3])
    BY <1>3 DEF AllTasks
  <2>2. c = f[p]
    BY <2>1 DEF TaskAt
  <2>3. p[1] \in DOMAIN Reviewers /\ p[2] \in DOMAIN bundles /\ p[3] \in BOOLEAN
    OBVIOUS
  <2>4. Sees(p[1], bundles[p[2]]) \subseteq Nat
    <3>1. Range(bundles[p[2]]) \subseteq Nat
      BY <1>1, <2>3, RangeOfSeq
    <3>2. QED BY <3>1 DEF Sees
  <2>5. c \in Cell /\ c.bundle = p[2]
    BY <1>1, <1>2, <2>1, <2>3, <2>4 DEF Cell, TaskAt
  <2>6. QED BY <2>2, <2>3, <2>5 DEF PlanCell
<1>4. IsFiniteSet(Place)
  <2>1. IsFiniteSet(DOMAIN Reviewers) /\ IsFiniteSet(DOMAIN bundles)
    BY <1>1, <1>2, FS_Interval
  <2>2. IsFiniteSet(BOOLEAN)
    <3>1. BOOLEAN = {TRUE} \cup {FALSE}
      OBVIOUS
    <3>2. IsFiniteSet({TRUE})
      BY FS_Singleton
    <3>3. IsFiniteSet({TRUE} \cup {FALSE})
      BY <3>2, FS_AddElement
    <3>4. QED BY <3>1, <3>3
  <2>3. IsFiniteSet((DOMAIN bundles) \X BOOLEAN)
    BY <2>1, <2>2, FS_Product
  <2>4. IsFiniteSet((DOMAIN Reviewers) \X ((DOMAIN bundles) \X BOOLEAN))
    BY <2>1, <2>3, FS_Product
  <2> DEFINE pairs == (DOMAIN Reviewers) \X ((DOMAIN bundles) \X BOOLEAN)
             h == [p \in pairs |-> <<p[1], p[2][1], p[2][2]>>]
  <2>5. h \in Surjection(pairs, Place)
    <3>1. ASSUME NEW p \in pairs PROVE h[p] \in Place
      OBVIOUS
    <3>2. ASSUME NEW q \in Place PROVE \E p \in pairs : h[p] = q
      <4>1. q = <<q[1], q[2], q[3]>> /\ q[1] \in DOMAIN Reviewers /\ q[2] \in DOMAIN bundles /\ q[3] \in BOOLEAN
        OBVIOUS
      <4>2. <<q[1], <<q[2], q[3]>> >> \in pairs
        BY <4>1
      <4>3. h[<<q[1], <<q[2], q[3]>> >>] = q
        BY <4>1, <4>2
      <4>4. QED BY <4>2, <4>3
    <3>3. h \in [pairs -> Place]
      BY <3>1
    <3> HIDE DEF h, pairs, Place
    <3>4. QED BY <3>2, <3>3 DEF Surjection
  <2> HIDE DEF h, Place
  <2>6. QED BY <2>4, <2>5, FS_Surjection
<1>5. f \in Surjection(Place, image)
  <2>1. f \in [Place -> image]
    OBVIOUS
  <2> HIDE DEF f, Place
  <2>2. QED BY <2>1 DEF Surjection
<1> HIDE DEF f, Place
<1>6. IsFiniteSet(image)
  <2> HIDE DEF image
  <2>1. QED BY <1>4, <1>5, FS_Surjection
<1>7. all \in SUBSET image /\ all \subseteq PlanCell
  BY <1>3
<1> HIDE DEF image
<1>8. QED BY <1>6, <1>7, FS_Subset

\* A task of the first reviewer there is.
FirstsTask(l, all) == ~l.second /\ \A d \in all : l.reviewer <= d.reviewer

LEMMA FirstReviewersAreLast ==
  ASSUME bundles \in Seq(Seq(Nat)), NEW all, all \subseteq PlanCell, IsFiniteSet(all),
         NEW staying, staying = {c \in all : Cardinality({d \in all : Before(d, c)}) < MaxTasks},
         NEW l \in all, l \notin staying, FirstsTask(l, all),
         NEW c \in staying
  PROVE  c.reviewer = l.reviewer /\ ~c.second
<1>0. ~l.second /\ \A d \in all : l.reviewer <= d.reviewer
  BY DEF FirstsTask
<1>2. ASSUME NEW d \in PlanCell
      PROVE  d.reviewer \in Nat /\ d.reviewer >= 1 /\ d.bundle \in Nat /\ d.second \in BOOLEAN
  <2>1. d \in Cell
    BY DEF PlanCell
  <2>2. DOMAIN Reviewers = 1..Len(Reviewers) /\ Len(Reviewers) \in Nat
    BY PlanningAssumption, LenProperties
  <2>3. QED BY <2>1, <2>2 DEF Cell
<1>3. SUFFICES ASSUME ~(c.reviewer = l.reviewer /\ ~c.second) PROVE FALSE
  OBVIOUS
<1>4. l \in PlanCell /\ c \in PlanCell
  OBVIOUS
<1>5. Before(l, c)
  <2>1. CASE c.second
    BY <1>0, <2>1 DEF Before
  <2>2. CASE ~c.second
    <3>1. c.second = l.second /\ l.reviewer < c.reviewer
      BY <1>0, <1>2, <1>3, <1>4, <2>2
    <3>2. QED BY <3>1 DEF Before
  <2>3. QED BY <2>1, <2>2
<1>6. ASSUME NEW d \in all, Before(d, l) PROVE Before(d, c)
  <2>1. d \in PlanCell
    OBVIOUS
  <2>2. d.reviewer \in Nat /\ d.reviewer >= l.reviewer /\ d.second \in BOOLEAN
    BY <1>0, <1>2, <2>1
  <2>3. d.second = l.second /\ d.reviewer = l.reviewer
    BY <1>0, <1>2, <1>4, <1>6, <2>2 DEF Before
  <2>4. CASE c.second
    BY <1>0, <2>3, <2>4 DEF Before
  <2>5. CASE ~c.second
    <3>1. c.second = d.second /\ d.reviewer < c.reviewer
      BY <1>0, <1>2, <1>3, <1>4, <2>3, <2>5
    <3>2. QED BY <3>1 DEF Before
  <2>6. QED BY <2>4, <2>5
<1> DEFINE Cut(x) == {d \in all : Before(d, x)}
<1>7. Cut(l) \subseteq Cut(c) /\ Cut(c) \subseteq all
  BY <1>6
<1>8. Cardinality(Cut(c)) < MaxTasks /\ ~(Cardinality(Cut(l)) < MaxTasks)
  OBVIOUS
<1> HIDE DEF Cut
<1>9. IsFiniteSet(Cut(c)) /\ IsFiniteSet(Cut(l)) /\ Cardinality(Cut(l)) <= Cardinality(Cut(c))
  BY <1>7, FS_Subset
<1>10. Cardinality(Cut(c)) \in Nat /\ Cardinality(Cut(l)) \in Nat
  BY <1>9, FS_CardinalityType
<1>11. QED BY <1>8, <1>9, <1>10, PlanningAssumption

-----------------------------------------------------------------------------
(* What planning promises *)

\* The inductive invariant: what is chosen, then what is bundled, then the
\* tasks; and nothing before its time.
ChosenInv ==
  /\ files \in Seq(Changes) /\ tier \in Range(Tiers)
  /\ Chosen(selected) /\ Chosen(scope) /\ Range(scope) \subseteq Range(selected)
  /\ stage \in {"diff", "select"} => selected = <<>>
  /\ stage \in {"diff", "select", "scope"} => scope = <<>>
BundledInv ==
  /\ resumed \in BOOLEAN
  /\ CASE stage \in {"matrix", "done"} /\ resumed -> Reused(bundles)
       [] stage \in {"matrix", "done"} /\ ~resumed -> Bundled(bundles, answer)
       [] OTHER -> bundles = <<>> /\ ~resumed
TaskInv ==
  /\ cells \cup limited \subseteq PlanCell
  /\ stage # "done" => cells = {} /\ limited = {}
  /\ FirstReviewersLast
PlanInv ==
  /\ stage \in {"diff", "select", "scope", "bundle", "matrix", "done"}
  /\ ChosenInv /\ BundledInv /\ TaskInv

LEMMA TiersAre == Range(Tiers) = {"trivial", "lite", "full"}
BY DEF Range, Tiers

LEMMA NothingChosen == Chosen(<<>>)
BY DEF Chosen, OnceIn, Range

LEMMA PlanFirst == PlanInit => PlanInv
<1> SUFFICES ASSUME PlanInit PROVE PlanInv
  OBVIOUS
<1> USE DEF PlanInit
<1>1. ChosenInv
  BY NothingChosen, TiersAre DEF ChosenInv
<1>2. BundledInv
  BY DEF BundledInv
<1>3. TaskInv
  BY DEF TaskInv, FirstReviewersLast
<1>4. QED BY <1>1, <1>2, <1>3 DEF PlanInv

\* The tasks stay as they are while there are none.
LEMMA NoTasksYet ==
  ASSUME TaskInv, stage # "done", UNCHANGED <<cells, limited>>
  PROVE  TaskInv'
BY DEF TaskInv, FirstReviewersLast

LEMMA IngestKeeps == PlanInv /\ Ingest => PlanInv'
<1> SUFFICES ASSUME PlanInv, Ingest PROVE PlanInv'
  OBVIOUS
<1>1. /\ stage = "diff" /\ stage' = "select" /\ tier' = tier /\ bundles' = bundles /\ resumed' = resumed
      /\ selected' = <<>> /\ scope' = <<>> /\ UNCHANGED <<cells, limited>>
  BY DEF PlanInv, ChosenInv, Ingest
<1>2. files' \in Seq(Changes)
  <2>1. PICK n \in 0..MaxFiles : files' \in [1..n -> Changes]
    BY DEF Ingest
  <2>2. n \in Nat
    BY PlanningAssumption
  <2>3. QED BY <2>1, <2>2, AreSeq
<1>3. ChosenInv'
  BY <1>1, <1>2, TiersAre DEF PlanInv, ChosenInv, Chosen, OnceIn, Range
<1>4. BundledInv'
  BY <1>1 DEF PlanInv, BundledInv
<1>5. TaskInv'
  BY <1>1, NoTasksYet DEF PlanInv
<1>6. QED BY <1>1, <1>3, <1>4, <1>5 DEF PlanInv

LEMMA SelectKeeps == PlanInv /\ Select => PlanInv'
<1> SUFFICES ASSUME PlanInv, Select PROVE PlanInv'
  OBVIOUS
<1>1. /\ stage = "select" /\ stage' = "scope" /\ files' = files /\ bundles' = bundles /\ resumed' = resumed
      /\ scope' = <<>> /\ UNCHANGED <<cells, limited>>
      /\ selected' = Picked(Indexes(files), {i \in DOMAIN files : ~Excluded(files[i])})
  BY DEF PlanInv, ChosenInv, Select
<1>2. files \in Seq(Changes)
  BY DEF PlanInv, ChosenInv
<1>3. /\ selected' \in Seq(Nat) /\ Range(selected') \subseteq DOMAIN files
      /\ \A x : OnceIn(selected', x)
  <2>1. Indexes(files) \in Seq(Nat) /\ Range(Indexes(files)) = DOMAIN files /\ \A x : OnceIn(Indexes(files), x)
    BY <1>2, IndexesAre
  <2>2. PICK S : selected' = Picked(Indexes(files), S)
    BY <1>1
  <2>3. QED BY <2>1, <2>2, PickedIs
<1>4. tier' \in Range(Tiers)
  BY TiersAre DEF Select, Triage
<1>5. ChosenInv'
  <2>1. Chosen(selected)'
    BY <1>1, <1>3 DEF Chosen
  <2>2. Chosen(scope)' /\ Range(scope') = {}
    BY <1>1 DEF Chosen, OnceIn, Range
  <2>3. QED BY <1>1, <1>2, <1>4, <2>1, <2>2 DEF ChosenInv
<1>6. BundledInv'
  BY <1>1 DEF PlanInv, BundledInv
<1>7. TaskInv'
  BY <1>1, NoTasksYet DEF PlanInv
<1>8. QED BY <1>1, <1>5, <1>6, <1>7 DEF PlanInv

LEMMA ScopeKeeps == PlanInv /\ Scope => PlanInv'
<1> SUFFICES ASSUME PlanInv, Scope PROVE PlanInv'
  OBVIOUS
<1>1. /\ stage = "scope" /\ stage' = "bundle" /\ UNCHANGED <<files, selected, tier, bundles, resumed, cells, limited>>
      /\ scope' = selected \/ \E changed : scope' = Picked(selected, changed)
  BY DEF Scope
<1>2. files \in Seq(Changes) /\ tier \in Range(Tiers) /\ Chosen(selected)
  BY DEF PlanInv, ChosenInv
<1>3. scope' \in Seq(Nat) /\ Range(scope') \subseteq Range(selected) /\ \A x : OnceIn(scope', x)
  <2>1. CASE scope' = selected
    BY <1>2, <2>1 DEF Chosen
  <2>2. CASE \E changed : scope' = Picked(selected, changed)
    <3>1. PICK changed : scope' = Picked(selected, changed)
      BY <2>2
    <3>2. QED BY <1>2, <3>1, PickedIs DEF Chosen
  <2>3. QED BY <1>1, <2>1, <2>2
<1>4. ChosenInv'
  <2>1. Chosen(selected)' /\ Chosen(scope)'
    BY <1>1, <1>2, <1>3 DEF Chosen
  <2>2. QED BY <1>1, <1>2, <1>3, <2>1 DEF ChosenInv
<1>5. BundledInv'
  BY <1>1 DEF PlanInv, BundledInv
<1>6. TaskInv'
  BY <1>1, NoTasksYet DEF PlanInv
<1>7. QED BY <1>1, <1>4, <1>5, <1>6 DEF PlanInv

\* It says of a list and its groups what it said, while the files are the same.
LEMMA BundledStays ==
  ASSUME UNCHANGED <<files, scope>>, Bundled(bundles', answer')
  PROVE  Bundled(bundles, answer)'
BY DEF Bundled, HoldsScope, Fits, Patch, NamesTwice

LEMMA ReusedStays ==
  ASSUME UNCHANGED scope, Reused(bundles')
  PROVE  Reused(bundles)'
BY DEF Reused, HoldsScope

LEMMA ChosenStays ==
  ASSUME ChosenInv, stage' \in {"bundle", "matrix", "done"}, UNCHANGED <<files, selected, tier, scope>>
  PROVE  ChosenInv'
BY DEF ChosenInv, Chosen

LEMMA BundleKeeps == PlanInv /\ Bundle => PlanInv'
<1> SUFFICES ASSUME PlanInv, Bundle PROVE PlanInv'
  OBVIOUS
<1>1. stage = "bundle" /\ stage' = "matrix" /\ UNCHANGED <<files, selected, tier, scope, cells, limited>>
  BY DEF Bundle
<1>2. files \in Seq(Changes) /\ Chosen(scope)
  BY DEF PlanInv, ChosenInv
<1>3. resumed = FALSE
  BY <1>1 DEF PlanInv, BundledInv
<1>4. BundledInv'
  <2>1. ASSUME NEW earlier \in Earlier, Covers(earlier), bundles' = earlier, resumed' = TRUE
        PROVE  BundledInv'
    <3>1. Reused(bundles')
      BY <1>2, <2>1, CoveredHolds
    <3>2. Reused(bundles)'
      BY <1>1, <3>1, ReusedStays
    <3>3. QED BY <1>1, <2>1, <3>2 DEF BundledInv
  <2>2. ASSUME Bundled(bundles', answer'), resumed' = resumed PROVE BundledInv'
    <3>1. Bundled(bundles, answer)'
      BY <1>1, <2>2, BundledStays
    <3>2. QED BY <1>1, <1>3, <2>2, <3>1 DEF BundledInv
  <2>3. CASE bundles' = Ungrouped /\ resumed' = resumed
    BY <1>2, <2>2, <2>3, UngroupedHolds
  <2>4. CASE answer' \in Answers /\ bundles' = EnforceLimits(Grouped(answer')) /\ resumed' = resumed
    <3>1. answer' \in Seq(Seq(Int))
      BY <2>4, PlanningAssumption
    <3>2. QED BY <1>2, <2>2, <2>4, <3>1, AnsweredHolds
  <2>5. QED BY <2>1, <2>3, <2>4 DEF Bundle
<1>5. ChosenInv'
  BY <1>1, ChosenStays DEF PlanInv
<1>6. TaskInv'
  BY <1>1, NoTasksYet DEF PlanInv
<1>7. QED BY <1>1, <1>4, <1>5, <1>6 DEF PlanInv

LEMMA MatrixKeeps == PlanInv /\ Matrix => PlanInv'
<1> SUFFICES ASSUME PlanInv, Matrix PROVE PlanInv'
  OBVIOUS
<1>1. /\ stage = "matrix" /\ stage' = "done"
      /\ UNCHANGED <<files, selected, tier, scope, answer, bundles, resumed>>
  BY DEF Matrix
<1>2. /\ bundles \in Seq(Seq(Nat)) /\ resumed \in BOOLEAN
      /\ resumed => Reused(bundles)
      /\ ~resumed => Bundled(bundles, answer)
  BY <1>1 DEF PlanInv, BundledInv, Bundled, Reused, HoldsScope
<1>3. PICK disabled \in SUBSET (DOMAIN Reviewers), ultra \in BOOLEAN, guidelines \in BOOLEAN :
        \E all \in {AllTasks(disabled, ultra, guidelines)} :
          /\ cells' = {c \in all : Cardinality({d \in all : Before(d, c)}) < MaxTasks}
          /\ limited' = all \ cells'
  BY DEF Matrix
<1>4. PICK all : /\ all = AllTasks(disabled, ultra, guidelines)
                 /\ cells' = {c \in all : Cardinality({d \in all : Before(d, c)}) < MaxTasks}
                 /\ limited' = all \ cells'
  BY <1>3
<1>5. all \subseteq PlanCell /\ IsFiniteSet(all)
  <2>1. bundles \in Seq(Seq(Nat))
    BY <1>2
  <2>2. QED BY <1>4, <2>1, CellsAre
<1>6. PICK staying : staying = {c \in all : Cardinality({d \in all : Before(d, c)}) < MaxTasks}
  OBVIOUS
<1>7. cells' = staying /\ limited' = all \ staying /\ staying \subseteq all
  BY <1>4, <1>6
<1>8. TaskInv'
  <2>1. PlanCell' = PlanCell
    BY <1>1 DEF PlanCell
  <2>2. cells' \cup limited' \subseteq PlanCell'
    BY <1>5, <1>7, <2>1
  <2>3. ASSUME NEW l \in limited', ~l.second, \A d \in cells' \cup limited' : l.reviewer <= d.reviewer,
               NEW c \in cells'
        PROVE  c.reviewer = l.reviewer /\ ~c.second
    <3>1. l \in all /\ l \notin staying /\ c \in staying
      BY <1>7, <2>3
    <3>2. cells' \cup limited' = all
      BY <1>7
    <3>3. FirstsTask(l, all)
      BY <2>3, <3>2 DEF FirstsTask
    <3>4. QED BY <1>2, <1>5, <1>6, <3>1, <3>3, FirstReviewersAreLast
  <2>4. FirstReviewersLast'
    BY <2>3 DEF FirstReviewersLast
  <2>5. QED BY <1>1, <2>2, <2>4 DEF TaskInv
<1>9. BundledInv'
  <2>1. CASE resumed
    BY <1>1, <1>2, <2>1, ReusedStays DEF BundledInv
  <2>2. CASE ~resumed
    BY <1>1, <1>2, <2>2, BundledStays DEF BundledInv
  <2>3. QED BY <1>2, <2>1, <2>2
<1>10. ChosenInv'
  BY <1>1, ChosenStays DEF PlanInv
<1>11. QED BY <1>1, <1>8, <1>9, <1>10 DEF PlanInv

LEMMA PlanStays ==
  ASSUME PlanInv, UNCHANGED planVars
  PROVE  PlanInv'
<1> USE DEF planVars
<1>1. ChosenInv'
  BY DEF PlanInv, ChosenInv, Chosen
<1>2. BundledInv'
  BY BundledStays, ReusedStays DEF PlanInv, BundledInv
<1>3. TaskInv'
  BY DEF PlanInv, TaskInv, PlanCell, FirstReviewersLast
<1>4. QED BY <1>1, <1>2, <1>3 DEF PlanInv

\* What the invariant says, in the words of the runs.
LEMMA PlanInvSays == PlanInv => PlanHolds /\ PlanTypeOK
<1> SUFFICES ASSUME PlanInv PROVE PlanHolds /\ PlanTypeOK
  OBVIOUS
<1>1. FirstReviewersLast
  BY DEF PlanInv, TaskInv
<1>2. BundlesHoldScope
  <2>1. SUFFICES ASSUME stage \in {"matrix", "done"} PROVE BundlesHoldScope
    BY DEF BundlesHoldScope
  <2>2. Chosen(scope) /\ (resumed => Reused(bundles)) /\ (~resumed => Bundled(bundles, answer))
    BY <2>1 DEF PlanInv, BundledInv, ChosenInv
  <2>3. CASE resumed
    BY <2>2, <2>3, ReusedPlaces DEF BundlesHoldScope
  <2>4. CASE ~resumed
    BY <2>2, <2>4, PlacesAre DEF BundlesHoldScope
  <2>5. QED BY <2>3, <2>4
<1>3. \A i \in DOMAIN files : files[i] \in Changes
  <2>1. files \in Seq(Changes)
    BY DEF PlanInv, ChosenInv
  <2>2. QED BY <2>1, LenProperties
<1>4. \A b \in DOMAIN bundles : bundles[b] # <<>>
  <2>1. CASE stage \in {"matrix", "done"}
    BY <2>1 DEF PlanInv, BundledInv, Bundled, Reused, Fits
  <2>2. CASE stage \notin {"matrix", "done"}
    BY <2>2 DEF PlanInv, BundledInv
  <2>3. QED BY <2>1, <2>2
<1>5. \A c \in cells \cup limited : c \in Cell /\ c.bundle \in DOMAIN bundles
  BY DEF PlanInv, TaskInv, PlanCell
<1>6. QED BY <1>1, <1>2, <1>3, <1>4, <1>5 DEF PlanHolds, PlanTypeOK, PlanInv, BundledInv, ChosenInv, Chosen

LEMMA PlanStep == PlanInv /\ [PlanNext]_planVars => PlanInv'
BY IngestKeeps, SelectKeeps, ScopeKeeps, BundleKeeps, MatrixKeeps, PlanStays DEF PlanNext

\* What each stage of the plan hands to the next: the files chosen, the bundles
\* that hold them, the tasks of these bundles (plan.ts).
THEOREM PlanInvariant == PlanSpec => []PlanInv
BY PlanFirst, PlanStep, PTL DEF PlanSpec

\* For every change, every answer of the grouping model, every earlier run and
\* every limit: what planMatrix is given holds every file in scope, once unless
\* a group named it twice, and within the limits unless the bundles are an
\* earlier run's, which no limit is applied to; and the limit on tasks takes
\* first reviewers last (bundle.ts, resume.ts, matrix.ts).
THEOREM PlanHoldsAlways == PlanSpec => []PlanHolds
BY PlanInvariant, PlanInvSays, PTL

\* The plan's types (plan.ts).
THEOREM PlanTypes == PlanSpec => []PlanTypeOK
BY PlanInvariant, PlanInvSays, PTL

-----------------------------------------------------------------------------
\* Types of a run's two ends and of what follows it: a behaviour of the three is
\* one of each, which mostly rests.
THEOREM ReviewTypes == ReviewSpec => []ReviewTypeOK
<1>1. ReviewInit => PlanInit /\ CheckInit /\ DeliveryInit
  BY DEF ReviewInit
<1>2. [ReviewNext]_<<part, planVars, stageVars, deliveryVars>> => [PlanNext]_planVars
  BY DEF ReviewNext
<1>3. [ReviewNext]_<<part, planVars, stageVars, deliveryVars>> => [CheckNext]_stageVars
  BY DEF ReviewNext
<1>4. [ReviewNext]_<<part, planVars, stageVars, deliveryVars>> => [DeliveryNext]_deliveryVars
  BY DEF ReviewNext
<1>5. PlanTypeOK /\ StageTypeOK /\ DeliveryTypeOK => ReviewTypeOK
  BY DEF ReviewTypeOK
<1>6. QED
  BY <1>1, <1>2, <1>3, <1>4, <1>5, PlanTypes, StageTypes, DeliveryTypes, PTL
  DEF ReviewSpec, PlanSpec, CheckSpec, DeliverySpec

================================================================================
