----------------------------- MODULE SessionProofs -----------------------------
(***************************************************************************)
(* Reviews that are resumed.  For every data set, budget and crash: what   *)
(* an evaluation's results say their reviews cost and did is true, and no  *)
(* review starts past the budget (EvalRun).  For every change, grouping    *)
(* and loss of a log: a review that resumes another reuses what that one   *)
(* answered, all of it, each answer once (Resumption).                     *)
(***************************************************************************)
EXTENDS EvalRun, Resumption, DataFacts, SequenceTheorems

-----------------------------------------------------------------------------
(* An evaluation: what it keeps *)

EvalResults ==
  [status : {"absent", "torn", "failed", "unavailable", "reviewed"}, cost : Nat, run : Nat,
   holds : SUBSET Tasks, limit : Limits]
Reviews == [from : Nat, reused : SUBSET Tasks, ran : SUBSET Tasks, cost : Nat]
Invocations ==
  [at : Nat, rep : Nat, spent : Nat, said : Nat, quota : BOOLEAN, earlier : Nat,
   max : Budgets \cup {Unlimited, 0}, retry : BOOLEAN]
InHands == [run : Nat, result : EvalResults, logged : BOOLEAN]
Logs == (SUBSET Tasks) \cup {NoLog}

EvalTypes ==
  /\ asked \in Selections \cup {NotAsked}
  /\ results \in [Reps -> [PRs -> EvalResults]]
  /\ kept \in [Reps -> [PRs -> Logs]]
  /\ sessions \in Seq(Reviews)
  /\ eval \in Invocations
  /\ review \in InHands
  /\ paid \in Nat

\* A review takes tasks only from one before it.
Chained(s) == \A r \in DOMAIN s : s[r].reused # {} => s[r].from \in 1..(r - 1)

\* It goes through the selection.
InSelection ==
  On => /\ asked \in Selections
        /\ eval.rep \in 1..asked[2] /\ eval.at \in 0..asked[1]
        /\ eval.max \in Budgets \cup {Unlimited}

\* A result's cost is that of the reviews it stands on, and it holds what the
\* last of them did.
SessionCosts == [r \in DOMAIN sessions |-> sessions[r].cost]
IsTrue(r) ==
  /\ r.run \in 0..Len(sessions)
  /\ r.run # 0 => /\ r.cost = SumFunctionOnSet(SessionCosts, StandsOn[r.run])
                  /\ r.holds = Done(sessions[r.run])
AllTrue == IsTrue(review.result) /\ \A n \in Reps, p \in PRs : IsTrue(results[n][p])

\* What was paid is in what was spent; and in what the summaries say, with the
\* result in hand.
PaidIsSpent == On => paid <= eval.earlier + eval.spent
PaidIsSaid == On => paid <= eval.earlier + eval.said + review.result.cost

\* The review in hand; what it took from the one it resumed is that one's, whose
\* result is still there until its own is written.
InHandInv ==
  review # NoReview =>
    /\ On /\ eval.at > 0 /\ review.run = review.result.run
    /\ ~review.logged /\ review.run # 0 /\ sessions[review.run].reused # {}
         => Current.run # 0 /\ sessions[review.run].reused = Current.holds

\* The logs, but for those that went wrong and the one about to get its result.
LogHolds(told, r) == r.run # 0 => told # NoLog /\ r.holds \subseteq told
LogsInv ==
  /\ \A n \in Reps, p \in PRs :
       \/ <<n, p>> \in astray \/ LogHolds(kept[n][p], results[n][p])
       \/ review # NoReview /\ review.logged /\ n = eval.rep /\ p = eval.at
  /\ review # NoReview /\ review.logged =>
       <<eval.rep, eval.at>> \in astray \/ LogHolds(kept[eval.rep][eval.at], review.result)

EvalInv ==
  /\ EvalTypes /\ Chained(sessions) /\ InSelection /\ AllTrue
  /\ PaidIsSpent /\ PaidIsSaid /\ InHandInv /\ LogsInv

-----------------------------------------------------------------------------
(* The reviews a review stands on *)

Stood(s, g, nth) ==
  IF nth = 0 THEN {} ELSE {nth} \cup (IF s[nth].reused = {} THEN {} ELSE g[s[nth].from])
Stands(s, g) == g = [nth \in 0..Len(s) |-> Stood(s, g, nth)]
RunsOf(s) == CHOOSE g : Stands(s, g)
CostsIn(s) == [r \in DOMAIN s |-> s[r].cost]
CostOfRuns(s, nth) == SumFunctionOnSet(CostsIn(s), RunsOf(s)[nth])
TrueOf(r, s) ==
  /\ r.run \in 0..Len(s)
  /\ r.run # 0 => r.cost = CostOfRuns(s, r.run) /\ r.holds = Done(s[r.run])

LEMMA RunsAre == StandsOn = RunsOf(sessions) /\ (\A r : IsTrue(r) <=> TrueOf(r, sessions))
<1>1. StandsOn = RunsOf(sessions)
  BY DEF StandsOn, RunsOf, Stands, Stood
<1>2. ASSUME NEW r PROVE IsTrue(r) <=> TrueOf(r, sessions)
  BY <1>1, Zenon DEF IsTrue, TrueOf, CostOfRuns, CostsIn, SessionCosts
<1>3. QED BY <1>1, <1>2

\* They are defined for longer and longer histories.
LEMMA RunsExist ==
  ASSUME NEW s \in Seq(Reviews), Chained(s)
  PROVE  Stands(s, RunsOf(s))
<1> DEFINE Upto(n, g) == g = [nth \in 0..n |-> Stood(s, g, nth)]
           T == {n \in 0..Len(s) : \E g : Upto(n, g)}
<1>1. Len(s) \in Nat /\ DOMAIN s = 1..Len(s)
  OBVIOUS
<1>2. 0 \in T
  <2>1. Upto(0, [nth \in 0..0 |-> {}])
    BY DEF Stood
  <2>2. QED BY <1>1, <2>1
<1>3. ASSUME NEW n \in T, n + 1 \in 0..Len(s) PROVE n + 1 \in T
  <2>1. PICK g : Upto(n, g)
    OBVIOUS
  <2> DEFINE h == [nth \in 0..(n + 1) |-> IF nth <= n THEN g[nth] ELSE Stood(s, g, nth)]
  <2>2. n \in Nat /\ \A nth \in 0..(n + 1) : nth # 0 /\ s[nth].reused # {} => s[nth].from \in 1..(nth - 1)
    BY <1>1, <1>3 DEF Chained
  <2>3. ASSUME NEW nth \in 0..(n + 1) PROVE Stood(s, g, nth) = Stood(s, h, nth)
    <3>1. CASE nth = 0 \/ s[nth].reused = {}
      BY <3>1 DEF Stood
    <3>2. CASE nth # 0 /\ s[nth].reused # {}
      <4>1. s[nth].from \in 0..n
        BY <2>2, <3>2
      <4>2. h[s[nth].from] = g[s[nth].from]
        BY <2>2, <4>1
      <4>3. QED BY <3>2, <4>2 DEF Stood
    <3>3. QED BY <3>1, <3>2
  <2>4. ASSUME NEW nth \in 0..(n + 1) PROVE h[nth] = Stood(s, h, nth)
    <3>1. CASE nth <= n
      <4>1. nth \in 0..n /\ h[nth] = g[nth]
        BY <2>2, <3>1
      <4> HIDE DEF h
      <4>2. g[nth] = Stood(s, g, nth)
        BY <2>1, <4>1
      <4>3. QED BY <2>3, <4>1, <4>2
    <3>2. CASE ~(nth <= n)
      <4>1. h[nth] = Stood(s, g, nth)
        BY <3>2
      <4> HIDE DEF h
      <4>2. QED BY <2>3, <4>1
    <3>3. QED BY <3>1, <3>2
  <2>5. h = [nth \in 0..(n + 1) |-> h[nth]]
    OBVIOUS
  <2> HIDE DEF h
  <2>6. Upto(n + 1, h)
    BY <2>4, <2>5
  <2>7. QED BY <1>3, <2>6
<1> HIDE DEF T
<1>4. T = 0..Len(s)
  <2>1. T \in SUBSET (0..Len(s))
    BY DEF T
  <2>2. QED BY <1>1, <1>2, <1>3, <2>1, AllUpTo
<1>5. \E g : Stands(s, g)
  BY <1>1, <1>4 DEF T, Stands
<1>6. QED BY <1>5 DEF RunsOf

LEMMA RunsGiven ==
  ASSUME NEW s \in Seq(Reviews), Chained(s), NEW nth \in 0..Len(s)
  PROVE  RunsOf(s)[nth] = Stood(s, RunsOf(s), nth)
BY RunsExist DEF Stands

\* They are among those up to it.
LEMMA RunsWithin ==
  ASSUME NEW s \in Seq(Reviews), Chained(s), NEW nth \in 0..Len(s)
  PROVE  RunsOf(s)[nth] \subseteq 1..nth /\ IsFiniteSet(RunsOf(s)[nth])
<1> DEFINE g == RunsOf(s)
           T == {n \in 0..Len(s) : \A m \in 0..n : g[m] \subseteq 1..m}
<1>1. Len(s) \in Nat /\ DOMAIN s = 1..Len(s)
  OBVIOUS
<1>2. \A m \in 0..Len(s) : g[m] = Stood(s, g, m)
  BY RunsGiven
<1> HIDE DEF g
<1>3. 0 \in T
  <2>1. 0 \in 0..Len(s) /\ \A m \in 0..0 : m = 0
    BY <1>1
  <2>2. g[0] = {}
    BY <1>2, <2>1 DEF Stood
  <2>3. QED BY <2>1, <2>2
<1>4. ASSUME NEW n \in T, n + 1 \in 0..Len(s) PROVE n + 1 \in T
  <2>1. g[n + 1] \subseteq 1..(n + 1)
    <3>1. g[n + 1] = Stood(s, g, n + 1) /\ n \in Nat /\ n + 1 # 0 /\ n + 1 \in DOMAIN s
      BY <1>1, <1>2, <1>4
    <3>2. CASE s[n + 1].reused = {}
      BY <3>1, <3>2 DEF Stood
    <3>3. CASE s[n + 1].reused # {}
      <4> DEFINE k == s[n + 1].from
      <4>1. k \in 1..n
        <5>1. k \in 1..((n + 1) - 1)
          BY <3>1, <3>3 DEF Chained
        <5>2. QED BY <3>1, <5>1
      <4>2. g[k] \subseteq 1..k /\ 1..k \subseteq 1..(n + 1)
        BY <3>1, <4>1
      <4>3. QED BY <3>1, <3>3, <4>2 DEF Stood
    <3>4. QED BY <3>2, <3>3
  <2>2. \A m \in 0..(n + 1) : m \in 0..n \/ m = n + 1
    BY <1>4
  <2>3. QED BY <1>4, <2>1, <2>2
<1> HIDE DEF T
<1>5. T = 0..Len(s)
  <2>1. T \in SUBSET (0..Len(s))
    BY DEF T
  <2>2. QED BY <1>1, <1>3, <1>4, <2>1, AllUpTo
<1>6. g[nth] \subseteq 1..nth
  BY <1>1, <1>5 DEF T
<1>7. IsFiniteSet(1..nth)
  BY <1>1, FS_Interval
<1>8. QED BY <1>6, <1>7, FS_Subset DEF g

\* One more review changes nothing for those before it.
LEMMA RunsStay ==
  ASSUME NEW s \in Seq(Reviews), NEW x \in Reviews, NEW t, t = Append(s, x),
         Chained(s), Chained(t), NEW nth \in 0..Len(s)
  PROVE  RunsOf(t)[nth] = RunsOf(s)[nth]
<1> DEFINE g == RunsOf(s)
           h == RunsOf(t)
           T == {n \in 0..Len(s) : \A m \in 0..n : h[m] = g[m]}
<1>1. /\ Len(s) \in Nat /\ DOMAIN s = 1..Len(s) /\ t \in Seq(Reviews)
      /\ Len(t) = Len(s) + 1 /\ \A r \in 1..Len(s) : t[r] = s[r]
  OBVIOUS
<1>2. \A m \in 0..Len(s) : g[m] = Stood(s, g, m) /\ h[m] = Stood(t, h, m)
  <2>1. \A m \in 0..Len(s) : g[m] = Stood(s, g, m)
    BY RunsGiven
  <2>2. \A m \in 0..Len(t) : h[m] = Stood(t, h, m)
    BY <1>1, RunsGiven
  <2>3. \A m \in 0..Len(s) : m \in 0..Len(t)
    BY <1>1
  <2>4. QED BY <2>1, <2>2, <2>3
<1> HIDE DEF g, h
<1>3. 0 \in T
  <2>1. 0 \in 0..Len(s) /\ \A m \in 0..0 : m = 0
    BY <1>1
  <2>2. g[0] = {} /\ h[0] = {}
    BY <1>2, <2>1 DEF Stood
  <2>3. QED BY <2>1, <2>2
<1>4. ASSUME NEW n \in T, n + 1 \in 0..Len(s) PROVE n + 1 \in T
  <2>1. h[n + 1] = g[n + 1]
    <3>1. /\ g[n + 1] = Stood(s, g, n + 1) /\ h[n + 1] = Stood(t, h, n + 1)
          /\ n \in Nat /\ n + 1 # 0 /\ n + 1 \in DOMAIN s /\ t[n + 1] = s[n + 1]
      BY <1>1, <1>2, <1>4
    <3>2. CASE s[n + 1].reused = {}
      BY <3>1, <3>2 DEF Stood
    <3>3. CASE s[n + 1].reused # {}
      <4>1. s[n + 1].from \in 1..((n + 1) - 1)
        BY <3>1, <3>3 DEF Chained
      <4>2. h[s[n + 1].from] = g[s[n + 1].from]
        BY <3>1, <4>1
      <4>3. QED BY <3>1, <3>3, <4>2 DEF Stood
    <3>4. QED BY <3>2, <3>3
  <2>2. \A m \in 0..(n + 1) : m \in 0..n \/ m = n + 1
    BY <1>4
  <2>3. QED BY <1>4, <2>1, <2>2
<1> HIDE DEF T
<1>5. T = 0..Len(s)
  <2>1. T \in SUBSET (0..Len(s))
    BY DEF T
  <2>2. QED BY <1>1, <1>3, <1>4, <2>1, AllUpTo
<1>6. QED BY <1>1, <1>5 DEF T, g, h

\* Its cost is its own, and what those it took tasks from cost.
LEMMA CostsStay ==
  ASSUME NEW s \in Seq(Reviews), NEW x \in Reviews, NEW t, t = Append(s, x),
         Chained(s), Chained(t)
  PROVE  /\ \A nth \in 0..Len(s) : CostOfRuns(t, nth) = CostOfRuns(s, nth) /\ CostOfRuns(s, nth) \in Nat
         /\ x.reused = {} => CostOfRuns(t, Len(t)) = x.cost
         /\ x.reused # {} => CostOfRuns(t, Len(t)) = x.cost + CostOfRuns(s, x.from)
<1> DEFINE f == CostsIn(s)
           g == CostsIn(t)
           new == Len(s) + 1
<1>1. /\ Len(s) \in Nat /\ DOMAIN s = 1..Len(s) /\ t \in Seq(Reviews) /\ DOMAIN t = 1..new
      /\ Len(t) = new /\ t[new] = x /\ \A r \in 1..Len(s) : t[r] = s[r]
  OBVIOUS
<1>2. /\ \A r \in 1..Len(s) : f[r] = s[r].cost /\ f[r] \in Nat /\ g[r] = f[r]
      /\ g[new] = x.cost /\ \A r \in 1..new : g[r] \in Nat
  <2>1. ASSUME NEW r \in 1..new PROVE t[r].cost \in Nat
    <3>1. t[r] \in Reviews
      BY <1>1
    <3>2. QED BY <3>1 DEF Reviews
  <2>2. \A r \in 1..Len(s) : r \in 1..new
    BY <1>1
  <2>3. new \in 1..new
    BY <1>1
  <2>4. /\ \A r \in 1..Len(s) : f[r] = s[r].cost
        /\ \A r \in 1..new : g[r] = t[r].cost
    BY <1>1 DEF CostsIn
  <2> HIDE DEF f, g, new
  <2>5. QED BY <1>1, <2>1, <2>2, <2>3, <2>4, SMTT(30)
<1>3. ASSUME NEW nth \in 0..Len(s)
      PROVE  /\ CostOfRuns(t, nth) = CostOfRuns(s, nth) /\ CostOfRuns(s, nth) \in Nat
             /\ CostOfRuns(t, nth) = SumFunctionOnSet(g, RunsOf(s)[nth])
  <2> DEFINE S == RunsOf(s)[nth]
  <2>1. S \subseteq 1..nth /\ IsFiniteSet(S) /\ RunsOf(t)[nth] = S
    BY RunsWithin, RunsStay
  <2>2. \A r \in S : f[r] \in Nat /\ f[r] = g[r]
    BY <1>1, <1>2, <2>1
  <2> HIDE DEF S, f, g
  <2>3. SumFunctionOnSet(f, S) = SumFunctionOnSet(g, S) /\ SumFunctionOnSet(f, S) \in Nat
    BY <2>1, <2>2, SumSame, SumType
  <2>4. QED BY <2>1, <2>3 DEF CostOfRuns, S, f, g
<1>4. RunsOf(t)[new] = {new} \cup (IF x.reused = {} THEN {} ELSE RunsOf(s)[x.from])
  <2>1. new \in 0..Len(t) /\ new # 0
    BY <1>1
  <2>2. RunsOf(t)[new] = Stood(t, RunsOf(t), new)
    BY <1>1, <2>1, RunsGiven
  <2>3. x.reused # {} => x.from \in 0..Len(s)
    BY <1>1 DEF Chained
  <2>4. x.reused # {} => RunsOf(t)[x.from] = RunsOf(s)[x.from]
    BY <2>3, RunsStay
  <2>5. QED BY <1>1, <2>1, <2>2, <2>4 DEF Stood
<1>5. CASE x.reused = {}
  <2>1. RunsOf(t)[new] = {new}
    BY <1>4, <1>5
  <2>2. SumFunctionOnSet(g, {new}) = g[new] + SumFunctionOnSet(g, {new} \ {new})
    <3>1. g[new] \in Nat
      BY <1>1, <1>2
    <3> HIDE DEF g, new
    <3>3. IsFiniteSet({new}) /\ new \in {new} /\ \A r \in {new} : g[r] \in Nat
      BY <3>1, FS_Singleton
    <3>2. QED BY <3>3, SumTakes
  <2>3. SumFunctionOnSet(g, {new} \ {new}) = 0
    <3>1. {new} \ {new} = {}
      OBVIOUS
    <3> HIDE DEF g
    <3>2. QED BY <3>1, SumEmpty
  <2>4. x.cost \in Nat
    BY DEF Reviews
  <2>5. QED BY <1>1, <1>2, <1>3, <1>5, <2>1, <2>2, <2>3, <2>4 DEF CostOfRuns
<1>6. CASE x.reused # {}
  <2> DEFINE S == RunsOf(s)[x.from]
             U == {new} \cup S
  <2>1. x.from \in 1..Len(s)
    BY <1>1, <1>6 DEF Chained
  <2>2. S \subseteq 1..Len(s) /\ IsFiniteSet(S)
    <3>1. S \subseteq 1..x.from /\ IsFiniteSet(S) /\ 1..x.from \subseteq 1..Len(s)
      BY <1>1, <2>1, RunsWithin
    <3>2. QED BY <3>1
  <2>3. /\ IsFiniteSet(U) /\ new \in U /\ U \ {new} = S
        /\ \A r \in U : g[r] \in Nat
    <3>1. new \notin S /\ \A r \in S : r \in 1..new
      BY <1>1, <2>2
    <3>2. IsFiniteSet(S \cup {new})
      BY <2>2, FS_AddElement
    <3>3. U = S \cup {new}
      OBVIOUS
    <3>4. \A r \in U : g[r] \in Nat
      BY <1>1, <1>2, <3>1
    <3>5. QED BY <3>1, <3>2, <3>3, <3>4
  <2>4. SumFunctionOnSet(g, U) = g[new] + SumFunctionOnSet(g, U \ {new})
    <3> HIDE DEF U, g, new, S
    <3>1. QED BY <2>3, SumTakes
  <2>5. RunsOf(t)[new] = U
    BY <1>4, <1>6
  <2>6. SumFunctionOnSet(g, S) = CostOfRuns(s, x.from)
    BY <1>3, <2>1
  <2>7. QED BY <1>1, <1>2, <1>3, <1>6, <2>3, <2>4, <2>5, <2>6 DEF CostOfRuns
<1>7. QED BY <1>3, <1>5, <1>6

-----------------------------------------------------------------------------
(* What each action does to the invocation *)

LEMMA InvocationSet ==
  ASSUME NEW e \in Invocations, NEW x \in Nat, NEW m, m = [e EXCEPT !.spent = x]
  PROVE  /\ m \in Invocations /\ m.spent = x /\ m.said = e.said
         /\ m.at = e.at /\ m.rep = e.rep /\ m.earlier = e.earlier /\ m.max = e.max
BY DEF Invocations

LEMMA InvocationMoves ==
  ASSUME NEW e \in Invocations, NEW m, m = Moved(e)
  PROVE  /\ m \in Invocations /\ m.spent = e.spent /\ m.said = e.said
         /\ m.at = (IF e.at < asked[1] THEN e.at + 1 ELSE 0)
         /\ m.rep = e.rep /\ m.earlier = e.earlier /\ m.max = e.max
<1>1. CASE e.at < asked[1]
  <2> DEFINE x == e.at + 1
  <2>1. x \in Nat /\ m = [e EXCEPT !.at = x]
    BY <1>1 DEF Moved, Invocations
  <2> HIDE DEF x
  <2>2. /\ m \in Invocations /\ m.at = x /\ m.spent = e.spent /\ m.said = e.said
        /\ m.rep = e.rep /\ m.earlier = e.earlier /\ m.max = e.max
    BY <2>1 DEF Invocations
  <2>3. QED BY <1>1, <2>2 DEF x
<1>2. CASE ~(e.at < asked[1])
  <2>1. m = [e EXCEPT !.at = 0]
    BY <1>2 DEF Moved
  <2>2. QED BY <1>2, <2>1 DEF Invocations
<1>3. QED BY <1>1, <1>2

\* On to the next instance: of this repetition, or past its last.
MovesOn(spent, said) ==
  /\ eval' \in Invocations /\ eval'.spent = spent /\ eval'.said = said
  /\ eval'.at = (IF eval.at < asked[1] THEN eval.at + 1 ELSE 0)
  /\ eval'.rep = eval.rep /\ eval'.earlier = eval.earlier /\ eval'.max = eval.max
  /\ asked' = asked

\* It moves on with what the instance came to.
LEMMA TakenOver ==
  ASSUME eval \in Invocations, NEW x \in Nat, NEW y \in Nat,
         eval' = Moved([eval EXCEPT !.spent = x, !.said = y]), asked' = asked
  PROVE  MovesOn(x, y)
<1>1. PICK e : e = [eval EXCEPT !.spent = x, !.said = y]
  OBVIOUS
<1>2. /\ e \in Invocations /\ e.spent = x /\ e.said = y
      /\ e.at = eval.at /\ e.rep = eval.rep /\ e.earlier = eval.earlier /\ e.max = eval.max
  BY <1>1 DEF Invocations
<1>3. eval' = Moved(e)
  BY <1>1
<1>4. QED BY <1>2, <1>3, InvocationMoves DEF MovesOn

LEMMA Written ==
  ASSUME eval \in Invocations, NEW q \in BOOLEAN, NEW y \in Nat,
         eval' = Moved([eval EXCEPT !.quota = q, !.said = y]), asked' = asked
  PROVE  MovesOn(eval.spent, y)
<1>1. PICK e : e = [eval EXCEPT !.quota = q, !.said = y]
  OBVIOUS
<1>2. /\ e \in Invocations /\ e.spent = eval.spent /\ e.said = y
      /\ e.at = eval.at /\ e.rep = eval.rep /\ e.earlier = eval.earlier /\ e.max = eval.max
  BY <1>1 DEF Invocations
<1>3. eval' = Moved(e)
  BY <1>1
<1>4. QED BY <1>2, <1>3, InvocationMoves DEF MovesOn

\* Where an invocation is.
LEMMA Place ==
  ASSUME EvalTypes, InSelection, On
  PROVE  /\ asked[1] \in Nat \ {0} /\ asked[2] \in Nat \ {0} /\ 1..asked[1] \subseteq PRs
         /\ eval.rep \in Reps /\ eval.rep # 0 /\ eval.at \in Nat
         /\ eval.at > 0 => eval.at \in PRs /\ Current = results[eval.rep][eval.at] /\ Current \in EvalResults
<1>1. asked \in Selections /\ eval.rep \in 1..asked[2] /\ eval.at \in 0..asked[1]
  BY DEF InSelection
<1>2. asked[1] \in Nat \ {0} /\ asked[2] \in Nat \ {0}
  BY <1>1, EvalAssumption
<1>3. 1..asked[1] \subseteq PRs /\ 1..asked[2] \subseteq Reps
  BY <1>1 DEF PRs, Reps
<1>4. eval.at > 0 => eval.at \in PRs
  BY <1>1, <1>2, <1>3
<1>5. eval.at > 0 => Current \in EvalResults
  BY <1>1, <1>3, <1>4 DEF Current, EvalTypes
<1>6. QED BY <1>1, <1>2, <1>3, <1>4, <1>5 DEF Current

\* The results but for one place.
Elsewhere(n, p) == n # eval.rep \/ p # eval.at
LEMMA ResultWritten ==
  ASSUME EvalTypes, InSelection, On, eval.at > 0, NEW x \in EvalResults,
         results' = [results EXCEPT ![eval.rep][eval.at] = x]
  PROVE  /\ results' \in [Reps -> [PRs -> EvalResults]]
         /\ results'[eval.rep][eval.at] = x
         /\ \A n \in Reps, p \in PRs : Elsewhere(n, p) => results'[n][p] = results[n][p]
<1>1. eval.rep \in Reps /\ eval.at \in PRs /\ results \in [Reps -> [PRs -> EvalResults]]
  BY Place DEF EvalTypes
<1>2. QED BY <1>1 DEF Elsewhere

LEMMA LogWritten ==
  ASSUME EvalTypes, InSelection, On, eval.at > 0, NEW x \in Logs,
         kept' = [kept EXCEPT ![eval.rep][eval.at] = x]
  PROVE  /\ kept' \in [Reps -> [PRs -> Logs]]
         /\ kept'[eval.rep][eval.at] = x
         /\ \A n \in Reps, p \in PRs : Elsewhere(n, p) => kept'[n][p] = kept[n][p]
<1>1. eval.rep \in Reps /\ eval.at \in PRs /\ kept \in [Reps -> [PRs -> Logs]]
  BY Place DEF EvalTypes
<1>2. QED BY <1>1 DEF Elsewhere

LEMMA EvalFirst == EvalInit => EvalInv
<1> SUFFICES ASSUME EvalInit PROVE EvalInv
  OBVIOUS
<1>1. /\ asked = NotAsked /\ results = [n \in Reps |-> [p \in PRs |-> NoResult]]
      /\ kept = [n \in Reps |-> [p \in PRs |-> NoLog]] /\ sessions = <<>> /\ eval = Off
      /\ review = NoReview /\ paid = 0 /\ astray = {} /\ ~On
  BY DEF EvalInit, On
<1>2. NoResult \in EvalResults /\ NoResult.run = 0 /\ NoReview \in InHands /\ NoReview.result = NoResult
  BY DEF NoResult, EvalResults, Limits, NoReview, InHands
<1>3. Off \in Invocations /\ NoLog \in Logs
  BY DEF Off, Invocations, Logs
<1>4. EvalTypes
  BY <1>1, <1>2, <1>3 DEF EvalTypes
<1>5. Chained(sessions)
  BY <1>1 DEF Chained
<1>6. \A n \in Reps, p \in PRs : results[n][p] = NoResult
  BY <1>1
<1>7. IsTrue(NoResult)
  BY <1>1, <1>2 DEF IsTrue
<1>8. AllTrue /\ LogsInv
  BY <1>1, <1>2, <1>6, <1>7 DEF AllTrue, LogsInv, LogHolds
<1>9. QED BY <1>1, <1>4, <1>5, <1>8 DEF EvalInv, InSelection, PaidIsSpent, PaidIsSaid, InHandInv

LEMMA MovedOn ==
  ASSUME EvalTypes, InSelection, On, eval.at > 0, NEW spent, NEW said, MovesOn(spent, said)
  PROVE  On' /\ InSelection'
<1>1. /\ asked[1] \in Nat \ {0} /\ asked \in Selections
      /\ eval.rep \in 1..asked[2] /\ eval.rep # 0 /\ eval.at \in 0..asked[1]
      /\ eval.max \in Budgets \cup {Unlimited}
  BY Place DEF InSelection
<1>2. On'
  BY <1>1 DEF MovesOn, On, Off
<1>3. eval'.at \in 0..asked[1]
  BY <1>1 DEF MovesOn
<1>4. Unlimited' = Unlimited
  BY DEF Unlimited
<1>5. QED BY <1>1, <1>2, <1>3, <1>4 DEF MovesOn, InSelection

\* What only moves the invocation leaves the rest true.
LEMMA RecordsStay ==
  ASSUME EvalInv, UNCHANGED <<results, kept, sessions>>, IsTrue(review'.result)
  PROVE  Chained(sessions)' /\ AllTrue'
<1>1. Chained(sessions)'
  BY DEF EvalInv, Chained
<1>2. \A r : TrueOf(r, sessions)' <=> TrueOf(r, sessions)
  BY DEF TrueOf, CostOfRuns, CostsIn, RunsOf, Stands, Stood, Done
<1>3. \A r : IsTrue(r) => TrueOf(r, sessions)'
  BY <1>2, RunsAre
<1>4. \A r : TrueOf(r, sessions)' => IsTrue(r)'
  <2>1. (\A r : IsTrue(r) <=> TrueOf(r, sessions))'
    BY RunsAre, PTL
  <2>2. QED BY <2>1
<1>5. \A n \in Reps, p \in PRs : IsTrue(results[n][p])
  BY DEF EvalInv, AllTrue
<1>6. QED BY <1>1, <1>3, <1>4, <1>5 DEF AllTrue

\* Nothing in hand, and no result, log or review changes.
LEMMA KeepsRecords ==
  ASSUME EvalInv, UNCHANGED <<results, kept, sessions, review, astray>>, review = NoReview
  PROVE  Chained(sessions)' /\ AllTrue' /\ InHandInv' /\ LogsInv'
<1>1. Chained(sessions)' /\ AllTrue'
  <2>1. IsTrue(review'.result)
    BY DEF EvalInv, AllTrue
  <2>2. QED BY <2>1, RecordsStay
<1>2. NoReview' = NoReview
  BY DEF NoReview, NoResult
<1>3. QED BY <1>1, <1>2 DEF EvalInv, InHandInv, LogsInv, LogHolds

LEMMA PassingKeeps ==
  ASSUME EvalInv, TakeOver \/ SkipOne
  PROVE  EvalInv'
<1> USE DEF EvalInv
<1>1. /\ On /\ eval.at > 0 /\ review = NoReview
      /\ UNCHANGED <<asked, results, kept, sessions, review, paid, astray>>
  BY DEF TakeOver, SkipOne, Deciding
<1>2. /\ Current \in EvalResults /\ Current.cost \in Nat
      /\ eval \in Invocations /\ eval.spent \in Nat /\ eval.said \in Nat
  BY <1>1, Place DEF EvalResults, EvalTypes, Invocations
<1>3. PICK spent \in Nat, said \in Nat :
        /\ spent >= eval.spent /\ said >= eval.said
        /\ MovesOn(spent, said)
  <2>1. CASE TakeOver
    <3> DEFINE x == eval.spent + Current.cost
               y == eval.said + Current.cost
    <3>1. /\ x \in Nat /\ x >= eval.spent /\ y \in Nat /\ y >= eval.said
          /\ eval' = Moved([eval EXCEPT !.spent = x, !.said = y]) /\ asked' = asked
      BY <1>2, <2>1 DEF TakeOver
    <3> HIDE DEF x, y
    <3>2. MovesOn(x, y)
      BY <1>2, <3>1, TakenOver
    <3>3. QED BY <3>1, <3>2
  <2>2. CASE SkipOne
    <3>1. eval' = Moved(eval) /\ asked' = asked
      BY <2>2 DEF SkipOne
    <3>2. eval.spent >= eval.spent /\ eval.said >= eval.said
      BY <1>2
    <3>3. MovesOn(eval.spent, eval.said)
      BY <1>2, <3>1, InvocationMoves DEF MovesOn
    <3>4. QED BY <1>2, <3>2, <3>3
  <2>3. QED BY <2>1, <2>2
<1>4. On' /\ InSelection'
  BY <1>1, <1>3, MovedOn
<1>5. EvalTypes'
  BY <1>1, <1>3 DEF EvalTypes, MovesOn, EvalResults, Limits, Reviews, Invocations, InHands, Logs, PRs, Reps,
     NoLog, Unlimited, NotAsked
<1>6. PaidIsSpent' /\ PaidIsSaid'
  <2>1. /\ paid' = paid /\ paid \in Nat /\ eval.earlier \in Nat /\ eval'.earlier = eval.earlier
        /\ eval'.spent = spent /\ eval'.said = said
        /\ review' = review /\ review.result.cost \in Nat
    BY <1>1, <1>2, <1>3 DEF EvalTypes, MovesOn, Invocations, InHands, EvalResults
  <2>2. paid <= eval.earlier + eval.spent /\ paid <= eval.earlier + eval.said + review.result.cost
    BY <1>1 DEF PaidIsSpent, PaidIsSaid
  <2>3. paid' <= eval'.earlier + eval'.spent
    BY <1>2, <1>3, <2>1, <2>2
  <2>4. paid' <= eval'.earlier + eval'.said + review'.result.cost
    BY <1>2, <1>3, <2>1, <2>2
  <2>5. QED BY <2>3, <2>4 DEF PaidIsSpent, PaidIsSaid
<1>7. Chained(sessions)' /\ AllTrue' /\ InHandInv' /\ LogsInv'
  BY <1>1, KeepsRecords
<1>8. QED BY <1>4, <1>5, <1>6, <1>7

LEMMA InvokeKeeps ==
  ASSUME EvalInv, Invoke
  PROVE  EvalInv'
<1> USE DEF EvalInv
<1>1. /\ ~On /\ asked' \in Selections /\ paid' = 0
      /\ UNCHANGED <<results, kept, sessions, review, astray>>
  BY DEF Invoke, EvalTypes
<1>2. review = NoReview
  BY <1>1 DEF InHandInv
<1>3. PICK max \in Budgets \cup {Unlimited}, retry \in BOOLEAN :
        eval' = [at |-> 1, rep |-> 1, spent |-> 0, said |-> 0, quota |-> FALSE, earlier |-> 0,
                 max |-> max, retry |-> retry]
  BY DEF Invoke
<1>4. /\ eval' \in Invocations /\ eval'.at = 1 /\ eval'.rep = 1
      /\ eval'.spent = 0 /\ eval'.said = 0 /\ eval'.earlier = 0
      /\ eval'.max \in Budgets \cup {Unlimited}
  BY <1>3 DEF Invocations
<1>5. /\ Unlimited' = Unlimited /\ Invocations' = Invocations
  BY DEF Unlimited, Invocations
<1>6. asked'[1] \in Nat \ {0} /\ asked'[2] \in Nat \ {0}
  BY <1>1, EvalAssumption
<1>7. InSelection'
  BY <1>1, <1>4, <1>5, <1>6 DEF InSelection
<1>8. EvalTypes'
  BY <1>1, <1>4 DEF EvalTypes, EvalResults, Limits, Reviews, Invocations, InHands, Logs, PRs, Reps,
     NoLog, Unlimited, NotAsked
<1>9. PaidIsSpent' /\ PaidIsSaid'
  <2>1. review'.result.cost = 0
    BY <1>1, <1>2 DEF NoReview, NoResult
  <2>2. QED BY <1>1, <1>4, <2>1 DEF PaidIsSpent, PaidIsSaid
<1>10. Chained(sessions)' /\ AllTrue' /\ InHandInv' /\ LogsInv'
  BY <1>1, <1>2, KeepsRecords
<1>11. QED BY <1>7, <1>8, <1>9, <1>10

LEMMA PrepareFailsKeeps ==
  ASSUME EvalInv, PrepareFails
  PROVE  EvalInv'
<1> USE DEF EvalInv
<1>1. /\ On /\ eval.at > 0 /\ review = NoReview
      /\ UNCHANGED <<asked, results, kept, sessions, eval, paid, astray>>
  BY DEF PrepareFails, Reviewing, Deciding
<1>2. PICK s \in {"failed", "unavailable"} :
        review' = [run |-> 0, result |-> [NoResult EXCEPT !.status = s], logged |-> TRUE]
  BY DEF PrepareFails
<1>3. [NoResult EXCEPT !.status = s] = [status |-> s, cost |-> 0, run |-> 0, holds |-> {}, limit |-> "none"]
  BY DEF NoResult
<1>4. /\ review' \in InHands /\ review'.run = 0 /\ review'.logged = TRUE
      /\ review'.result.run = 0 /\ review'.result.cost = 0
  BY <1>2, <1>3 DEF InHands, EvalResults, Limits
<1>5. Chained(sessions)' /\ AllTrue'
  <2>1. IsTrue(review'.result)
    <3>1. Len(sessions) \in Nat
      BY DEF EvalTypes
    <3>2. QED BY <1>4, <3>1 DEF IsTrue
  <2>2. QED BY <1>1, <2>1, RecordsStay
<1>6. On' /\ Current' = Current
  BY <1>1 DEF On, Off, Current
<1>7. EvalTypes' /\ InSelection'
  BY <1>1, <1>4 DEF EvalTypes, InSelection, On, EvalResults, Limits, Reviews, Invocations, InHands, Logs,
     PRs, Reps, NoLog, Unlimited, NotAsked, Off
<1>8. InHandInv'
  BY <1>1, <1>4, <1>6 DEF InHandInv
<1>9. LogsInv'
  BY <1>1, <1>4 DEF LogsInv, LogHolds
<1>10. PaidIsSpent' /\ PaidIsSaid'
  <2>1. review.result.cost = 0
    BY <1>1 DEF NoReview, NoResult
  <2>2. QED BY <1>1, <1>4, <2>1 DEF PaidIsSpent, PaidIsSaid
<1>11. QED BY <1>5, <1>7, <1>8, <1>9, <1>10

\* A review, and what it says.
ReviewGives(from, took, ran, session, result) ==
  /\ from \in Resumable /\ took \in Reusable(from) /\ ran \in SUBSET (Tasks \ took)
  /\ session = Session(from, took, ran)
  /\ \E ending \in Endings : result = ResultOf(session, ending[1], ending[2])
  /\ Recorded(session, result)

LEMMA ReviewIs ==
  ASSUME Review
  PROVE  \E from, took, ran, session, result : ReviewGives(from, took, ran, session, result)
<1>1. PICK from \in Resumable : \E took \in Reusable(from) :
        \E ran \in SUBSET (Tasks \ took), ending \in Endings :
          Recorded(Session(from, took, ran), ResultOf(Session(from, took, ran), ending[1], ending[2]))
  BY DEF Review
<1>2. QED BY <1>1, Zenon DEF ReviewGives

\* It takes up only the review its result is of, and costs what it says.
LEMMA ReviewTyped ==
  ASSUME EvalInv, On, eval.at > 0,
         NEW from, NEW took, NEW ran, NEW session, NEW result,
         ReviewGives(from, took, ran, session, result)
  PROVE  /\ session \in Reviews /\ session.reused = took /\ session.from = from /\ session.ran = ran
         /\ took # {} => from = Current.run /\ from # 0 /\ took = Current.holds
         /\ Chained(sessions')
         /\ result \in EvalResults
         /\ result.run # 0 => /\ result.run = Len(sessions) + 1 /\ result.holds = Done(session)
                              /\ result.cost = session.cost + (IF took # {} THEN Current.cost ELSE 0)
         /\ PaidNow(session, result) = (IF result.run = 0 THEN 0 ELSE session.cost)
<1> USE DEF EvalInv
<1>1. /\ sessions \in Seq(Reviews) /\ Len(sessions) \in Nat /\ DOMAIN sessions = 1..Len(sessions)
      /\ Current \in EvalResults /\ Current.run \in Nat /\ Current.cost \in Nat
  BY Place DEF EvalTypes, EvalResults
<1>2. IsTrue(Current)
  BY Place DEF AllTrue
<1>3. from = 0 \/ from = Current.run
  BY DEF ReviewGives, Resumable
<1>4. Current.run \in 0..Len(sessions)
      /\ (Current.run # 0 => Current.holds = Done(sessions[Current.run]))
  BY <1>2 DEF IsTrue
<1>5. took # {} => from = Current.run /\ from # 0 /\ took = Current.holds /\ from \in 1..Len(sessions)
  BY <1>1, <1>3, <1>4 DEF ReviewGives, Reusable
<1>6. took \in SUBSET Tasks
  BY <1>1, <1>5 DEF EvalResults
<1>7. Cardinality(Tasks \ took) \in Nat
  <2>1. IsFiniteSet(Tasks \ took)
    BY EvalAssumption, FS_Subset
  <2>2. QED BY <2>1, FS_CardinalityType
<1>8. /\ session \in Reviews /\ session.reused = took /\ session.from = from /\ session.ran = ran
      /\ session.cost \in Nat
  <2>1. from \in Nat /\ ran \in SUBSET Tasks
    BY <1>1, <1>3, <1>6 DEF ReviewGives, Recorded
  <2>2. session = [from |-> from, reused |-> took, ran |-> ran, cost |-> Cardinality(Tasks \ took)]
    BY DEF ReviewGives, Session
  <2>3. QED BY <1>6, <1>7, <2>1, <2>2 DEF Reviews
<1>9. Chained(sessions')
  <2>1. /\ sessions' = Append(sessions, session) /\ DOMAIN sessions' = 1..(Len(sessions) + 1)
        /\ sessions'[Len(sessions) + 1] = session
        /\ \A r \in 1..Len(sessions) : sessions'[r] = sessions[r]
    BY <1>1, <1>8 DEF ReviewGives, Recorded
  <2>2. ASSUME NEW r \in DOMAIN sessions', sessions'[r].reused # {}
        PROVE  sessions'[r].from \in 1..(r - 1)
    <3>1. CASE r \in 1..Len(sessions)
      BY <1>1, <2>1, <2>2, <3>1 DEF Chained
    <3>2. CASE r = Len(sessions) + 1
      BY <1>1, <1>5, <1>8, <2>1, <2>2, <3>2
    <3>3. QED BY <1>1, <2>1, <3>1, <3>2
  <2>3. QED BY <2>2 DEF Chained
<1>10. PICK ending \in Endings : result = ResultOf(session, ending[1], ending[2])
  BY DEF ReviewGives, Recorded
<1>11. ending[2] \in Limits
  <2>1. CASE ending \in {<<"itself", l>> : l \in Limits}
    BY <2>1
  <2>2. CASE ending \in {<<"cut", "none">>, <<"no report", "none">>, <<"no report", "quota">>}
    <3>1. CASE ending = <<"no report", "quota">>
      BY <3>1 DEF Limits
    <3>2. CASE ending = <<"no report", "none">>
      BY <3>2 DEF Limits
    <3>3. CASE ending = <<"cut", "none">>
      BY <3>3 DEF Limits
    <3>4. QED BY <2>2, <3>1, <3>2, <3>3
  <2>3. QED BY <1>10, <2>1, <2>2 DEF Endings
<1>12. Done(session) \in SUBSET Tasks
  BY <1>6, <1>8 DEF Done, Reviews
<1>13. CASE ending[1] = "no report"
  <2> DEFINE l == ending[2]
  <2>1. result = [NoResult EXCEPT !.status = "failed", !.limit = l] /\ l \in Limits
    BY <1>10, <1>11, <1>13 DEF ResultOf
  <2> HIDE DEF l
  <2>2. result = [status |-> "failed", cost |-> 0, run |-> 0, holds |-> {}, limit |-> l]
    BY <2>1 DEF NoResult
  <2>3. result \in EvalResults
    BY <2>1, <2>2 DEF EvalResults
  <2>6. result.run = 0 /\ result.cost = 0
    BY <2>2
  <2>4. PaidNow(session, result) = 0
    BY <2>6 DEF PaidNow
  <2>5. QED BY <1>5, <1>8, <1>9, <2>3, <2>4, <2>6
<1>14. CASE ending[1] # "no report"
  <2> DEFINE cost == session.cost + (IF took # {} THEN Current.cost ELSE 0)
             status == StatusOf(Done(session), ending[1], ending[2])
  <2>1. cost \in Nat /\ status \in {"reviewed", "failed"} /\ cost = CostOf(session)
    BY <1>1, <1>8 DEF StatusOf, CostOf
  <2>2. result = [status |-> status, cost |-> cost, run |-> Len(sessions) + 1, holds |-> Done(session),
                  limit |-> ending[2]]
    BY <1>10, <1>14, <2>1 DEF ResultOf
  <2> HIDE DEF cost, status
  <2>3. /\ result \in EvalResults /\ result.run = Len(sessions) + 1 /\ result.run # 0
        /\ result.cost = cost /\ result.holds = Done(session)
    BY <1>1, <1>11, <1>12, <2>1, <2>2 DEF EvalResults
  <2>4. PaidNow(session, result) = session.cost
    BY <1>1, <1>8, <2>3 DEF PaidNow, cost
  <2>5. QED BY <1>5, <1>8, <1>9, <2>3, <2>4 DEF cost
<1>15. QED BY <1>13, <1>14

\* What was true of a result stays so when another review is run.
LEMMA TrueStays ==
  ASSUME NEW s \in Seq(Reviews), NEW x \in Reviews, NEW t, t = Append(s, x),
         Chained(s), Chained(t), NEW r, TrueOf(r, s)
  PROVE  TrueOf(r, t)
<1>1. /\ r.run \in 0..Len(s) /\ Len(s) \in Nat /\ Len(t) = Len(s) + 1
      /\ \A n \in 1..Len(s) : t[n] = s[n]
  BY DEF TrueOf
<1>2. CostOfRuns(t, r.run) = CostOfRuns(s, r.run)
  BY <1>1, CostsStay
<1>3. CASE r.run = 0
  BY <1>1, <1>3 DEF TrueOf
<1>4. CASE r.run # 0
  <2>1. t[r.run] = s[r.run] /\ r.run \in 0..Len(t)
    BY <1>1, <1>4
  <2>2. QED BY <1>2, <1>4, <2>1 DEF TrueOf
<1>5. QED BY <1>3, <1>4

LEMMA ReviewKeeps ==
  ASSUME EvalInv, Review
  PROVE  EvalInv'
<1> USE DEF EvalInv
<1>1. /\ On /\ eval.at > 0 /\ review = NoReview
      /\ UNCHANGED <<asked, results, kept, astray>>
  BY DEF Review, Reviewing, Deciding
<1>2. PICK from, took, ran, session, result : ReviewGives(from, took, ran, session, result)
  BY ReviewIs
<1>3. /\ session \in Reviews /\ session.reused = took /\ session.from = from /\ session.ran = ran
      /\ took # {} => from = Current.run /\ from # 0 /\ took = Current.holds
      /\ Chained(sessions')
      /\ result \in EvalResults
      /\ result.run # 0 => /\ result.run = Len(sessions) + 1 /\ result.holds = Done(session)
                           /\ result.cost = session.cost + (IF took # {} THEN Current.cost ELSE 0)
      /\ PaidNow(session, result) = (IF result.run = 0 THEN 0 ELSE session.cost)
  BY <1>1, <1>2, ReviewTyped
<1>4. /\ sessions' = Append(sessions, session) /\ sessions \in Seq(Reviews) /\ Len(sessions) \in Nat
      /\ Len(sessions') = Len(sessions) + 1 /\ sessions'[Len(sessions) + 1] = session
      /\ sessions' \in Seq(Reviews)
  BY <1>2, <1>3 DEF ReviewGives, Recorded, EvalTypes
<1>5. /\ review' \in InHands /\ review'.run = result.run /\ review'.result = result /\ ~review'.logged
      /\ result.run \in Nat /\ result.cost \in Nat
  <2>1. review' = [run |-> result.run, result |-> result, logged |-> FALSE]
    BY <1>2 DEF ReviewGives, Recorded
  <2>2. result.run \in Nat /\ result.cost \in Nat
    BY <1>3 DEF EvalResults
  <2>3. QED BY <1>3, <2>1, <2>2 DEF InHands
<1> DEFINE now == IF result.run = 0 THEN 0 ELSE session.cost
<1>6. now \in Nat /\ session.cost \in Nat /\ Current.cost \in Nat /\ now <= result.cost
  <2>1. session.cost \in Nat /\ Current.cost \in Nat
    BY <1>1, <1>3, Place DEF Reviews, EvalResults
  <2>2. CASE result.run = 0
    BY <1>5, <2>1, <2>2
  <2>3. CASE result.run # 0
    BY <1>3, <2>1, <2>3
  <2>4. QED BY <2>1, <2>2, <2>3
<1>7. /\ eval' \in Invocations /\ eval'.spent = eval.spent + now /\ eval'.said = eval.said
      /\ paid' = paid + now
      /\ eval'.at = eval.at /\ eval'.rep = eval.rep /\ eval'.earlier = eval.earlier /\ eval'.max = eval.max
  <2> DEFINE x == eval.spent + now
  <2>1. x \in Nat /\ eval \in Invocations
    BY <1>6 DEF EvalTypes, Invocations
  <2>2. eval' = [eval EXCEPT !.spent = x] /\ paid' = paid + now
    BY <1>2, <1>3 DEF ReviewGives, Recorded
  <2> HIDE DEF x, now
  <2>3. /\ eval' \in Invocations /\ eval'.spent = x /\ eval'.said = eval.said
        /\ eval'.at = eval.at /\ eval'.rep = eval.rep /\ eval'.earlier = eval.earlier /\ eval'.max = eval.max
    BY <2>1, <2>2, InvocationSet
  <2>4. QED BY <2>2, <2>3 DEF x
<1> HIDE DEF now
<1>8. On' /\ InSelection' /\ Current' = Current
  <2>1. Unlimited' = Unlimited
    BY DEF Unlimited
  <2>2. On' /\ Current' = Current
    BY <1>1, <1>7, Place DEF On, Off, Current
  <2>3. QED BY <1>1, <1>7, <2>1, <2>2 DEF InSelection
<1>9. EvalTypes'
  <2>1. paid' \in Nat
    BY <1>6, <1>7 DEF EvalTypes
  <2>2. QED BY <1>1, <1>4, <1>5, <1>7, <2>1 DEF EvalTypes
<1>10. \A r : TrueOf(r, sessions) => TrueOf(r, sessions')
  BY <1>3, <1>4, TrueStays
<1>11. TrueOf(result, sessions')
  <2>1. CASE result.run = 0
    BY <1>4, <2>1 DEF TrueOf
  <2>2. CASE result.run # 0
    <3>1. /\ took = {} => CostOfRuns(sessions', Len(sessions')) = session.cost
          /\ took # {} => CostOfRuns(sessions', Len(sessions')) = session.cost + CostOfRuns(sessions, from)
      BY <1>3, <1>4, CostsStay
    <3>2. took # {} => Current.cost = CostOfRuns(sessions, from)
      <4>1. TrueOf(Current, sessions)
        BY <1>1, Place, RunsAre DEF AllTrue
      <4>2. QED BY <1>3, <4>1 DEF TrueOf
    <3>3. result.cost = CostOfRuns(sessions', result.run)
      BY <1>3, <1>4, <1>6, <2>2, <3>1, <3>2
    <3>4. result.holds = Done(sessions'[result.run]) /\ result.run \in 0..Len(sessions')
      BY <1>3, <1>4, <2>2
    <3>5. QED BY <3>3, <3>4 DEF TrueOf
  <2>3. QED BY <2>1, <2>2
<1>12. Chained(sessions)' /\ AllTrue'
  <2>1. (\A r : IsTrue(r) <=> TrueOf(r, sessions))'
    BY RunsAre, PTL
  <2>2. \A r : TrueOf(r, sessions') => IsTrue(r)'
    BY <2>1
  <2>3. \A n \in Reps, p \in PRs : TrueOf(results[n][p], sessions)
    BY RunsAre DEF AllTrue
  <2>4. \A n \in Reps, p \in PRs : TrueOf(results'[n][p], sessions')
    BY <1>1, <1>10, <2>3
  <2>5. QED BY <1>3, <1>5, <1>11, <2>2, <2>4 DEF AllTrue
<1>13. PaidIsSpent' /\ PaidIsSaid'
  <2>1. /\ paid \in Nat /\ eval.earlier \in Nat /\ eval.spent \in Nat /\ eval.said \in Nat
        /\ paid <= eval.earlier + eval.spent
        /\ paid <= eval.earlier + eval.said + 0
    BY <1>1 DEF EvalTypes, Invocations, PaidIsSpent, PaidIsSaid, NoReview, NoResult
  <2>2. paid' <= eval'.earlier + eval'.spent
    BY <1>6, <1>7, <2>1
  <2>3. result.cost \in Nat
    BY <1>3 DEF EvalResults
  <2>4. paid' <= eval'.earlier + eval'.said + review'.result.cost
    BY <1>5, <1>6, <1>7, <2>1, <2>3
  <2>5. QED BY <2>2, <2>4 DEF PaidIsSpent, PaidIsSaid
<1>14. InHandInv'
  <2>1. review'.run = review'.result.run /\ eval'.at > 0
    BY <1>1, <1>5, <1>7
  <2>2. ASSUME review'.run # 0, sessions'[review'.run].reused # {}
        PROVE  Current'.run # 0 /\ sessions'[review'.run].reused = Current'.holds
    <3>1. sessions'[review'.run] = session
      BY <1>3, <1>4, <1>5, <2>2
    <3>2. QED BY <1>3, <1>8, <2>2, <3>1
  <2>3. QED BY <1>8, <2>1, <2>2 DEF InHandInv
<1>15. LogsInv'
  <2>1. \A n \in Reps, p \in PRs : <<n, p>> \in astray \/ LogHolds(kept[n][p], results[n][p])
    BY <1>1 DEF LogsInv
  <2>2. QED BY <1>1, <1>5, <2>1 DEF LogsInv, LogHolds
<1>16. QED BY <1>8, <1>9, <1>12, <1>13, <1>14, <1>15

LEMMA KeepLogKeeps ==
  ASSUME EvalInv, KeepLog
  PROVE  EvalInv'
<1> USE DEF EvalInv
<1>1. /\ On /\ review # NoReview /\ ~review.logged /\ eval.at > 0
      /\ review.run = review.result.run
      /\ UNCHANGED <<asked, results, sessions, eval, paid>>
  BY DEF KeepLog, InHandInv
<1>2. /\ review' \in InHands /\ review'.run = review.run /\ review'.result = review.result
      /\ review'.logged = TRUE
  <2>1. review' = [review EXCEPT !.logged = TRUE] /\ review \in InHands
    BY DEF KeepLog, EvalTypes
  <2>2. QED BY <2>1 DEF InHands
<1>3. /\ eval.rep \in Reps /\ eval.at \in PRs /\ Current = results[eval.rep][eval.at]
      /\ kept \in [Reps -> [PRs -> Logs]] /\ review.result \in EvalResults
  BY <1>1, Place DEF EvalTypes, InHands
<1> DEFINE told == kept[eval.rep][eval.at]
           r == sessions[review.run]
<1>4. review.run # 0 => r \in Reviews /\ r.ran \cup r.reused = review.result.holds
  <2>1. IsTrue(review.result)
    BY DEF AllTrue
  <2>2. sessions \in Seq(Reviews)
    BY DEF EvalTypes
  <2>3. review.run # 0 => review.run \in 1..Len(sessions)
    BY <1>1, <2>1, <2>2 DEF IsTrue
  <2>4. QED BY <1>1, <2>1, <2>2, <2>3 DEF IsTrue, Done
<1>5. KeptLog(told) \in Logs
  <2>1. CASE review.run = 0
    BY <2>1 DEF KeptLog, Logs
  <2>2. CASE review.run # 0
    <3>1. Carried(told, r) \subseteq Tasks /\ r.ran \subseteq Tasks
      BY <1>4, <2>2 DEF Carried, Reviews
    <3>2. QED BY <2>2, <3>1 DEF KeptLog, Logs
  <2>3. QED BY <2>1, <2>2
<1>6. ASSUME review.run # 0,
             r.reused = {} \/ LogHolds(told, Current)
      PROVE  LogHolds(KeptLog(told), review.result)
  <2>1. r.reused \subseteq Carried(told, r)
    <3>1. CASE r.reused = {}
      BY <3>1
    <3>2. CASE r.reused # {}
      <4>1. Current.run # 0 /\ r.reused = Current.holds
        BY <1>1, <1>6, <3>2 DEF InHandInv
      <4>2. told # NoLog /\ r.reused \subseteq told
        BY <1>6, <3>2, <4>1 DEF LogHolds
      <4>3. r.from # 0
        <5>1. review.run \in DOMAIN sessions
          <6>1. IsTrue(review.result) /\ sessions \in Seq(Reviews)
            BY DEF AllTrue, EvalTypes
          <6>2. QED BY <1>1, <1>6, <6>1 DEF IsTrue
        <5>2. r.from \in 1..(review.run - 1)
          BY <3>2, <5>1 DEF Chained
        <5>3. QED BY <5>2
      <4>4. QED BY <4>2, <4>3 DEF Carried
    <3>3. QED BY <3>1, <3>2
  <2>2. KeptLog(told) = Carried(told, r) \cup r.ran
    BY <1>6 DEF KeptLog
  <2>3. KeptLog(told) # NoLog
    <3>1. Carried(told, r) \cup r.ran \subseteq Tasks
      BY <1>4, <1>6 DEF Carried, Reviews
    <3>2. QED BY <2>2, <3>1, EvalAssumption DEF NoLog
  <2>4. QED BY <1>4, <1>6, <2>1, <2>2, <2>3 DEF LogHolds
<1>7. On' /\ Current' = Current
  BY <1>1 DEF On, Off, Current
<1>8. \/ /\ kept' = [kept EXCEPT ![eval.rep][eval.at] = KeptLog(told)]
         /\ astray' = IF StaysAstray THEN astray ELSE astray \ Here
      \/ kept' = kept /\ astray' = astray \cup Here
  BY <1>3 DEF KeepLog
<1>9. kept' \in [Reps -> [PRs -> Logs]]
      /\ \A n \in Reps, p \in PRs : Elsewhere(n, p) => kept'[n][p] = kept[n][p]
  BY <1>1, <1>3, <1>5, <1>8, LogWritten
<1>10. EvalTypes' /\ InSelection'
  <2>1. EvalTypes'
    BY <1>1, <1>2, <1>9 DEF EvalTypes
  <2>2. QED BY <1>1, <1>7, <2>1 DEF InSelection, Unlimited
<1>11. Chained(sessions)' /\ AllTrue'
  <2>1. (\A x : IsTrue(x) <=> TrueOf(x, sessions))'
    BY RunsAre, PTL
  <2>2. \A x : IsTrue(x) => IsTrue(x)'
    BY <1>1, <2>1, RunsAre
  <2>3. QED BY <1>1, <1>2, <2>2 DEF Chained, AllTrue
<1>12. PaidIsSpent' /\ PaidIsSaid' /\ InHandInv'
  <2>1. review' # NoReview
    BY <1>2 DEF NoReview
  <2>2. QED BY <1>1, <1>2, <1>7 DEF PaidIsSpent, PaidIsSaid, InHandInv
<1>13. LogsInv'
  <2>1. review' # NoReview
    BY <1>2 DEF NoReview
  <2>2. ASSUME NEW n \in Reps, NEW p \in PRs, Elsewhere(n, p)
        PROVE  <<n, p>> \in astray' \/ LogHolds(kept'[n][p], results'[n][p])
    <3>1. <<n, p>> \in astray \/ LogHolds(kept[n][p], results[n][p])
      BY <1>1 DEF LogsInv
    <3>2. <<n, p>> \in astray => <<n, p>> \in astray'
      <4>1. <<n, p>> # <<eval.rep, eval.at>>
        BY <2>2 DEF Elsewhere
      <4>2. QED BY <1>8, <4>1 DEF Here
    <3>3. kept'[n][p] = kept[n][p] /\ results'[n][p] = results[n][p]
      BY <1>1, <1>9, <2>2
    <3>4. QED BY <3>1, <3>2, <3>3
  <2>3. <<eval.rep, eval.at>> \in astray' \/ LogHolds(kept'[eval.rep][eval.at], review'.result)
    <3>1. CASE kept' = kept /\ astray' = astray \cup Here
      BY <3>1 DEF Here
    <3>2. CASE kept' = [kept EXCEPT ![eval.rep][eval.at] = KeptLog(told)]
               /\ astray' = IF StaysAstray THEN astray ELSE astray \ Here
      <4>1. kept'[eval.rep][eval.at] = KeptLog(told)
        BY <1>1, <1>3, <1>5, <3>2, LogWritten
      <4>2. CASE review.run = 0
        BY <1>1, <1>2, <4>2 DEF LogHolds
      <4>3. CASE review.run # 0 /\ r.reused = {}
        BY <1>2, <1>6, <4>1, <4>3
      <4>4. CASE review.run # 0 /\ r.reused # {}
        <5>1. astray' = astray
          BY <3>2, <4>4 DEF StaysAstray
        <5>2. <<eval.rep, eval.at>> \in astray \/ LogHolds(told, Current)
          BY <1>1, <1>3 DEF LogsInv
        <5>3. QED BY <1>2, <1>6, <4>1, <4>4, <5>1, <5>2
      <4>5. QED BY <4>2, <4>3, <4>4
    <3>3. QED BY <1>8, <3>1, <3>2
  <2>4. QED BY <1>1, <1>2, <2>1, <2>2, <2>3 DEF LogsInv, Elsewhere
<1>14. QED BY <1>10, <1>11, <1>12, <1>13

LEMMA WriteResultKeeps ==
  ASSUME EvalInv, WriteResult
  PROVE  EvalInv'
<1> USE DEF EvalInv
<1>1. /\ On /\ review # NoReview /\ review.logged /\ eval.at > 0
      /\ results' = [results EXCEPT ![eval.rep][eval.at] = review.result] /\ review' = NoReview
      /\ eval' = Moved([eval EXCEPT !.quota = @ \/ review.result.limit = "quota",
                                   !.said = @ + review.result.cost])
      /\ UNCHANGED <<asked, kept, sessions, paid, astray>>
  BY DEF WriteResult, InHandInv
<1>2. /\ review.result \in EvalResults /\ eval \in Invocations /\ review.result.cost \in Nat
      /\ eval.rep \in Reps /\ eval.at \in PRs /\ NoReview \in InHands /\ NoReview' = NoReview
      /\ NoReview.result.cost = 0 /\ NoReview.result.run = 0 /\ eval.spent \in Nat
  BY <1>1, Place DEF EvalTypes, InHands, EvalResults, NoReview, NoResult, Limits, Invocations
<1>3. /\ results' \in [Reps -> [PRs -> EvalResults]]
      /\ results'[eval.rep][eval.at] = review.result
      /\ \A n \in Reps, p \in PRs : Elsewhere(n, p) => results'[n][p] = results[n][p]
  BY <1>1, <1>2, ResultWritten
<1> DEFINE y == eval.said + review.result.cost
<1>4. y \in Nat /\ eval.said \in Nat /\ MovesOn(eval.spent, y)
  <2> DEFINE q == eval.quota \/ review.result.limit = "quota"
  <2>1. q \in BOOLEAN /\ eval.said \in Nat /\ y \in Nat
    BY <1>2 DEF Invocations
  <2>2. eval' = Moved([eval EXCEPT !.quota = q, !.said = y])
    BY <1>1
  <2> HIDE DEF q, y
  <2>3. MovesOn(eval.spent, y)
    BY <1>1, <1>2, <2>1, <2>2, Written
  <2>4. QED BY <2>1, <2>3
<1>5. On' /\ InSelection'
  <2> HIDE DEF y
  <2>1. QED BY <1>1, <1>4, MovedOn
<1>6. EvalTypes'
  BY <1>1, <1>2, <1>3, <1>4 DEF EvalTypes, MovesOn
<1>7. Chained(sessions)' /\ AllTrue'
  <2>1. (\A x : IsTrue(x) <=> TrueOf(x, sessions))'
    BY RunsAre, PTL
  <2>2. \A x : IsTrue(x) => IsTrue(x)'
    BY <1>1, <2>1, RunsAre
  <2>3. IsTrue(NoReview.result)
    <3>1. Len(sessions) \in Nat
      BY DEF EvalTypes
    <3>2. QED BY <1>2, <3>1 DEF IsTrue
  <2>4. \A n \in Reps, p \in PRs : IsTrue(results'[n][p])
    BY <1>3 DEF AllTrue, Elsewhere
  <2>5. QED BY <1>1, <1>2, <2>2, <2>3, <2>4 DEF Chained, AllTrue
<1>8. PaidIsSpent' /\ PaidIsSaid'
  <2>1. eval.earlier \in Nat /\ paid \in Nat
    BY <1>1, <1>2 DEF EvalTypes, Invocations
  <2>2. /\ paid <= eval.earlier + eval.spent
        /\ paid <= eval.earlier + eval.said + review.result.cost
    BY <1>1 DEF PaidIsSpent, PaidIsSaid
  <2>3. /\ paid' = paid /\ eval'.earlier = eval.earlier /\ eval'.spent = eval.spent /\ eval'.said = y
        /\ review'.result.cost = 0
    BY <1>1, <1>2, <1>4 DEF MovesOn
  <2>4. paid' <= eval'.earlier + eval'.spent
    BY <2>2, <2>3
  <2>5. paid' <= eval'.earlier + eval'.said + review'.result.cost
    BY <1>2, <1>4, <2>1, <2>2, <2>3
  <2>6. QED BY <2>4, <2>5 DEF PaidIsSpent, PaidIsSaid
<1>9. InHandInv'
  BY <1>1, <1>2 DEF InHandInv
<1>10. LogsInv'
  <2>1. ASSUME NEW n \in Reps, NEW p \in PRs
        PROVE  <<n, p>> \in astray' \/ LogHolds(kept'[n][p], results'[n][p])
    <3>1. CASE Elsewhere(n, p)
      BY <1>1, <1>3, <3>1 DEF LogsInv, Elsewhere
    <3>2. CASE ~Elsewhere(n, p)
      <4>1. <<eval.rep, eval.at>> \in astray \/ LogHolds(kept[eval.rep][eval.at], review.result)
        BY <1>1 DEF LogsInv
      <4>2. QED BY <1>1, <1>3, <3>2, <4>1 DEF Elsewhere
    <3>3. QED BY <3>1, <3>2
  <2>2. QED BY <1>1, <1>2, <2>1 DEF LogsInv
<1>11. QED BY <1>5, <1>6, <1>7, <1>8, <1>9, <1>10

LEMMA RepetitionEndsKeeps ==
  ASSUME EvalInv, RepetitionEnds
  PROVE  EvalInv'
<1> USE DEF EvalInv
<1>1. /\ On /\ eval.at = 0 /\ UNCHANGED <<asked, results, kept, sessions, review, paid, astray>>
  BY DEF RepetitionEnds
<1>2. review = NoReview
  BY <1>1 DEF InHandInv
<1>3. Chained(sessions)' /\ AllTrue' /\ InHandInv' /\ LogsInv'
  BY <1>1, <1>2, KeepsRecords
<1>4. /\ asked[1] \in Nat \ {0} /\ asked[2] \in Nat \ {0} /\ asked \in Selections
      /\ eval.rep \in 1..asked[2] /\ eval.max \in Budgets \cup {Unlimited} /\ eval \in Invocations
  BY <1>1, Place DEF InSelection, EvalTypes
<1>5. CASE eval.rep = asked[2]
  <2>1. eval' = Off
    BY <1>5 DEF RepetitionEnds
  <2>2. ~On' /\ Off \in Invocations
    BY <2>1 DEF On, Off, Invocations
  <2>3. EvalTypes'
    BY <1>1, <2>1, <2>2 DEF EvalTypes
  <2>4. QED BY <1>3, <2>2, <2>3 DEF InSelection, PaidIsSpent, PaidIsSaid
<1>6. CASE eval.rep # asked[2]
  <2> DEFINE n == eval.rep + 1
             x == eval.earlier + eval.said
  <2>1. eval.said \in Nat /\ eval.earlier \in Nat
    BY <1>4 DEF Invocations
  <2>2. /\ n \in Nat /\ x \in Nat
        /\ eval' = [eval EXCEPT !.at = 1, !.rep = n, !.spent = 0, !.said = 0, !.quota = FALSE, !.earlier = x]
    BY <1>4, <1>6, <2>1 DEF RepetitionEnds
  <2>3. n \in 1..asked[2] /\ n # 0
    BY <1>4, <1>6
  <2> HIDE DEF n, x
  <2>4. /\ eval' \in Invocations /\ eval'.at = 1 /\ eval'.rep = n
        /\ eval'.spent = 0 /\ eval'.said = 0 /\ eval'.earlier = x /\ eval'.max = eval.max
    BY <1>4, <2>2 DEF Invocations
  <2>5. InSelection'
    BY <1>1, <1>4, <2>3, <2>4 DEF InSelection, Unlimited
  <2>6. EvalTypes'
    BY <1>1, <2>4 DEF EvalTypes
  <2>7. PaidIsSpent' /\ PaidIsSaid'
    <3>1. review.result.cost = 0
      BY <1>2 DEF NoReview, NoResult
    <3>2. paid <= x /\ paid \in Nat
      <4>1. paid <= eval.earlier + eval.said + review.result.cost /\ paid \in Nat
        BY <1>1 DEF PaidIsSaid, EvalTypes
      <4>2. QED BY <2>1, <3>1, <4>1 DEF x
    <3>3. QED BY <1>1, <2>2, <2>4, <3>1, <3>2 DEF PaidIsSpent, PaidIsSaid
  <2>8. QED BY <1>3, <2>5, <2>6, <2>7
<1>7. QED BY <1>5, <1>6

LEMMA KilledKeeps ==
  ASSUME EvalInv, Killed
  PROVE  EvalInv'
<1> USE DEF EvalInv
<1>1. /\ On /\ eval' = Off /\ review' = NoReview /\ UNCHANGED <<asked, kept, sessions, paid>>
      /\ astray' = IF review # NoReview THEN astray \cup Here ELSE astray
  BY DEF Killed
<1>2. ~On' /\ Off \in Invocations /\ NoReview \in InHands /\ NoReview.result.run = 0 /\ NoReview' = NoReview
  BY <1>1 DEF On, Off, Invocations, NoReview, NoResult, InHands, EvalResults, Limits
<1>3. Torn \in EvalResults /\ Torn.run = 0
  <2>1. Torn = [status |-> "torn", cost |-> 0, run |-> 0, holds |-> {}, limit |-> "none"]
    BY DEF Torn, NoResult
  <2>2. QED BY <2>1 DEF EvalResults, Limits
<1>4. /\ results' \in [Reps -> [PRs -> EvalResults]]
      /\ \A n \in Reps, p \in PRs : results'[n][p] = results[n][p] \/ results'[n][p] = Torn
      /\ \A n \in Reps, p \in PRs : review = NoReview \/ Elsewhere(n, p) => results'[n][p] = results[n][p]
  <2>1. CASE results' = results
    BY <2>1 DEF EvalTypes
  <2>2. CASE review # NoReview /\ results' = [results EXCEPT ![eval.rep][eval.at] = Torn]
    <3>1. eval.at > 0
      BY <2>2 DEF InHandInv
    <3>2. /\ results' \in [Reps -> [PRs -> EvalResults]]
          /\ results'[eval.rep][eval.at] = Torn
          /\ \A n \in Reps, p \in PRs : Elsewhere(n, p) => results'[n][p] = results[n][p]
      BY <1>1, <1>3, <2>2, <3>1, ResultWritten
    <3>3. QED BY <2>2, <3>2 DEF Elsewhere
  <2>3. QED BY <2>1, <2>2 DEF Killed
<1>5. EvalTypes'
  BY <1>1, <1>2, <1>4 DEF EvalTypes
<1>6. Chained(sessions)' /\ AllTrue'
  <2>1. (\A x : IsTrue(x) <=> TrueOf(x, sessions))'
    BY RunsAre, PTL
  <2>2. \A x : IsTrue(x) => IsTrue(x)'
    BY <1>1, <2>1, RunsAre
  <2>3. IsTrue(NoReview.result) /\ IsTrue(Torn)
    <3>1. Len(sessions) \in Nat
      BY DEF EvalTypes
    <3>2. QED BY <1>2, <1>3, <3>1 DEF IsTrue
  <2>4. \A n \in Reps, p \in PRs : IsTrue(results'[n][p])
    BY <1>4, <2>3 DEF AllTrue
  <2>5. QED BY <1>1, <1>2, <2>2, <2>3, <2>4 DEF Chained, AllTrue
<1>7. LogsInv'
  <2>1. ASSUME NEW n \in Reps, NEW p \in PRs
        PROVE  <<n, p>> \in astray' \/ LogHolds(kept'[n][p], results'[n][p])
    <3>1. CASE review = NoReview \/ Elsewhere(n, p)
      BY <1>1, <1>4, <3>1 DEF LogsInv, Elsewhere
    <3>2. CASE review # NoReview /\ ~Elsewhere(n, p)
      BY <1>1, <3>2 DEF Elsewhere, Here
    <3>3. QED BY <3>1, <3>2
  <2>2. QED BY <1>1, <1>2, <2>1 DEF LogsInv
<1>8. QED BY <1>1, <1>2, <1>5, <1>6, <1>7 DEF InSelection, PaidIsSpent, PaidIsSaid, InHandInv

LEMMA EvalStep ==
  ASSUME EvalInv, [EvalNext]_evalVars
  PROVE  EvalInv'
<1>1. CASE UNCHANGED evalVars
  <2>1. UNCHANGED <<asked, results, kept, sessions, eval, review, paid, astray>>
    BY <1>1 DEF evalVars
  <2>2. Chained(sessions)' /\ AllTrue'
    BY <2>1, RecordsStay DEF EvalInv, AllTrue
  <2>3. EvalTypes'
    BY <2>1 DEF EvalInv, EvalTypes
  <2>4. QED BY <2>1, <2>2, <2>3 DEF EvalInv, InSelection, On, Off, PaidIsSpent, PaidIsSaid,
        InHandInv, Current, LogsInv, LogHolds, Unlimited, NoReview, NoResult
<1>2. QED
  BY <1>1, InvokeKeeps, PassingKeeps, PrepareFailsKeeps, ReviewKeeps, KeepLogKeeps, WriteResultKeeps,
     RepetitionEndsKeeps, KilledKeeps DEF EvalNext

THEOREM EvalInvariant == EvalSpec => []EvalInv
BY EvalFirst, EvalStep, PTL DEF EvalSpec

\* However often a review was resumed, cut short or killed, its result says what
\* the reviews whose tasks it holds cost, each once, and the log beside it holds
\* what those tasks read and raised (runner.ts:94-97, 150-163, 182-185, 236-252).
THEOREM ResultsTrueAlways == EvalSpec => []ResultsTrue
<1>1. EvalInv => ResultsTrue
  <2> SUFFICES ASSUME EvalInv PROVE CostsTrue /\ LogsTrue
    BY DEF ResultsTrue
  <2>1. CostsTrue
    BY DEF EvalInv, AllTrue, IsTrue, SessionCosts, CostsTrue
  <2>2. LogsTrue
    BY DEF EvalInv, LogsInv, LogHolds, LogsTrue, InHand, Here
  <2>3. QED BY <2>1, <2>2
<1>2. QED BY <1>1, EvalInvariant, PTL

\* No review starts once what the invocation paid has reached its budget, over all
\* repetitions (runner.ts:70-80, repeat.ts:22-38).
THEOREM BudgetStopsAlways == EvalSpec => BudgetStops
<1>1. ASSUME EvalInv, [EvalNext]_evalVars
      PROVE  [sessions' # sessions /\ eval.max # Unlimited => paid < eval.max]_evalVars
  <2> SUFFICES ASSUME sessions' # sessions, eval.max # Unlimited PROVE paid < eval.max
    OBVIOUS
  <2>1. Review
    BY <1>1 DEF EvalNext, evalVars, Invoke, TakeOver, SkipOne, PrepareFails, KeepLog, WriteResult,
       RepetitionEnds, Killed
  <2>2. On /\ ~OverBudget
    BY <2>1 DEF Review, Reviewing, Deciding
  <2>3. /\ eval.max \in Nat /\ eval.earlier \in Nat /\ eval.spent \in Nat /\ paid \in Nat
        /\ paid <= eval.earlier + eval.spent
    BY <1>1, <2>2, EvalAssumption DEF EvalInv, EvalTypes, Invocations, InSelection, PaidIsSpent
  <2>4. eval.spent < BudgetLeft
    BY <2>2, <2>3 DEF OverBudget, BudgetLeft
  <2>5. QED BY <2>3, <2>4 DEF BudgetLeft
<1>2. QED BY <1>1, EvalInvariant, PTL DEF EvalSpec, BudgetStops

-----------------------------------------------------------------------------
(* A review that is resumed *)

QuestionIn(groups, cell, of) ==
  [bundle |-> groups[((cell - 1) \div Samples) + 1], inputs |-> of]

\* What the task of a cell answers: as the earlier one did, or for itself.
Given(c) ==
  IF c \in DOMAIN reused THEN reused[c] ELSE [key |-> Question(c), run |-> run, cell |-> c]

RunTypes ==
  /\ run \in Nat /\ inputs \in Nat /\ taken \in Nat /\ logging \in BOOLEAN
  /\ step \in {"plan", "tasks", "dead"}
  /\ bundles \in Groupings \cup {<<>>} /\ resumed.bundles \in Groupings \cup {<<>>}
  /\ taken <= Len(bundles) * Samples
  /\ DOMAIN open \subseteq 1..taken /\ DOMAIN reused \subseteq 1..taken
  /\ \A c \in DOMAIN open :
       \/ open[c] = {} /\ c \notin DOMAIN reused
       \/ c \in DOMAIN reused /\ open[c] = {reused[c]}
  /\ \E S : log \in Seq(S)

AtPlan ==
  step = "plan" => /\ bundles = <<>> /\ open = <<>> /\ taken = 0 /\ log = <<>> /\ reused = <<>>
                   /\ pool = resumed.tasks

\* The log says of a cell what its task answered, once that has ended.
LogLines == {log[n] : n \in DOMAIN log}
Says(l) ==
  /\ l.kind = "bundled" => l.groups = bundles
  /\ l.kind = "reported" =>
       /\ l.task \in (1..taken) \ DOMAIN open
       /\ l.key = Question(l.task) /\ l.answer = Given(l.task)
LogTrue ==
  /\ \A l \in LogLines : Says(l)
  /\ log # <<>> => \E l \in LogLines : l.kind = "bundled"
  /\ step = "tasks" /\ logging => log # <<>>

\* What was read back: the answers of different cells of the run before, each to
\* its question; those not in the pool any more are the ones reused.
ReadTrue ==
  /\ \A t \in resumed.tasks :
       /\ t.task \in 1..(Len(resumed.bundles) * Samples)
       /\ t.key = QuestionIn(resumed.bundles, t.task, resumed.inputs)
       /\ t.answer.key = t.key /\ t.answer.run \in 0..(run - 1)
  /\ \A t, u \in resumed.tasks : t.answer = u.answer \/ t.task = u.task => t = u
  /\ pool \subseteq resumed.tasks
ReusedTrue ==
  /\ \A c \in DOMAIN reused : \E t \in resumed.tasks \ pool :
       t.answer = reused[c] /\ t.key = Question(c)
  /\ \A c, d \in DOMAIN reused : reused[c] = reused[d] => c = d

\* Every answer left fits a cell not taken yet, each one its own.
Fits(f) ==
  /\ f \in [pool -> (taken + 1)..(Len(bundles) * Samples)]
  /\ \A t, u \in pool : f[t] = f[u] => t = u
  /\ \A t \in pool : QuestionIn(bundles, f[t], inputs) = t.key
AllFit ==
  step = "tasks" /\ resumed.inputs = inputs =>
    \/ pool = {} \/ Repeats(resumed.bundles)
    \/ \E f : Fits(f)

ResumeInv ==
  /\ RunTypes /\ AtPlan /\ LogTrue /\ ReadTrue /\ ReusedTrue /\ AllFit

-----------------------------------------------------------------------------
(* Cells and lines *)

\* There is a cell for every bundle and sample, and its question is the bundle's.
LEMMA CellsOf ==
  ASSUME RunTypes
  PROVE  /\ Len(bundles) \in Nat /\ Len(bundles) * Samples \in Nat
         /\ Len(Cells) = Len(bundles) * Samples
         /\ \A c \in 1..(Len(bundles) * Samples) : Question(c) = QuestionIn(bundles, c, inputs)
<1>1. bundles \in Seq(Seq(ChangedFiles))
  <2>1. <<>> \in Seq(Seq(ChangedFiles))
    OBVIOUS
  <2>2. bundles \in Groupings \cup {<<>>} /\ Groupings \subseteq Seq(Seq(ChangedFiles))
    BY ResumptionAssumption DEF RunTypes
  <2> QED  BY <2>1, <2>2
<1>2. Len(bundles) \in Nat /\ Samples \in Nat
  BY <1>1, ResumptionAssumption
<1>3. Len(bundles) * Samples \in Nat
  BY <1>2
<1>4. DOMAIN Cells = 1..(Len(bundles) * Samples)
  BY DEF Cells
<1>5. Len(Cells) = Len(bundles) * Samples
  <2>1. \A n \in 1..(Len(bundles) * Samples) : Cells[n] \in {Cells[k] : k \in DOMAIN Cells}
    BY <1>4
  <2>2. Cells \in Seq({Cells[k] : k \in DOMAIN Cells})
    <3>1. Cells = [n \in 1..(Len(bundles) * Samples) |-> Cells[n]]
      BY DEF Cells
    <3> QED  BY <1>3, <2>1, <3>1, IsASeq
  <2> QED  BY <1>3, <1>4, <2>2, LenProperties
<1> QED  BY <1>2, <1>3, <1>5 DEF Question, QuestionIn, Cells

\* emit: nothing logged is lost or made up; and all of it is there when the run
\* goes on and its listener still listens.
LogsOnly(lines) ==
  /\ \E S : log' \in Seq(S)
  /\ logging' \in BOOLEAN
  /\ step' \in {"tasks", "dead"}
  /\ LogLines \subseteq LogLines'
  /\ LogLines' \subseteq LogLines \cup {lines[n] : n \in DOMAIN lines}
  /\ log # <<>> => log' # <<>>
  /\ ~logging => log' = log
  /\ logging' => logging
  /\ step' = "tasks" /\ logging' => log' = log \o lines

LEMMA EmitsDoes ==
  ASSUME NEW T, NEW lines \in Seq(T), RunTypes, Emits(lines, "tasks")
  PROVE  LogsOnly(lines)
<1>1. PICK S : log \in Seq(S)
  BY DEF RunTypes
<1>2. \A t \in Seq(T) : {t[n] : n \in DOMAIN t} \subseteq {lines[n] : n \in DOMAIN lines}
        /\ log' = log \o t =>
             /\ \E U : log' \in Seq(U)
             /\ LogLines \subseteq LogLines'
             /\ LogLines' \subseteq LogLines \cup {lines[n] : n \in DOMAIN lines}
             /\ log # <<>> => log' # <<>>
  <2> SUFFICES ASSUME NEW t \in Seq(T), {t[n] : n \in DOMAIN t} \subseteq {lines[n] : n \in DOMAIN lines},
                      log' = log \o t
               PROVE  /\ \E U : log' \in Seq(U)
                      /\ LogLines \subseteq LogLines'
                      /\ LogLines' \subseteq LogLines \cup {lines[n] : n \in DOMAIN lines}
                      /\ log # <<>> => log' # <<>>
    OBVIOUS
  <2>1. /\ log \o t \in Seq(S \cup T)
        /\ {log[n] : n \in DOMAIN log} \subseteq {(log \o t)[n] : n \in DOMAIN (log \o t)}
        /\ {(log \o t)[n] : n \in DOMAIN (log \o t)}
             \subseteq {log[n] : n \in DOMAIN log} \cup {t[n] : n \in DOMAIN t}
        /\ log # <<>> => log \o t # <<>>
    BY <1>1, Appends, SMTT(30)
  <2>2. LogLines' = {(log \o t)[n] : n \in DOMAIN (log \o t)} /\ LogLines = {log[n] : n \in DOMAIN log}
    BY DEF LogLines
  <2>3. log' \in Seq(S \cup T)
    BY <2>1
  <2>4. \E U : log' \in Seq(U)
    BY <2>3
  <2> QED  BY <2>1, <2>2, <2>4
<1>3. log' = log => /\ \E U : log' \in Seq(U)
                    /\ LogLines \subseteq LogLines'
                    /\ LogLines' \subseteq LogLines \cup {lines[n] : n \in DOMAIN lines}
                    /\ log # <<>> => log' # <<>>
  BY <1>1 DEF LogLines
<1>4. logging \in BOOLEAN
  BY DEF RunTypes
<1>5. CASE log' = (IF logging THEN log \o lines ELSE log) /\ step' = "tasks" /\ UNCHANGED logging
  <2>1. CASE logging
    BY <1>2, <1>4, <1>5, <2>1 DEF LogsOnly
  <2>2. CASE ~logging
    BY <1>3, <1>4, <1>5, <2>2 DEF LogsOnly
  <2> QED  BY <2>1, <2>2
<1>6. ASSUME logging, NEW n \in 0..(Len(lines) - 1), log' = log \o SubSeq(lines, 1, n),
             \/ step' = "tasks" /\ logging' = FALSE
             \/ step' = "dead" /\ UNCHANGED logging
      PROVE  LogsOnly(lines)
  <2>1. Len(lines) \in Nat /\ n \in Nat /\ n < Len(lines) /\ DOMAIN lines = 1..Len(lines)
    BY <1>6
  <2>2. \A i \in 1..n : lines[i] \in T
    BY <2>1
  <2>3. /\ SubSeq(lines, 1, n) \in Seq(T)
        /\ Len(SubSeq(lines, 1, n)) = IF 1 <= n THEN n - 1 + 1 ELSE 0
        /\ \A i \in 1..(n - 1 + 1) : SubSeq(lines, 1, n)[i] = lines[1 + i - 1]
    BY <2>1, <2>2, SubSeqProperties
  <2>4. DOMAIN SubSeq(lines, 1, n) = 1..n /\ \A i \in 1..n : SubSeq(lines, 1, n)[i] = lines[i]
    BY <2>1, <2>3
  <2>5. {SubSeq(lines, 1, n)[i] : i \in DOMAIN SubSeq(lines, 1, n)} \subseteq {lines[i] : i \in DOMAIN lines}
    BY <2>1, <2>4
  <2> DEFINE t == SubSeq(lines, 1, n)
  <2>6. t \in Seq(T) /\ {t[i] : i \in DOMAIN t} \subseteq {lines[i] : i \in DOMAIN lines} /\ log' = log \o t
    BY <1>6, <2>3, <2>5
  <2> HIDE DEF t
  <2>7. /\ \E U : log' \in Seq(U)
        /\ LogLines \subseteq LogLines'
        /\ LogLines' \subseteq LogLines \cup {lines[i] : i \in DOMAIN lines}
        /\ log # <<>> => log' # <<>>
    BY <1>2, <2>6
  <2>8. CASE step' = "tasks" /\ logging' = FALSE
    BY <1>6, <2>7, <2>8 DEF LogsOnly
  <2>9. CASE step' = "dead" /\ UNCHANGED logging
    BY <1>4, <1>6, <2>7, <2>9 DEF LogsOnly
  <2> QED  BY <1>6, <2>8, <2>9
<1> QED  BY <1>5, <1>6 DEF Emits

-----------------------------------------------------------------------------
(* The answers of a run, and what of them is read back *)

\* Every cell taken has an answer of its own, to its own question.
LEMMA GivenTruly ==
  ASSUME ResumeInv
  PROVE  /\ \A c \in 1..taken : Given(c).key = Question(c) /\ Given(c).run \in 0..run
         /\ \A c, d \in 1..taken : Given(c) = Given(d) => c = d
<1>1. run \in Nat /\ DOMAIN reused \subseteq 1..taken /\ ReusedTrue /\ ReadTrue
  BY DEF ResumeInv, RunTypes
<1>2. \A c \in DOMAIN reused :
        /\ Given(c) = reused[c]
        /\ reused[c].key = Question(c) /\ reused[c].run \in 0..(run - 1)
  <2> SUFFICES ASSUME NEW c \in DOMAIN reused
               PROVE  /\ Given(c) = reused[c]
                      /\ reused[c].key = Question(c) /\ reused[c].run \in 0..(run - 1)
    OBVIOUS
  <2>1. PICK t \in resumed.tasks \ pool : t.answer = reused[c] /\ t.key = Question(c)
    BY <1>1 DEF ReusedTrue
  <2>2. t.answer.key = t.key /\ t.answer.run \in 0..(run - 1)
    BY <1>1, <2>1 DEF ReadTrue
  <2> QED  BY <2>1, <2>2 DEF Given
<1>3. \A c : c \notin DOMAIN reused =>
        Given(c).key = Question(c) /\ Given(c).run = run /\ Given(c).cell = c
  BY DEF Given
<1>4. \A c : Given(c).key = Question(c) /\ Given(c).run \in 0..run
  BY <1>1, <1>2, <1>3
<1>5. ASSUME NEW c, NEW d, Given(c) = Given(d)
      PROVE  c = d
  <2>1. CASE c \in DOMAIN reused /\ d \in DOMAIN reused
    BY <1>1, <1>2, <1>5, <2>1 DEF ReusedTrue
  <2>2. CASE c \notin DOMAIN reused /\ d \notin DOMAIN reused
    BY <1>3, <1>5, <2>2
  <2>3. CASE c \in DOMAIN reused /\ d \notin DOMAIN reused
    <3>1. Given(c).run \in 0..(run - 1) /\ Given(d).run = run
      BY <1>2, <1>3, <2>3
    <3> QED  BY <1>1, <1>5, <3>1
  <2>4. CASE c \notin DOMAIN reused /\ d \in DOMAIN reused
    <3>1. Given(d).run \in 0..(run - 1) /\ Given(c).run = run
      BY <1>2, <1>3, <2>4
    <3> QED  BY <1>1, <1>5, <3>1
  <2> QED  BY <2>1, <2>2, <2>3, <2>4
<1> QED  BY <1>4, <1>5

\* readResumedRun reads the bundles and answers as they were.
LEMMA ReadBackTruly ==
  ASSUME ResumeInv, log # <<>>
  PROVE  /\ ReadBack.bundles = bundles /\ ReadBack.inputs = inputs
         /\ \A t \in ReadBack.tasks :
              /\ t.task \in 1..taken
              /\ t.key = Question(t.task) /\ t.answer = Given(t.task)
         /\ \A t, u \in ReadBack.tasks : t.task = u.task => t = u
<1> DEFINE groups == {l.groups : l \in {k \in LogLines : k.kind = "bundled"}}
           finished == {l.task : l \in {k \in LogLines : k.kind = "finished" /\ k.status = "completed"}}
           tasks == {[key |-> l.key, task |-> l.task, answer |-> l.answer] :
                       l \in {k \in LogLines : k.kind = "reported" /\ k.task \in finished}}
<1>1. ReadBack = [bundles |-> IF groups = {} THEN <<>> ELSE CHOOSE g \in groups : TRUE,
                  tasks |-> tasks, inputs |-> inputs]
  BY DEF ReadBack, LogLines
<1>2. \A l \in LogLines : Says(l)
  BY DEF ResumeInv, LogTrue
<1>3. PICK l \in LogLines : l.kind = "bundled"
  BY DEF ResumeInv, LogTrue
<1>4. groups = {bundles}
  BY <1>2, <1>3 DEF Says
<1>5. (CHOOSE g \in groups : TRUE) = bundles
  BY <1>4
<1>6. \A t \in tasks :
        /\ t.task \in 1..taken
        /\ t.key = Question(t.task) /\ t.answer = Given(t.task)
        /\ t = [key |-> Question(t.task), task |-> t.task, answer |-> Given(t.task)]
  <2> SUFFICES ASSUME NEW t \in tasks
               PROVE  /\ t.task \in 1..taken
                      /\ t.key = Question(t.task) /\ t.answer = Given(t.task)
                      /\ t = [key |-> Question(t.task), task |-> t.task, answer |-> Given(t.task)]
    OBVIOUS
  <2>1. PICK k \in LogLines : /\ k.kind = "reported"
                              /\ t = [key |-> k.key, task |-> k.task, answer |-> k.answer]
    OBVIOUS
  <2>2. k.task \in 1..taken /\ k.key = Question(k.task) /\ k.answer = Given(k.task)
    BY <1>2, <2>1 DEF Says
  <2> QED  BY <2>1, <2>2
<1> HIDE DEF groups, finished, tasks
<1>7. ReadBack.tasks = tasks /\ ReadBack.inputs = inputs /\ ReadBack.bundles = bundles
  BY <1>1, <1>4, <1>5
<1>8. ASSUME NEW t \in tasks, NEW u \in tasks, t.task = u.task
      PROVE  t = u
  BY <1>6, <1>8
<1> QED  BY <1>6, <1>7, <1>8

-----------------------------------------------------------------------------
(* Each step keeps what a resumed review rests on *)

LEMMA StartTruly ==
  ASSUME ResumptionInit
  PROVE  ResumeInv
<1>1. /\ run = 1 /\ inputs = 1 /\ step = "plan" /\ bundles = <<>> /\ open = <<>> /\ taken = 0
      /\ log = <<>> /\ logging = TRUE /\ resumed.bundles = <<>> /\ resumed.tasks = {}
      /\ pool = {} /\ reused = <<>>
  BY DEF ResumptionInit, NothingResumed
<1>2. Len(bundles) = 0 /\ DOMAIN open = {} /\ DOMAIN reused = {} /\ DOMAIN log = {}
  BY <1>1
<1>3. 0 * Samples = 0
  BY ResumptionAssumption
<1>4. \E S : log \in Seq(S)
  <2>1. log \in Seq({})
    BY <1>1
  <2> QED  BY <2>1
<1>5. RunTypes
  BY <1>1, <1>2, <1>3, <1>4 DEF RunTypes
<1>6. AtPlan /\ LogTrue /\ ReadTrue /\ ReusedTrue /\ AllFit
  BY <1>1, <1>2 DEF AtPlan, LogTrue, LogLines, ReadTrue, ReusedTrue, AllFit
<1> QED  BY <1>5, <1>6 DEF ResumeInv

\* resumedBundles: an answer finds its cell where it was, when the bundles are
\* the same; no answer was given before there were bundles.
LEMMA AllFitAtFirst ==
  ASSUME ResumeInv, step = "plan", resumed.inputs = inputs
  PROVE  /\ ~Keeps(resumed.bundles) => pool = {} \/ Repeats(resumed.bundles)
         /\ Keeps(resumed.bundles) =>
              \E f \in [pool -> 1..(Len(resumed.bundles) * Samples)] :
                /\ \A t, u \in pool : f[t] = f[u] => t = u
                /\ \A t \in pool : QuestionIn(resumed.bundles, f[t], inputs) = t.key
<1>1. pool = resumed.tasks
  BY DEF ResumeInv, AtPlan
<1>2. /\ resumed.bundles \in Groupings \cup {<<>>}
      /\ \A t \in pool :
           /\ t.task \in 1..(Len(resumed.bundles) * Samples)
           /\ t.key = QuestionIn(resumed.bundles, t.task, inputs)
      /\ \A t, u \in pool : t.task = u.task => t = u
  BY <1>1 DEF ResumeInv, RunTypes, ReadTrue
<1>3. ASSUME ~Keeps(resumed.bundles), ~Repeats(resumed.bundles)
      PROVE  pool = {}
  <2>1. Listed(resumed.bundles) # ChangedFiles
    BY <1>3 DEF Keeps
  <2>2. resumed.bundles = <<>>
    BY <1>2, <2>1, GroupingAssumption
  <2>3. Len(resumed.bundles) * Samples = 0
    BY <2>2, ResumptionAssumption
  <2> QED  BY <1>2, <2>3
<1>4. /\ [t \in pool |-> t.task] \in [pool -> 1..(Len(resumed.bundles) * Samples)]
      /\ \A t \in pool : [u \in pool |-> u.task][t] = t.task
  BY <1>2
<1> QED  BY <1>2, <1>3, <1>4

LEMMA PlanTruly ==
  ASSUME ResumeInv, Plan
  PROVE  ResumeInv'
<1> PICK b : b = bundles'
  OBVIOUS
<1> DEFINE line == [kind |-> "bundled", groups |-> b]
           lines == <<line>>
<1>1. /\ step = "plan" /\ Emits(lines, "tasks")
      /\ UNCHANGED <<run, inputs, open, taken, resumed, pool, reused>>
  BY DEF Plan
<1>2. /\ RunTypes /\ bundles = <<>> /\ open = <<>> /\ taken = 0 /\ log = <<>> /\ reused = <<>>
      /\ pool = resumed.tasks
  BY <1>1 DEF ResumeInv, AtPlan
<1>3. lines \in Seq({line}) /\ lines # <<>> /\ \A n \in DOMAIN lines : lines[n] = line
  OBVIOUS
<1>4. LogsOnly(lines)
  <2> HIDE DEF lines, line
  <2> QED  BY <1>1, <1>2, <1>3, EmitsDoes
<1>5. LogLines = {}
  <2>1. DOMAIN log = {}
    BY <1>2
  <2> QED  BY <2>1 DEF LogLines
<1>6. b \in Groupings \cup {<<>>} /\ (Keeps(resumed.bundles) => b = resumed.bundles)
  BY <1>2 DEF Plan, RunTypes
<1>7. Len(b) \in Nat /\ Len(b) * Samples \in Nat
  <2>1. <<>> \in Seq(Seq(ChangedFiles)) /\ Groupings \subseteq Seq(Seq(ChangedFiles))
    BY ResumptionAssumption
  <2>2. Len(b) \in Nat
    BY <1>6, <2>1
  <2> QED  BY <2>2, ResumptionAssumption
<1>8. RunTypes'
  <2>1. /\ run' \in Nat /\ inputs' \in Nat /\ taken' \in Nat /\ resumed'.bundles \in Groupings \cup {<<>>}
        /\ taken' = 0 /\ DOMAIN open' = {} /\ DOMAIN reused' = {}
    BY <1>1, <1>2 DEF RunTypes
  <2>2. taken' <= Len(bundles') * Samples
    BY <1>7, <2>1
  <2>3. logging' \in BOOLEAN /\ step' \in {"plan", "tasks", "dead"} /\ \E S : log' \in Seq(S)
    BY <1>4 DEF LogsOnly
  <2> QED  BY <1>6, <2>1, <2>2, <2>3 DEF RunTypes
<1>9. AtPlan'
  BY <1>4 DEF AtPlan, LogsOnly
<1>10. LogTrue'
  <2>1. \A l \in LogLines' : l = line
    BY <1>3, <1>4, <1>5 DEF LogsOnly
  <2>2. \A l \in LogLines' : Says(l)'
    <3>1. line.kind = "bundled" /\ line.groups = b
      OBVIOUS
    <3> HIDE DEF line
    <3> QED  BY <2>1, <3>1 DEF Says
  <2>3. log' # <<>> => \E l \in LogLines' : l.kind = "bundled"
    <3>1. PICK S : log' \in Seq(S)
      BY <1>4 DEF LogsOnly
    <3>2. log' # <<>> => 1 \in DOMAIN log'
      BY <3>1
    <3>3. log' # <<>> => log'[1] \in LogLines'
      BY <3>2 DEF LogLines
    <3> QED  BY <2>1, <3>3
  <2>4. step' = "tasks" /\ logging' => log' # <<>>
    <3>1. log \in Seq({})
      BY <1>2
    <3>2. log \o lines # <<>>
      <4> HIDE DEF lines
      <4> QED  BY <1>3, <3>1, Appends
    <3> QED  BY <1>4, <3>2 DEF LogsOnly
  <2> QED  BY <2>2, <2>3, <2>4 DEF LogTrue
<1>11. ReadTrue' /\ ReusedTrue'
  <2>1. DOMAIN reused' = {}
    BY <1>1, <1>2
  <2> QED  BY <1>1, <2>1 DEF ResumeInv, ReadTrue, ReusedTrue
<1>12. AllFit'
  <2> SUFFICES ASSUME step' = "tasks", resumed'.inputs = inputs'
               PROVE  pool' = {} \/ Repeats(resumed'.bundles) \/ \E f : Fits(f)'
    BY DEF AllFit
  <2>1. resumed.inputs = inputs
    BY <1>1
  <2>2. CASE ~Keeps(resumed.bundles)
    BY <1>1, <2>1, <2>2, AllFitAtFirst
  <2>3. CASE Keeps(resumed.bundles)
    <3>1. PICK f \in [pool -> 1..(Len(resumed.bundles) * Samples)] :
                /\ \A t, u \in pool : f[t] = f[u] => t = u
                /\ \A t \in pool : QuestionIn(resumed.bundles, f[t], inputs) = t.key
      BY <1>1, <2>1, <2>3, AllFitAtFirst
    <3>2. bundles' = resumed.bundles /\ taken' + 1 = 1 /\ pool' = pool /\ inputs' = inputs
      BY <1>1, <1>2, <1>6, <2>3
    <3>3. Fits(f)'
      BY <3>1, <3>2 DEF Fits
    <3> QED  BY <3>3
  <2> QED  BY <2>2, <2>3
<1> QED  BY <1>8, <1>9, <1>10, <1>11, <1>12 DEF ResumeInv

\* runJob or reuseJob: what a cell's task logs is what the cell answered.
LEMMA CellEnds ==
  ASSUME NEW T, NEW lines \in Seq(T), NEW c, ResumeInv, step = "tasks", c \in DOMAIN open, open' = Without(c),
         Emits(lines, "tasks"), UNCHANGED <<run, inputs, bundles, taken, resumed, pool, reused>>,
         \A n \in DOMAIN lines :
           \/ lines[n].kind = "finished"
           \/ /\ lines[n].kind = "reported" /\ lines[n].task = c
              /\ lines[n].key = Question(c) /\ lines[n].answer = Given(c)
  PROVE  ResumeInv'
<1>1. RunTypes /\ LogTrue /\ c \in 1..taken
  BY DEF ResumeInv, RunTypes
<1>2. LogsOnly(lines)
  BY <1>1, EmitsDoes
<1>3. DOMAIN open' = DOMAIN open \ {c} /\ \A d \in DOMAIN open' : open'[d] = open[d]
  BY DEF Without
<1>4. RunTypes'
  <2>1. logging' \in BOOLEAN /\ step' \in {"plan", "tasks", "dead"} /\ \E S : log' \in Seq(S)
    BY <1>2 DEF LogsOnly
  <2> QED  BY <1>1, <1>3, <2>1 DEF RunTypes
<1>5. AtPlan'
  BY <1>2 DEF AtPlan, LogsOnly
<1>6. LogTrue'
  <2>1. \A d : Question(d)' = Question(d) /\ Given(d)' = Given(d)
    BY DEF Question, Cells, Given
  <2>2. \A l \in LogLines : Says(l)'
    BY <1>1, <1>3, <2>1 DEF LogTrue, Says
  <2>3. \A n \in DOMAIN lines : Says(lines[n])'
    BY <1>1, <1>3, <2>1 DEF Says
  <2>4. \A l \in LogLines' : Says(l)'
    BY <1>2, <2>2, <2>3 DEF LogsOnly
  <2>5. log' # <<>> => log # <<>>
    BY <1>1, <1>2 DEF LogsOnly, LogTrue
  <2>6. log' # <<>> => \E l \in LogLines' : l.kind = "bundled"
    BY <1>1, <1>2, <2>5 DEF LogsOnly, LogTrue
  <2>7. step' = "tasks" /\ logging' => log' # <<>>
    BY <1>1, <1>2 DEF LogsOnly, LogTrue
  <2> QED  BY <2>4, <2>6, <2>7 DEF LogTrue
<1>7. ReadTrue' /\ ReusedTrue'
  <2>1. \A d : Question(d)' = Question(d)
    BY DEF Question, Cells
  <2> QED  BY <2>1 DEF ResumeInv, ReadTrue, ReusedTrue
<1>8. AllFit'
  BY DEF ResumeInv, AllFit, Fits
<1> QED  BY <1>4, <1>5, <1>6, <1>7, <1>8 DEF ResumeInv

LEMMA AgentEndsTruly ==
  ASSUME NEW c, ResumeInv, AgentEnds(c)
  PROVE  ResumeInv'
<1>1. /\ step = "tasks" /\ c \in DOMAIN open /\ open[c] = {} /\ open' = Without(c)
      /\ UNCHANGED <<run, inputs, bundles, taken, resumed, pool, reused>>
      /\ \/ Emits(Completed(c, [key |-> Question(c), run |-> run, cell |-> c]), "tasks")
         \/ Emits(<<[kind |-> "finished", task |-> c, status |-> "unfinished"]>>, "tasks")
  BY DEF AgentEnds
<1>2. c \notin DOMAIN reused
  BY <1>1 DEF ResumeInv, RunTypes
<1>3. Given(c) = [key |-> Question(c), run |-> run, cell |-> c]
  BY <1>2 DEF Given
<1>4. CASE Emits(Completed(c, Given(c)), "tasks")
  <2> PICK lines : lines = Completed(c, Given(c))
    OBVIOUS
  <2>1. /\ lines \in Seq({lines[1], lines[2]}) /\ DOMAIN lines = {1, 2}
        /\ lines[1].kind = "reported" /\ lines[1].task = c
        /\ lines[1].key = Question(c) /\ lines[1].answer = Given(c) /\ lines[2].kind = "finished"
    BY DEF Completed
  <2>2. Emits(lines, "tasks")
    BY <1>4
  <2> QED  BY <1>1, <2>1, <2>2, CellEnds
<1>5. CASE Emits(<<[kind |-> "finished", task |-> c, status |-> "unfinished"]>>, "tasks")
  <2> PICK lines : lines = <<[kind |-> "finished", task |-> c, status |-> "unfinished"]>>
    OBVIOUS
  <2>1. /\ lines \in Seq({lines[1]}) /\ DOMAIN lines = {1}
        /\ lines[1].kind = "finished"
    OBVIOUS
  <2>2. Emits(lines, "tasks")
    BY <1>5
  <2> QED  BY <1>1, <2>1, <2>2, CellEnds
<1> QED  BY <1>1, <1>3, <1>4, <1>5

LEMMA ReuseEndsTruly ==
  ASSUME NEW c, ResumeInv, ReuseEnds(c)
  PROVE  ResumeInv'
<1>1. /\ step = "tasks" /\ c \in DOMAIN open /\ open[c] # {} /\ open' = Without(c)
      /\ UNCHANGED <<run, inputs, bundles, taken, resumed, pool, reused>>
      /\ \E answer \in open[c] : Emits(Completed(c, answer), "tasks")
  BY DEF ReuseEnds
<1>2. c \in DOMAIN reused /\ open[c] = {reused[c]}
  BY <1>1 DEF ResumeInv, RunTypes
<1>3. Emits(Completed(c, Given(c)), "tasks")
  BY <1>1, <1>2 DEF Given
<1> PICK lines : lines = Completed(c, Given(c))
  OBVIOUS
<1>4. /\ lines \in Seq({lines[1], lines[2]}) /\ DOMAIN lines = {1, 2}
      /\ lines[1].kind = "reported" /\ lines[1].task = c
      /\ lines[1].key = Question(c) /\ lines[1].answer = Given(c) /\ lines[2].kind = "finished"
  BY DEF Completed
<1>5. Emits(lines, "tasks")
  BY <1>3
<1> QED  BY <1>1, <1>4, <1>5, CellEnds

LEMMA TakeCellTruly ==
  ASSUME ResumeInv, TakeCell
  PROVE  ResumeInv'
<1> PICK c : c = taken + 1
  OBVIOUS
<1>1. /\ step = "tasks" /\ taken < Len(Cells) /\ taken' = c
      /\ UNCHANGED <<run, inputs, step, bundles, log, logging, resumed>>
  BY DEF TakeCell
<1>2. /\ RunTypes /\ LogTrue /\ ReadTrue /\ ReusedTrue /\ AllFit
      /\ taken \in Nat /\ DOMAIN open \subseteq 1..taken /\ DOMAIN reused \subseteq 1..taken
  BY DEF ResumeInv, RunTypes
<1>3. /\ Len(bundles) * Samples \in Nat /\ taken < Len(bundles) * Samples
      /\ Question(c) = QuestionIn(bundles, c, inputs)
      /\ \A d : Question(d)' = Question(d)
  <2>1. \A d : Question(d)' = Question(d)
    BY <1>1 DEF Question, Cells
  <2> QED  BY <1>1, <1>2, <2>1, CellsOf
<1>4. c \in Nat /\ c \notin 1..taken /\ c \in 1..c /\ 1..taken \subseteq 1..c
      /\ c <= Len(bundles) * Samples
  BY <1>2, <1>3
<1>5. AtPlan'
  BY <1>1 DEF AtPlan
<1>6. DOMAIN open' = DOMAIN open \cup {c}
  BY DEF TakeCell
\* An agent's, or an answer's: what the cells already taken answer stays.
<1>7. ASSUME RunTypes', DOMAIN reused' \subseteq DOMAIN reused \cup {c}, DOMAIN reused \subseteq DOMAIN reused',
             \A d \in DOMAIN reused : reused'[d] = reused[d]
      PROVE  LogTrue'
  <2>1. \A d \in 1..taken : Given(d)' = Given(d)
    BY <1>1, <1>3, <1>4, <1>7 DEF Given
  <2>2. \A l \in LogLines : Says(l) => Says(l)'
    <3> SUFFICES ASSUME NEW l \in LogLines, Says(l)
                 PROVE  Says(l)'
      OBVIOUS
    <3>1. l.kind = "reported" =>
            /\ l.task \in (1..c) \ (DOMAIN open \cup {c})
            /\ l.key = Question(l.task)' /\ l.answer = Given(l.task)'
      BY <1>3, <1>4, <2>1 DEF Says
    <3> QED  BY <1>1, <1>6, <3>1 DEF Says
  <2>3. LogLines' = LogLines
    BY <1>1 DEF LogLines
  <2> QED  BY <1>1, <1>2, <2>2, <2>3 DEF LogTrue
<1>8. CASE /\ {t \in pool : t.key = Question(c)} = {}
           /\ open' = [d \in DOMAIN open \cup {c} |-> IF d = c THEN {} ELSE open[d]]
           /\ UNCHANGED <<pool, reused>>
  <2>1. \A d \in DOMAIN open' :
          \/ open'[d] = {} /\ d \notin DOMAIN reused'
          \/ d \in DOMAIN reused' /\ open'[d] = {reused'[d]}
    BY <1>2, <1>4, <1>8 DEF RunTypes
  <2>2. RunTypes'
    BY <1>1, <1>2, <1>4, <1>6, <1>8, <2>1 DEF RunTypes
  <2>3. LogTrue'
    BY <1>7, <1>8, <2>2
  <2>4. ReadTrue' /\ ReusedTrue'
    BY <1>1, <1>2, <1>3, <1>8 DEF ReadTrue, ReusedTrue
  <2>5. \A f : Fits(f) => Fits(f)'
    <3> SUFFICES ASSUME NEW f, Fits(f)
                 PROVE  Fits(f)'
      OBVIOUS
    <3>1. /\ f \in [pool -> (taken + 1)..(Len(bundles) * Samples)]
          /\ \A t, u \in pool : f[t] = f[u] => t = u
          /\ \A t \in pool : QuestionIn(bundles, f[t], inputs) = t.key
      BY DEF Fits
    <3>2. \A t \in pool : f[t] # c
      BY <1>3, <1>8, <3>1
    <3>3. \A t \in pool : f[t] \in (c + 1)..(Len(bundles) * Samples)
      BY <1>2, <1>3, <1>4, <3>1, <3>2
    <3>4. f \in [pool -> (c + 1)..(Len(bundles) * Samples)]
      BY <3>1, <3>3
    <3> QED  BY <1>1, <1>8, <3>1, <3>4 DEF Fits
  <2>6. AllFit'
    BY <1>1, <1>2, <1>8, <2>5 DEF AllFit
  <2> QED  BY <1>5, <2>2, <2>3, <2>4, <2>6 DEF ResumeInv
<1>9. ASSUME NEW t \in pool, t.key = Question(c), pool' = TakesOut(t),
             open' = [d \in DOMAIN open \cup {c} |-> IF d = c THEN {t.answer} ELSE open[d]],
             reused' = [d \in DOMAIN reused \cup {c} |-> IF d = c THEN t.answer ELSE reused[d]]
      PROVE  ResumeInv'
  <2>1. /\ pool' = pool \ {t} /\ t \in resumed.tasks
        /\ DOMAIN reused' = DOMAIN reused \cup {c} /\ reused'[c] = t.answer
        /\ \A d \in DOMAIN reused : reused'[d] = reused[d]
        /\ c \notin DOMAIN reused /\ c \notin DOMAIN open
    BY <1>2, <1>4, <1>9 DEF TakesOut, ReadTrue
  <2>2. \A d \in DOMAIN open' :
          \/ open'[d] = {} /\ d \notin DOMAIN reused'
          \/ d \in DOMAIN reused' /\ open'[d] = {reused'[d]}
    BY <1>2, <1>9, <2>1 DEF RunTypes
  <2>3. RunTypes'
    BY <1>1, <1>2, <1>4, <1>6, <2>1, <2>2 DEF RunTypes
  <2>4. LogTrue'
    BY <1>7, <2>1, <2>3
  <2>5. ReadTrue'
    BY <1>1, <1>2, <2>1 DEF ReadTrue
  <2>6. ReusedTrue'
    <3>1. \A d \in DOMAIN reused : \E u \in resumed.tasks \ pool :
            u.answer = reused[d] /\ u.key = Question(d)
      BY <1>2 DEF ReusedTrue
    <3>2. \A d \in DOMAIN reused' : \E u \in resumed.tasks \ (pool \ {t}) :
            u.answer = reused'[d] /\ u.key = Question(d)
      BY <1>9, <2>1, <3>1
    <3>3. \A d \in DOMAIN reused : reused[d] # t.answer
      BY <1>2, <1>9, <2>1, <3>1 DEF ReadTrue
    <3>4. \A d, e \in DOMAIN reused' : reused'[d] = reused'[e] => d = e
      BY <1>2, <2>1, <3>3 DEF ReusedTrue
    <3> QED  BY <1>1, <1>3, <2>1, <3>2, <3>4 DEF ReusedTrue
  \* The cell that the answer would have had, if another, gets the one it takes.
  <2>7. ASSUME NEW f, Fits(f)
        PROVE  \E g : Fits(g)'
    <3> DEFINE g == [u \in pool \ {t} |-> IF f[u] = c THEN f[t] ELSE f[u]]
    <3>1. /\ f \in [pool -> c..(Len(bundles) * Samples)]
          /\ \A u, v \in pool : f[u] = f[v] => u = v
          /\ \A u \in pool : QuestionIn(bundles, f[u], inputs) = u.key
      BY <2>7 DEF Fits
    <3>2. \A u \in pool \ {t} :
            /\ f[u] # f[t]
            /\ g[u] # c /\ g[u] \in c..(Len(bundles) * Samples)
            /\ QuestionIn(bundles, g[u], inputs) = u.key
      <4> SUFFICES ASSUME NEW u \in pool \ {t}
                   PROVE  /\ f[u] # f[t]
                          /\ g[u] # c /\ g[u] \in c..(Len(bundles) * Samples)
                          /\ QuestionIn(bundles, g[u], inputs) = u.key
        OBVIOUS
      <4>1. f[u] # f[t] /\ f[u] \in c..(Len(bundles) * Samples) /\ f[t] \in c..(Len(bundles) * Samples)
        BY <1>9, <3>1
      <4>2. CASE f[u] = c
        <5>1. g[u] = f[t]
          BY <4>2
        <5>2. QuestionIn(bundles, f[t], inputs) = Question(c) /\ u.key = Question(c)
          BY <1>3, <1>9, <3>1, <4>2
        <5> QED  BY <4>1, <4>2, <5>1, <5>2
      <4>3. CASE f[u] # c
        BY <3>1, <4>1, <4>3
      <4> QED  BY <4>2, <4>3
    <3>3. \A u, v \in pool \ {t} : g[u] = g[v] => u = v
      <4>1. \A u \in pool \ {t} : g[u] = IF f[u] = c THEN f[t] ELSE f[u]
        OBVIOUS
      <4> HIDE DEF g
      <4> QED  BY <3>1, <3>2, <4>1
    <3>4. \A u \in pool \ {t} : g[u] \in (c + 1)..(Len(bundles) * Samples)
      <4> HIDE DEF g
      <4> QED  BY <1>3, <1>4, <3>2
    <3>5. g \in [pool \ {t} -> (c + 1)..(Len(bundles) * Samples)]
      BY <3>4
    <3> HIDE DEF g
    <3> PICK h : h = g
      OBVIOUS
    <3>6. Fits(h)'
      BY <1>1, <2>1, <3>2, <3>3, <3>5 DEF Fits
    <3> QED  BY <3>6
  <2>8. AllFit'
    BY <1>1, <1>2, <1>9, <2>1, <2>7 DEF AllFit
  <2> QED  BY <1>5, <2>3, <2>4, <2>5, <2>6, <2>8 DEF ResumeInv
<1> QED  BY <1>8, <1>9 DEF TakeCell

LEMMA RunEndsTruly ==
  ASSUME ResumeInv, RunEnds
  PROVE  ResumeInv'
<1>1. step' = "dead" /\ UNCHANGED <<run, inputs, bundles, open, taken, log, logging, resumed, pool, reused>>
  BY DEF RunEnds
<1>2. \A d : Question(d)' = Question(d) /\ Given(d)' = Given(d)
  BY <1>1 DEF Question, Cells, Given
<1>3. RunTypes' /\ AtPlan' /\ AllFit'
  BY <1>1 DEF ResumeInv, RunTypes, AtPlan, AllFit
<1>4. LogTrue'
  <2>1. LogLines' = LogLines /\ \A l : Says(l)' = Says(l)
    BY <1>1, <1>2 DEF LogLines, Says
  <2> QED  BY <1>1, <2>1 DEF ResumeInv, LogTrue
<1>5. ReadTrue' /\ ReusedTrue'
  BY <1>1, <1>2 DEF ResumeInv, ReadTrue, ReusedTrue
<1> QED  BY <1>3, <1>4, <1>5 DEF ResumeInv

LEMMA RunAgainTruly ==
  ASSUME ResumeInv, RunAgain
  PROVE  ResumeInv'
<1>1. /\ run' = run + 1 /\ step' = "plan" /\ inputs' \in {inputs, inputs + 1}
      /\ resumed' = (IF log = <<>> THEN NothingResumed ELSE ReadBack)
      /\ pool' = resumed'.tasks
      /\ bundles' = <<>> /\ open' = <<>> /\ taken' = 0
      /\ log' = <<>> /\ logging' = TRUE /\ reused' = <<>>
  BY DEF RunAgain
<1>2. /\ DOMAIN open' = {} /\ DOMAIN reused' = {} /\ Len(bundles') * Samples = 0
      /\ log' \in Seq({}) /\ DOMAIN log' = {}
  BY <1>1, ResumptionAssumption
<1>3. RunTypes /\ run \in Nat /\ run' - 1 = run
  BY <1>1 DEF ResumeInv, RunTypes
<1>4. /\ resumed'.bundles \in Groupings \cup {<<>>}
      /\ \A t \in resumed'.tasks :
           /\ t.task \in 1..(Len(resumed'.bundles) * Samples)
           /\ t.key = QuestionIn(resumed'.bundles, t.task, resumed'.inputs)
           /\ t.answer.key = t.key /\ t.answer.run \in 0..run
      /\ \A t, u \in resumed'.tasks : t.answer = u.answer \/ t.task = u.task => t = u
  <2>1. CASE log = <<>>
    <3>1. resumed'.bundles = <<>> /\ resumed'.tasks = {}
      BY <1>1, <2>1 DEF NothingResumed
    <3> QED  BY <3>1
  <2>2. CASE log # <<>>
    <3>1. /\ resumed'.bundles = bundles /\ resumed'.inputs = inputs
          /\ \A t \in resumed'.tasks :
               /\ t.task \in 1..taken
               /\ t.key = Question(t.task) /\ t.answer = Given(t.task)
          /\ \A t, u \in resumed'.tasks : t.task = u.task => t = u
      BY <1>1, <2>2, ReadBackTruly
    <3>2. /\ \A c \in 1..taken : Given(c).key = Question(c) /\ Given(c).run \in 0..run
          /\ \A c, d \in 1..taken : Given(c) = Given(d) => c = d
      BY GivenTruly
    <3>3. /\ \A c \in 1..taken : c \in 1..(Len(bundles) * Samples)
          /\ \A c \in 1..(Len(bundles) * Samples) : Question(c) = QuestionIn(bundles, c, inputs)
      <4>1. Len(bundles) * Samples \in Nat /\ taken \in Nat /\ taken <= Len(bundles) * Samples
        BY <1>3, CellsOf DEF RunTypes
      <4> QED  BY <1>3, <4>1, CellsOf
    <3>4. bundles \in Groupings \cup {<<>>}
      BY <1>3 DEF RunTypes
    <3> QED  BY <3>1, <3>2, <3>3, <3>4
  <2> QED  BY <2>1, <2>2
<1>5. RunTypes'
  BY <1>1, <1>2, <1>3, <1>4 DEF RunTypes
<1>6. AtPlan'
  BY <1>1 DEF AtPlan
<1>7. LogTrue'
  <2>1. LogLines' = {}
    BY <1>2 DEF LogLines
  <2> QED  BY <1>1, <2>1 DEF LogTrue
<1>8. ReadTrue' /\ ReusedTrue'
  BY <1>1, <1>2, <1>3, <1>4 DEF ReadTrue, ReusedTrue
<1>9. AllFit'
  BY <1>1 DEF AllFit
<1> QED  BY <1>5, <1>6, <1>7, <1>8, <1>9 DEF ResumeInv

\* However often a review is resumed, with a log cut off anywhere: what was read
\* back is what the run before answered, cell by cell (readResumedRun), and the
\* answers not used yet fit the cells not taken yet (reusePool).
THEOREM ResumeInvariant == ResumptionSpec => []ResumeInv
<1>1. ResumptionInit => ResumeInv
  BY StartTruly
<1>2. ResumeInv /\ [ResumptionNext]_resumptionVars => ResumeInv'
  <2> SUFFICES ASSUME ResumeInv, [ResumptionNext]_resumptionVars
               PROVE  ResumeInv'
    OBVIOUS
  <2>1. CASE Plan
    BY <2>1, PlanTruly
  <2>2. CASE TakeCell
    BY <2>2, TakeCellTruly
  <2>3. ASSUME NEW c \in DOMAIN open, AgentEnds(c)
        PROVE  ResumeInv'
    BY <2>3, AgentEndsTruly
  <2>4. ASSUME NEW c \in DOMAIN open, ReuseEnds(c)
        PROVE  ResumeInv'
    BY <2>4, ReuseEndsTruly
  <2>5. CASE RunEnds
    BY <2>5, RunEndsTruly
  <2>6. CASE RunAgain
    BY <2>6, RunAgainTruly
  <2>7. CASE UNCHANGED resumptionVars
    <3>1. /\ UNCHANGED <<run, inputs, step, bundles, open, taken, log, logging, resumed, pool, reused>>
      BY <2>7 DEF resumptionVars
    <3>2. \A d : Question(d)' = Question(d) /\ Given(d)' = Given(d)
      BY <3>1 DEF Question, Cells, Given
    <3>3. LogLines' = LogLines /\ \A l : Says(l)' = Says(l)
      BY <3>1, <3>2 DEF LogLines, Says
    <3>4. LogTrue'
      BY <3>1, <3>3 DEF ResumeInv, LogTrue
    <3>5. RunTypes' /\ AtPlan' /\ ReadTrue' /\ ReusedTrue' /\ AllFit'
      BY <3>1, <3>2 DEF ResumeInv, RunTypes, AtPlan, ReadTrue, ReusedTrue, AllFit, Fits
    <3> QED  BY <3>4, <3>5 DEF ResumeInv
  <2> QED  BY <2>1, <2>2, <2>3, <2>4, <2>5, <2>6, <2>7 DEF ResumptionNext
<1> QED  BY <1>1, <1>2, PTL DEF ResumptionSpec

\* A reused answer is one to this very question, no two samples share one, and a
\* run of the same change pays for nothing that the run it resumes had logged
\* (execute.ts reuseJob, resume.ts reusePool; ADR-0031).
THEOREM ResumedTrulyAlways == ResumptionSpec => []ResumedTruly
<1>1. ResumeInv => ReusedAsGiven
  <2> SUFFICES ASSUME ResumeInv
               PROVE  ReusedAsGiven
    OBVIOUS
  <2>1. DOMAIN reused \subseteq 1..taken /\ ReusedTrue /\ ReadTrue
    BY DEF ResumeInv, RunTypes
  <2> QED  BY <2>1 DEF ReusedAsGiven, ReusedTrue, ReadTrue
<1>2. ResumeInv => NothingPaidTwice
  <2> SUFFICES ASSUME ResumeInv, step = "tasks", taken = Len(Cells), resumed.inputs = inputs,
                      ~Repeats(resumed.bundles)
               PROVE  pool = {}
    BY DEF NothingPaidTwice
  <2>1. taken = Len(bundles) * Samples /\ taken \in Nat
    BY CellsOf DEF ResumeInv, RunTypes
  <2>2. CASE \E f : Fits(f)
    <3>1. PICK f : Fits(f)
      BY <2>2
    <3>2. f \in [pool -> (taken + 1)..taken]
      BY <2>1, <3>1 DEF Fits
    <3>3. (taken + 1)..taken = {}
      BY <2>1
    <3> QED  BY <3>2, <3>3
  <2> QED  BY <2>2 DEF ResumeInv, AllFit
<1>3. ResumeInv => ResumedTruly
  BY <1>1, <1>2 DEF ResumedTruly
<1> QED  BY <1>3, ResumeInvariant, PTL

=============================================================================
