------------------------------- MODULE EvalRun -------------------------------
(***************************************************************************)
(* ocra-eval run (eval/src/runner.ts, repeat.ts, reviewer.ts): the reviews *)
(* of a data set, one repetition after another, with what each came to on  *)
(* disk.  An invocation takes what earlier ones finished, resumes what     *)
(* they could not, stops at its budget or when the provider's quota is     *)
(* spent, and may be killed at any point.                                  *)
(*                                                                         *)
(* A review is the CLI's (Resumption): some tasks complete, some it takes  *)
(* from the run it resumes, each one it runs costs one.                    *)
(***************************************************************************)
EXTENDS Naturals, FiniteSets, FiniteSetsExt, Sequences

CONSTANTS
  Selections,   \* what may be asked for: how many instances, and --repeat
  Tasks,        \* of every review
  Budgets,      \* what --max-cost-usd may be, when given
  MaxReviews,   \* bound: reviews in all
  MaxPasses     \* bound: instances gone through, over all invocations

ASSUME EvalAssumption ==
  /\ Selections \subseteq (Nat \ {0}) \X (Nat \ {0})
  /\ IsFiniteSet(Tasks) /\ "no log" \notin Tasks
  /\ Budgets \subseteq Nat /\ {MaxReviews, MaxPasses} \subseteq Nat

\* The instances, in order, and the repetitions.
PRs == UNION {1..s[1] : s \in Selections}
Reps == UNION {1..s[2] : s \in Selections}

VARIABLES
  asked,      \* the selection; the same command is invoked again and again
  results,    \* instances/<id>.json of each repetition
  kept,       \* session-logs/<id>: the tasks whose events it holds, or NoLog
  sessions,   \* history: every review that was run, in order; the clone's sessions
  eval,       \* the invocation, or Off; what it spent, and what its summary says
  calls,      \* invocations so far
  review,     \* the review whose outcome is in hand, or NoReview
  paid,       \* history: what this invocation's reviews said they cost
  astray      \* history: where a kept log is not the result's

evalVars == <<asked, results, kept, sessions, eval, calls, review, paid, astray>>

Limits == {"none", "rate_limit", "quota"}
NoResult == [status |-> "absent", cost |-> 0, run |-> 0, holds |-> {}, limit |-> "none"]
Torn == [NoResult EXCEPT !.status = "torn"]
NoLog == {"no log"}
Off == [at |-> 0, rep |-> 0, spent |-> 0, said |-> 0, quota |-> FALSE, earlier |-> 0,
        max |-> 0, retry |-> FALSE]
Unlimited == 1 + Max(Budgets) + MaxReviews * Cardinality(Tasks)
NoReview == [run |-> 0, result |-> NoResult, logged |-> FALSE]

On == eval # Off
Current == results[eval.rep][eval.at]
Readable(r) == r.status \notin {"absent", "torn"}

NotAsked == <<0, 0>>
EvalInit ==
  /\ asked = NotAsked
  /\ results = [n \in Reps |-> [p \in PRs |-> NoResult]]
  /\ kept = [n \in Reps |-> [p \in PRs |-> NoLog]]
  /\ sessions = <<>> /\ eval = Off /\ calls = 0 /\ review = NoReview /\ paid = 0 /\ astray = {}

\* commands/run.ts, repeatRuns: from the first repetition on.
Invoke ==
  /\ ~On
  /\ IF asked = NotAsked THEN asked' \in Selections ELSE UNCHANGED asked
  /\ calls' = calls + 1 /\ calls' * asked'[1] * asked'[2] <= MaxPasses
  /\ \E max \in Budgets \cup {Unlimited}, retry \in BOOLEAN :
       eval' = [at |-> 1, rep |-> 1, spent |-> 0, said |-> 0, quota |-> FALSE, earlier |-> 0,
                max |-> max, retry |-> retry]
  /\ paid' = 0
  /\ UNCHANGED <<results, kept, sessions, review, astray>>

Moved(e) == IF e.at < asked[1] THEN [e EXCEPT !.at = @ + 1] ELSE [e EXCEPT !.at = 0]

\* The results it takes over count, those of reviews it has to retry do not.
Again(r) == eval.retry /\ (r.status = "failed" \/ r.limit # "none")
Deciding == On /\ eval.at > 0 /\ review = NoReview
NeedsReview == ~Readable(Current) \/ Again(Current)

TakeOver ==
  /\ Deciding /\ ~NeedsReview
  /\ eval' = Moved([eval EXCEPT !.spent = @ + Current.cost, !.said = @ + Current.cost])
  /\ UNCHANGED <<asked, calls, results, kept, sessions, review, paid, astray>>

\* What is left of the budget by the earlier repetitions, and by this one.
BudgetLeft == IF eval.max > eval.earlier THEN eval.max - eval.earlier ELSE 0
OverBudget == eval.max # Unlimited /\ eval.spent >= BudgetLeft

\* Not written, and nothing in the summary, whatever an earlier result cost: the
\* next invocation reviews it.
SkipOne ==
  /\ Deciding /\ NeedsReview
  /\ OverBudget \/ eval.quota
  /\ eval' = Moved(eval)
  /\ UNCHANGED <<asked, calls, results, kept, sessions, review, paid, astray>>

Reviewing == Deciding /\ NeedsReview /\ ~OverBudget /\ ~eval.quota

\* The clone cannot be made, or lacks the commit: no log is touched.
PrepareFails ==
  /\ Reviewing
  /\ \E s \in {"failed", "unavailable"} :
       review' = [run |-> 0, result |-> [NoResult EXCEPT !.status = s], logged |-> TRUE]
  /\ UNCHANGED <<asked, calls, results, kept, sessions, eval, paid, astray>>

\* The run to resume: its session must still be in the clone.
Resumable == IF Readable(Current) THEN {0, Current.run} ELSE {0}

\* A review that was cut, or that lost tasks to the provider, is not one to score.
StatusOf(holds, ended, limit) ==
  IF holds # {} /\ ended = "itself" /\ limit = "none" THEN "reviewed" ELSE "failed"

\* Mutant: whether it took tasks from it or not.
CostOfBoth(session) == session.cost + Current.cost

\* It counts the attempt it took tasks from.
CostOf(session) ==
  session.cost + (IF session.reused # {} THEN Current.cost ELSE 0)

\* What it completed, or took from a run that did.
Done(session) == session.ran \cup session.reused

ResultOf(session, ended, limit) ==
  LET holds == Done(session)
  IN IF ended = "no report" THEN [NoResult EXCEPT !.status = "failed", !.limit = limit]
     ELSE [status |-> StatusOf(holds, ended, limit), cost |-> CostOf(session),
           run |-> Len(sessions) + 1, holds |-> holds, limit |-> limit]

\* This invocation's part of it.
PaidNow(session, result) ==
  result.cost - (IF session.reused # {} /\ result.run # 0 THEN Current.cost ELSE 0)

\* How it may end, and what the provider refused: a review that was cut short or
\* wrote no report lost no more by that.
Endings == {<<"itself", l>> : l \in Limits} \cup {<<"cut", "none">>, <<"no report", "none">>, <<"no report", "quota">>}

\* What it may take from the run it resumes, and what it then did.
Reusable(from) == IF from = 0 THEN {{}} ELSE {{}, Done(sessions[from])}
Session(from, reused, ran) ==
  [from |-> from, reused |-> reused, ran |-> ran, cost |-> Cardinality(Tasks \ reused)]

Recorded(session, result) ==
  /\ sessions' = Append(sessions, session)
  /\ review' = [run |-> result.run, result |-> result, logged |-> FALSE]
  /\ paid' = paid + (IF result.run = 0 THEN 0 ELSE session.cost)
  /\ eval' = [eval EXCEPT !.spent = @ + PaidNow(session, result)]

\* reviewInstance: what it may come to.
Review ==
  /\ Reviewing /\ Len(sessions) < MaxReviews
  /\ \E from \in Resumable : \E reused \in Reusable(from) :
     \E ran \in SUBSET (Tasks \ reused), ending \in Endings :
       /\ ending = <<"no report", "none">> => ran = {}
       /\ ending[2] # "none" => ran \cup reused # Tasks
       /\ Recorded(Session(from, reused, ran), ResultOf(Session(from, reused, ran), ending[1], ending[2]))
  /\ UNCHANGED <<asked, calls, results, kept, astray>>

\* carriedEvents: of the log before, what the tasks taken over did.
Carried(log, session) ==
  IF session.from = 0 \/ log = NoLog THEN {} ELSE log \cap session.reused

KeptLog(log) ==
  IF review.run = 0 THEN NoLog
  ELSE Carried(log, sessions[review.run]) \cup sessions[review.run].ran

\* A log that goes wrong stays so until a review takes nothing over.
StaysAstray == review.run # 0 /\ sessions[review.run].reused # {}
Here == {<<eval.rep, eval.at>>}

KeepLog ==
  /\ On /\ review # NoReview /\ ~review.logged
  /\ review' = [review EXCEPT !.logged = TRUE]
  /\ \/ /\ kept' = [kept EXCEPT ![eval.rep][eval.at] = KeptLog(@)]
        /\ astray' = IF StaysAstray THEN astray ELSE astray \ Here
     \/ kept' = kept /\ astray' = astray \cup Here     \* it could not be written
  /\ UNCHANGED <<asked, calls, results, sessions, eval, paid>>

WriteResult ==
  /\ On /\ review # NoReview /\ review.logged
  /\ results' = [results EXCEPT ![eval.rep][eval.at] = review.result]
  /\ eval' = Moved([eval EXCEPT !.quota = @ \/ review.result.limit = "quota",
                               !.said = @ + review.result.cost])
  /\ review' = NoReview
  /\ UNCHANGED <<asked, calls, kept, sessions, paid, astray>>

\* Mutant: each repetition gets the whole budget.
RepetitionEndsAlone ==
  /\ On /\ eval.at = 0
  /\ eval' = IF eval.rep = asked[2] THEN Off
             ELSE [eval EXCEPT !.at = 1, !.rep = @ + 1, !.spent = 0, !.said = 0,
                               !.quota = FALSE]
  /\ UNCHANGED <<asked, calls, results, kept, sessions, review, paid, astray>>

\* The next repetition gets what the summaries before it leave, or the invocation ends.
RepetitionEnds ==
  /\ On /\ eval.at = 0
  /\ eval' = IF eval.rep = asked[2] THEN Off
             ELSE [eval EXCEPT !.at = 1, !.rep = @ + 1, !.spent = 0, !.said = 0,
                               !.quota = FALSE, !.earlier = @ + eval.said]
  /\ UNCHANGED <<asked, calls, results, kept, sessions, review, paid, astray>>

\* Killed, perhaps in the middle of writing a result.
Killed ==
  /\ On
  /\ eval' = Off /\ review' = NoReview
  /\ astray' = IF review # NoReview THEN astray \cup Here ELSE astray
  /\ \/ results' = results
     \/ /\ review # NoReview /\ review.logged
        /\ results' = [results EXCEPT ![eval.rep][eval.at] = Torn]
  /\ UNCHANGED <<asked, calls, kept, sessions, paid>>

EvalNext ==
  \/ Invoke \/ TakeOver \/ SkipOne \/ PrepareFails \/ Review
  \/ KeepLog \/ WriteResult \/ RepetitionEnds \/ Killed
EvalSpec == EvalInit /\ [][EvalNext]_evalVars

------------------------------------------------------------------------------
\* The runs a run's tasks come from, itself included.
StandsOn[run \in 0..Len(sessions)] ==
  IF run = 0 THEN {}
  ELSE {run} \cup (IF sessions[run].reused = {} THEN {} ELSE StandsOn[sessions[run].from])

\* However often a review was resumed, cut short or killed, its result says what
\* the runs whose tasks it holds cost, each once (runner.ts:94-97, 182-185).
CostsTrue ==
  \A n \in Reps, p \in PRs : results[n][p].run # 0 =>
    results[n][p].cost =
      SumFunctionOnSet([r \in DOMAIN sessions |-> sessions[r].cost], StandsOn[results[n][p].run])

\* And the log beside it holds what every one of those tasks read and raised,
\* unless it could not be kept or the run was killed before the result was written
\* (runner.ts:150-163, 236-252; resumed-log.ts).
InHand == IF review = NoReview THEN {} ELSE Here
LogsTrue ==
  \A n \in Reps, p \in PRs :
    results[n][p].run # 0 /\ <<n, p>> \notin astray \cup InHand /\ kept[n][p] # NoLog
      => results[n][p].holds \subseteq kept[n][p]

ResultsTrue == CostsTrue /\ LogsTrue

\* No review starts once what this invocation paid has reached the budget, over
\* all repetitions (runner.ts:70-80, repeat.ts:22-38).
BudgetStops ==
  [][sessions' # sessions /\ eval.max # Unlimited => paid < eval.max]_evalVars
=============================================================================
