----------------------------- MODULE Resumption ------------------------------
(***************************************************************************)
(* A review that is run again with --resume (ADR-0031): each run logs its  *)
(* bundles and what its tasks answered (session/jsonl.ts, written by a     *)
(* listener of the registry's), may be killed or lose its log at any line, *)
(* and the next one reads back what the log still says                     *)
(* (session/resume-read.ts, pipeline/resume.ts, execute.ts).               *)
(*                                                                         *)
(* A question stands for a task key: the bundle, and everything else the   *)
(* answer depends on (Inputs), which may change between runs.              *)
(***************************************************************************)
EXTENDS Naturals, FiniteSets, Sequences

CONSTANTS
  ChangedFiles,   \* files in scope
  Groupings,      \* bundles the grouping may come to: sequences of sequences of files
  Samples,        \* 2 with --ultra
  Workers,        \* settings.concurrency
  MaxRuns,        \* bound
  MaxInputs       \* bound

ASSUME ResumptionAssumption == Samples \in Nat \ {0} /\ Groupings \subseteq Seq(Seq(ChangedFiles))

VARIABLES
  run, inputs,
  step,      \* plan, tasks, dead (finished, killed or cancelled)
  bundles,
  open,      \* cells in progress: the earlier answer of each, or {} for an agent
  taken,     \* cells taken, in order of the matrix
  log,       \* sealed lines of this run's session
  logging,   \* the session's listener still listens
  resumed,   \* what the run read back: its bundles and tasks, and of which inputs
  pool,      \* reusePool
  reused     \* history: per reused cell, the answer

resumptionVars == <<run, inputs, step, bundles, open, taken, log, logging, resumed, pool, reused>>

NothingResumed == [bundles |-> <<>>, tasks |-> {}, inputs |-> 0]

\* Cells in plan order: bundle by bundle, sample by sample.
Cells == [n \in 1..(Len(bundles) * Samples) |-> bundles[((n - 1) \div Samples) + 1]]
Question(c) == [bundle |-> Cells[c], inputs |-> inputs]

ResumptionInit ==
  /\ run = 1 /\ inputs = 1 /\ step = "plan" /\ bundles = <<>>
  /\ open = <<>> /\ taken = 0
  /\ log = <<>> /\ logging = TRUE
  /\ resumed = NothingResumed /\ pool = {}
  /\ reused = <<>>

\* emit: the lines are appended one by one.  The process may die at each, and a
\* listener whose write fails is dropped; what is left of a torn line has no seal.
Emits(lines, next) ==
  \/ /\ log' = IF logging THEN log \o lines ELSE log
     /\ step' = next /\ UNCHANGED logging
  \/ /\ logging
     /\ \E n \in 0..(Len(lines) - 1) : log' = log \o SubSeq(lines, 1, n)
     /\ \/ step' = next /\ logging' = FALSE
        \/ step' = "dead" /\ UNCHANGED logging

-----------------------------------------------------------------------------
Listed(groups) == UNION {{groups[b][n] : n \in DOMAIN groups[b]} : b \in DOMAIN groups}
Repeats(groups) ==
  \E a, b \in DOMAIN groups : \E m \in DOMAIN groups[a], n \in DOMAIN groups[b] :
    groups[a][m] = groups[b][n] /\ <<a, m>> # <<b, n>>

\* Grouping leaves no file out (bundle.ts fromGroups; Planning's BundlesHoldScope).
ASSUME GroupingAssumption == \A g \in Groupings : Listed(g) = ChangedFiles

\* Mutant: the files are always grouped anew.
KeepsNone(groups) == FALSE

\* resumedBundles: kept when they hold exactly the files in scope, each once.
Keeps(groups) == Listed(groups) = ChangedFiles /\ ~Repeats(groups)

Plan ==
  /\ step = "plan"
  /\ IF Keeps(resumed.bundles) THEN bundles' = resumed.bundles ELSE bundles' \in Groupings
  /\ Emits(<<[kind |-> "bundled", groups |-> bundles']>>, "tasks")
  /\ UNCHANGED <<run, inputs, open, taken, resumed, pool, reused>>

\* Mutant: an answer stays in the pool.
LeavesIn(task) == pool

TakesOut(task) == pool \ {task}

\* A worker takes the next cell: an earlier answer to its question, if any is
\* left, else an agent.
TakeCell ==
  /\ step = "tasks" /\ taken < Len(Cells) /\ Cardinality(DOMAIN open) < Workers
  /\ taken' = taken + 1
  /\ LET c == taken + 1
         fits == {t \in pool : t.key = Question(c)}
     IN \/ /\ fits = {}
           /\ open' = [d \in DOMAIN open \cup {c} |-> IF d = c THEN {} ELSE open[d]]
           /\ UNCHANGED <<pool, reused>>
        \/ \E t \in fits :
             /\ pool' = TakesOut(t)
             /\ open' = [d \in DOMAIN open \cup {c} |-> IF d = c THEN {t.answer} ELSE open[d]]
             /\ reused' = [d \in DOMAIN reused \cup {c} |-> IF d = c THEN t.answer ELSE reused[d]]
  /\ UNCHANGED <<run, inputs, step, bundles, log, logging, resumed>>

Without(c) == [d \in DOMAIN open \ {c} |-> open[d]]

\* What a completed task logs: what it reported, then that it finished.
Completed(c, answer) ==
  <<[kind |-> "reported", task |-> c, key |-> Question(c), answer |-> answer],
    [kind |-> "finished", task |-> c, status |-> "completed"]>>

\* runJob: an agent finishes its review; or is cut off before it did, or fails.
AgentEnds(c) ==
  /\ step = "tasks" /\ c \in DOMAIN open /\ open[c] = {}
  /\ open' = Without(c)
  /\ \/ Emits(Completed(c, [key |-> Question(c), run |-> run, cell |-> c]), "tasks")
     \/ Emits(<<[kind |-> "finished", task |-> c, status |-> "unfinished"]>>, "tasks")
  /\ UNCHANGED <<run, inputs, bundles, taken, resumed, pool, reused>>

\* reuseJob, its findings anchored again.
ReuseEnds(c) ==
  /\ step = "tasks" /\ c \in DOMAIN open /\ open[c] # {}
  /\ open' = Without(c)
  /\ \E answer \in open[c] : Emits(Completed(c, answer), "tasks")
  /\ UNCHANGED <<run, inputs, bundles, taken, resumed, pool, reused>>

\* The run is over, or is killed.
RunEnds ==
  /\ step \in {"plan", "tasks"}
  /\ step' = "dead"
  /\ UNCHANGED <<run, inputs, bundles, open, taken, log, logging, resumed, pool, reused>>

-----------------------------------------------------------------------------
\* readResumedRun: tasks with both lines; reusable: those that completed.
ReadBack ==
  LET lines == {log[n] : n \in DOMAIN log}
      groups == {l.groups : l \in {k \in lines : k.kind = "bundled"}}
      finished == {l.task : l \in {k \in lines : k.kind = "finished" /\ k.status = "completed"}}
  IN [bundles |-> IF groups = {} THEN <<>> ELSE CHOOSE g \in groups : TRUE,
      tasks |-> {[key |-> l.key, task |-> l.task, answer |-> l.answer] :
                   l \in {k \in lines : k.kind = "reported" /\ k.task \in finished}},
      inputs |-> inputs]

\* The next run resumes the last one, or nothing when its log is empty; the
\* change or the configuration may be another by then.
RunAgain ==
  /\ step = "dead" /\ run < MaxRuns
  /\ run' = run + 1 /\ step' = "plan"
  /\ inputs' \in {inputs, inputs + 1} /\ inputs' <= MaxInputs
  /\ resumed' = IF log = <<>> THEN NothingResumed ELSE ReadBack
  /\ pool' = resumed'.tasks
  /\ bundles' = <<>> /\ open' = <<>> /\ taken' = 0
  /\ log' = <<>> /\ logging' = TRUE /\ reused' = <<>>

ResumptionNext ==
  \/ Plan \/ TakeCell
  \/ \E c \in DOMAIN open : AgentEnds(c) \/ ReuseEnds(c)
  \/ RunEnds \/ RunAgain
ResumptionSpec == ResumptionInit /\ [][ResumptionNext]_resumptionVars

-----------------------------------------------------------------------------
\* However often a review is resumed, whatever was cut off, killed or not
\* logged: a reused answer is one to this question, and two samples of a cell
\* are two opinions.
ReusedAsGiven ==
  /\ \A c \in DOMAIN reused : reused[c].key = Question(c)
  /\ \A c, d \in DOMAIN reused : reused[c] = reused[d] => c = d

\* A run that resumes another of the same change pays for nothing that the
\* other's log holds: the bundles are the same again, so every answer finds its
\* cell ("a retried review reuses the tasks that completed", ADR-0031).  Bundles
\* that hold a file twice are not kept.
NothingPaidTwice ==
  step = "tasks" /\ bundles # <<>> /\ taken = Len(Cells) /\ resumed.inputs = inputs
    => pool = {} \/ Repeats(resumed.bundles)

\* What a review takes from the one it resumes is what that one paid for, and
\* all of it.
ResumedTruly == ReusedAsGiven /\ NothingPaidTwice
=============================================================================
