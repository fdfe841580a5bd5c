# A verification project for ocra

TLA+ models of [ocra](../src/README.md), the code review agent whose source is
under `src/`. What they say was translated from the TypeScript under
`src/packages/`; every definition is mapped to its lines in `PROJECT.json`. TLC
checks the models on small instances; TLAPS proves their most important
properties for every value of the constants.

Paths below are relative to `src/packages/`.

## The system

`ocra review` reviews a change: the diff of a working tree, of commits, or of a
pull or merge request. One run is a pipeline (`core/src/pipeline/run.ts`):

    ingest -> select -> triage -> bundle -> matrix        planReview
           -> execute -> anchor                           executeStage
           -> memory, SARIF, the previous review          filterStage
           -> verify -> judge -> verdict                  checkStage
           -> report -> publish -> upload                 assembleReport, deliver

| component | state it keeps | operations | interacts with | what is hard |
|---|---|---|---|---|
| **Model health and failover** `core/src/runtime/{models,quota,failback,chain-runner}.ts` | per model: circuit, quota, models out of quota | order a chain, record success, failure, rate limit; run a task or a completion along its chain | every concurrent call of a runtime shares it | calls wait, fail and are cancelled concurrently; what is read before a wait is used after it |
| **Spend limit** `core/src/agent/spend-limit.ts` | spent, an abort signal, whether it refused a task | charge, may a task start, may a call be made | execute stage, anchoring, verify, judge | reached by one task while others run, wait or start |
| **Execute stage** `core/src/pipeline/{execute-stage,execute,task,resume}.ts`, `agent/pool.ts` | per cell: its task; shared plan calls; earlier answers | take a cell, reuse, refuse, skip, plan, run, abort, collect, anchor | spend limit, runtime, run signal | worker pool; timeout, abort and late answers; shared calls |
| **Coverage** `core/src/pipeline/coverage.ts` | none | status of each file from its tasks | execute stage, report, next run's scope | a file is only as good as its worst reviewer |
| **Attempts** `runtime-opencode/src/*`, `runtime-direct/src/*` | a session, or a loop, per attempt | prompt, watch, harvest, resume once; steps and tools | failover | timeouts against answers; what was spent must be counted |
| **Re-review** `vcs-platform/src/{review,state}.ts`, `core/src/rereview/*`, `core/src/pipeline/{plan,filter-stage}.ts` | the summary's state, the threads, the branch, the team's memory | read the earlier review, choose the scope, reconcile, publish | people push, dismiss, accept, edit | state across runs; a crash between two writes |
| **Delivery** `vcs-platform/src/{review,http,retry}.ts`, `vcs-github`, `vcs-gitlab` | comments, summary and request for changes on the platform | post, retry, request changes, withdraw | re-review, people | lost answers, repeated requests, runs that die |
| **Planning** `core/src/{select,bundle,matrix}/*`, `triage.ts` | none | select files, find the tier, group files, split groups, cells per reviewer, task limit | plan, execute stage | boundaries: group sizes, task limit, what a model answers |
| **Anchoring** `core/src/{anchor,diff}/*` | none | read a diff, find where quoted code is | execute stage | quotes that fit nothing or too much |
| **Check stage** `core/src/{verify,judge}/*`, `pipeline/check-stage.ts`, exit code | outcomes per finding | check per file, apply the judge's decisions, decide | spend limit, runtime | concurrent calls under a limit; a model's indexes; no failure may read as a pass |
| **Session log and resume** `core/src/session/*`, `pipeline/resume.ts` | a run's event log | append, read back, reuse | execute stage of a later run | a crash in the middle of an append |
| **ocra Cloud session** `cli/src/cloud/{file-lock,client,credentials}.ts` | a credentials file and a lock file shared by processes | refresh, save, remove, lock, break a stale lock | every process on the machine, the server | processes that race, die, or stop waiting |
| **Sharing** `cli/src/cloud/{review,upload}.ts`, `commands/login.ts` | session, salt and consent | login, logout, a signed-in review | the session | a login that dies, or overtakes a review |
| **Evaluation** `eval/src/{runner,repeat,resumed-log}.ts` | results and logs of reviews | run, skip, resume, keep, repeat | the review command | kills between two writes; a budget over several runs |
| Rules, prompts, plugin host, rendering, command line, scripts | - | - | - | sequential; not modelled |

What makes each of them correct, in a sentence: a call tries every model it may
before it fails and blames none that is innocent; nothing runs past the run or
its budget, and everything spent is counted; a file is called reviewed only if
it was; a run forgets no file, no finding and no decision of a person; what is
published can be read and is said once; a session is ended by nobody but its
owner and its server; and no failure reads as a pass.

## The modules

An arrow points to what a module builds on; `=>` is a refinement.

    ModelHealth <= Failback                  Turns <= FileLock
    SpendLimit  <- ExecuteStage <- ReviewCoverage
    SpendLimit  <- CheckStage                Turns <- CloudSession
    Attempt     <= OpencodeSession, DirectLoop
    Processes   <- Turns, FileLock
    Planning, Rereview, Delivery, Anchoring, Resumption, EvalRun, Sharing

| module | models | state | actions |
|---|---|---|---|
| `ModelHealth` | `models.ts`, `quota.ts` | `circuit`, `quota`, `outOfQuota`, the three maps of the class | `RecordFailure`, `RecordSuccess`, `RecordQuota`, `Elapse` |
| `Failback` | `failback.ts`, `chain-runner.ts` | per call: the await or yield it is suspended at, the models left, its timer, its signal, the attempt's outcome | one action per stretch between two suspension points; `Abort`, `Abandon`, `Tick` |
| `SpendLimit` | `spend-limit.ts` | `spent`, `stopped`, `refused` | parts of the stages' actions |
| `ExecuteStage` | `execute-stage.ts`, `execute.ts`, `task.ts`, `pool.ts`, `resume.ts` | per cell: `phase`, `status`, what it used and answered; `plans`, `pool`, the signal and its `cause` | `Take` (`Skip`, `Reuse`, `Miss`), then, after the wait for an earlier answer, `Refuse` or `Admit`, after the search for callers `CallersFound`; `PlanEnds`, the agent's `Report`, `Done`, `EndSilently`, `Fail`, `TimeOut`, `GraceOver`, relocation, `Finish`, `Cancel` |
| `ReviewCoverage` | `coverage.ts` over the stage | none of its own | those of the stage |
| `Attempt` | the contract of a runtime's attempt (`core/src/runtime/attempt.ts`, `ModelAttempts` in `chain-runner.ts`) | what its agent did, and the outcome | an agent works, an attempt ends |
| `OpencodeSession` | `session-prompt.ts`, `session-outcome.ts` | a session's turns, what was read of it, the watch over it | the session's creation, prompts, polls, the one request to finish, harvest, cancellation |
| `DirectLoop` | `loop.ts`, `runtime.ts` of the direct runtime | the request in flight, steps, the answer, tools' results | request, retry, tools, the one request to finish, timeout, cancellation |
| `Rereview` | `review.ts`, `state.ts`, `history.ts`, `plan.ts`, `filter-stage.ts`, `reconcile.ts`, `presence.ts` | `branch`, its `base`, `accepted`, `summary`, `threads`, the `run` in progress | `StartRun`, `Review`, `PostInline`, `WriteSummary`, `Crash`; people: `Push`, `Accept`, `Decline`, `EditSummary` |
| `Delivery` | `review.ts` (publish), `http.ts`, `retry.ts`, GitHub's and GitLab's adapter | comments, requests for changes, the summary, the delivery in progress | one per request, each answered, lost, refused or repeated; `Dies`; people: `Meddle` |
| `Planning` | `select.ts`, `triage.ts`, `plan.ts`, `bundle.ts`, `matrix.ts` | the plan as it grows | `Ingest`, `Select`, `Scope`, `Bundle` (an earlier run's bundles, or its own), `Matrix` |
| `CheckStage` | `check-stage.ts`, `verify.ts`, `judge.ts`, `verdict.ts`, `exit-code.ts` | files to check, calls in flight, findings, result | `TakeFile`, `Verified`, the judge's call, `Report` |
| `Anchoring` | `anchor.ts`, `match.ts`, `hunks.ts`, `relocate.ts` | an edit, its diff as git writes it, a quote, where the search is | a search in the hunks, the file, other files, and again after a model was asked |
| `Resumption` | `jsonl.ts`, `resume.ts`, `resumed-bundles` | a run's log, what a later run took from it | tasks begin, answer, are logged or torn; a run ends, another resumes it |
| `Processes`, `Turns` | what processes are, and what a lock promises them | who is in turn, and what went wrong | `TakesTurn`, `GoesWithout`, `Leaves`, `Judges` |
| `FileLock` | `file-lock.ts` | the lock file, its claims, each process's place | one action per file operation, `Tick`, `Crash` |
| `CloudSession` | `client.ts`, `credentials.ts` | the saved pair, the server's pairs, each call | read, refresh, compare, write, use, end, login, `Die` |
| `Sharing` | `login.ts`, `logout.ts`, `cloud/review.ts`, `sharing-consent.ts` | session, salt, consent, accounts' choices | the steps of a login, a logout and a review |
| `EvalRun` | `runner.ts`, `repeat.ts`, `resumed-log.ts`, `commands/run.ts` | results, logs, sessions in the clones, the invocation | `Invoke`, `TakeOver`, `SkipOne`, `PrepareFails`, `Review`, `KeepLog`, `WriteResult`, `RepetitionEnds`, `Killed` |

Each `MC*` module gives constants values for TLC. `MCExecute`, `MCCloud`,
`MCReview` and `MCSessions` put components that share no variable into one run:
a variable `part` says which one a behaviour is about, and the others stay where
they began, so the states add up and do not multiply. The next-state relation of
such a run is a disjunction of the components'; that every action of every
component fires in it was checked with TLC's coverage statistics. (`Reuse` of the
execute stage fires in `resume_coverage`, where there is an earlier answer.)
The `*Proofs` modules hold the theorems; `DataFacts` the lemmas about data they
share. Operators marked as mutants stand for a plausible bug of the definition
that follows; no run and no proof uses them, they show that each property can
fail.

**Grain.** JavaScript runs one continuation at a time, so an action is what runs
between two awaits (or yields), with everything it calls. Where processes share
files (`FileLock`, `CloudSession`, `Sharing`) an action is one file operation or
one request. In `Rereview` a run's steps are its phases: everything a run reads
before it reviews is read once and kept, and each write to the platform is an
action of its own, because a run may die between two writes. `Delivery` looks at
those writes request by request.

**Abstractions.** Time is the time left of a timer, aged a unit at a time; in
`FileLock` it is the age of a file. Costs are naturals. Prompts, titles, code and
wording are left out; a finding is a name or its index, a commit the version of
each file and the line of history it is on, a merge base the version of each file.
A line of code (`Anchoring`) is a
name, with a relation that says which is part of which. A model's answer is any
answer it can give; a server, a platform and git are modelled from how the code
uses them and marked external in the map.

**Abstract specifications.** `ModelHealth` says what the health of a model
promises whoever uses it, in whatever order; `Failback` changes the health in no
other way (`HealthSpec`). `Turns` says what a lock promises; `FileLock` keeps it
(`KeepsTurns`), and `CloudSession` is built on the promise, not on the lock.
`Attempt` says what the failover may rely on; both runtimes' attempts implement
it (`TellsTrue`, `LoopTellsTrue`). Each of the four is a `PROPERTY` of a run,
under a refinement mapping with `INSTANCE ... WITH`, and a theorem.

## The runs

| run | asks | bounds |
|---|---|---|
| `failback_ends` | `EveryCallEnds`: three calls on one model | threshold 2, 2 retries: the longest chain of pauses that others renew |
| `execute` | `StageTypeOK`, `SpendAccounted`, `OnePlanCall`, `LimitExplained`, `StopIsFinal`: two samples of a bundle and another bundle, plan calls; `TellsTrue`, `LoopTellsTrue`: an attempt on either runtime | `--ultra`, so that every cell waits for its callers before its plan; 2 workers for 3 cells, so that one always waits; limit 3, share 2, one already spent by planning, one usage report and one relocation per task: the limit is reached by each kind of call, before, in and after a task; step caps 2 and 3, one reading that fails |
| `execute_labels` | a comment of the code that does not hold | as `execute`, with one plan key for two bundles |
| `resume_coverage` | `CoverageTrue`, `PlanOrderKept`, `StageEnds`: a resumed run under `--ultra`, three reviewers, a cell the task limit cut | 5 cells on 2 files, 2 workers; one earlier answer for the first question, two for the second, so that cells 2 and 5 are left to run, with reused cells before and between them; a plan, a usage report or a reused cell's relocation call uses up the limit, before or after each check |
| `rereview` | `RereviewTypeOK`, `UnreviewedStays`, `OpenUntilSettled`, `CommentedOnce`, `BlockerStands` | below |
| `rereview_base` | what a comment says of files called unchanged, and is not so when the base moves | as `rereview` |
| `rereview_dismissal` | what the manual says of dismissals, and the code does not do | as `rereview` |
| `cloud` | `CloudTypeOK`, `OneHolder`, `NothingLeft`, `KeepsTurns`: a lock; `SavedIsCurrent`, `SessionKept`: one session under it | 3 processes, of which one may die, one flaw (a file that could not be written, one that could not be removed or read again for its removal, a lock judged by its age), a lock stale at once, one unit of waiting; for the session 2 callers, 3 calls, 2 logins of 2 pairs each |
| `review` | `ReviewTypeOK`; `PlanHolds`; `OutcomeEarned`, `OvershootBounded`; `EveryFindingShown`, `CommentedOnceEver`, `RequestFollowsVerdict` | every change of up to 4 files of 5 kinds, 12 answers of the grouping model, 5 lists of bundles an earlier run left (of the same files, of others, with one twice), any reviewers disabled; 3 findings in 3 files, two checked at a time, 64 answers of the judge; 3 runs publish 2 findings with 2 attempts per request, one act of people |
| `consent` | what the comment on consent says, and login does not do | one account and another, one death |
| `attempt_rerun` | a comment on finished sessions that does not hold | as the OpenCode attempts of `execute` |
| `sessions` | `TypeOK`, `HealthSpec`, `NoModelLost`, `ClosedBelowThreshold`, `WaitsNotCutShort`, `SkipsOnlyForAnother`: two calls that share two models in opposite orders, refused, cancelled and abandoned anywhere; `AnchoredTruly`; `ResumedTruly`; `ResultsTrue`, `BudgetStops` | for the calls threshold 1, so that one call's failure changes what the other sees, 2 retries, so that a refusal can join a pause and start another, waits stated above and below the limit, and unstated; every edit of files of 2 and 3 lines of 3 texts, 4 quotes, 3 answers of the relocation model; 3 runs of a review of 2 files with 2 samples; up to 3 reviews in 4 passes, two pull requests or two repetitions |

`rereview` has two files with two versions each, one finding in the first file
whose code the second version removes, and a tier that rises with the second
file's version: a push can fix the finding, raise or lower the tier, or change
something unrelated. The second file is not part of the change as it is opened: its
base and its head are the same. A push that changes it, or a base that moves away
from it, makes it part; each file has two versions at the base. Three runs are the fewest in which a decision about what one
run forgot, or half wrote, is made by a run that reads a later one; with two acts
of people in between, each hazard listed for these files occurs. Runs may fail to
list threads, to compare history or to tell who edited the summary, agents leave
any file unfinished, and a run dies between any two of its writes. People act when
a run reads what they do; nothing a run does depends on acts at another time.

`MAX_ATTEMPTS` of a request is 3 in the code and 2 in `review`: the third attempt
is treated like the second, and the theorems are for any number.

`CHECK_DEADLOCK FALSE` is in the cfgs whose system ends: calls, the stage, a plan,
a session end, and runs are bounded.

**Fairness.** `Failback!FairSpec`: the event loop runs every continuation that is
ready, an attempt ends (both runtimes give it a timeout), and time passes. Nobody
has to abort. `ExecuteStage!FairSpec`: workers take cells, the task's timer and
the grace period's timer fire, and plan and relocation calls, plain completions
with a timeout of their own, end. Nothing is assumed of the agents: `StageEnds`
holds although one may never answer nor honour its abort. The other runs check
safety and state no fairness.

**Symmetry.** `MCCloud` permutes the processes, `MCReview` the findings that are
published, `MCSessions` the tasks of an evaluated review: none of them is named
by a constant or compared in an order, and no run with symmetry checks liveness.

## What is proved

`tlapm` checks every theorem for all values of the constants that satisfy the
assumptions the modules name (`HealthAssumption`, `CallsAssumption`,
`SpendAssumption`, `StageAssumption`, `CoverageAssumption`, `RereviewAssumption`,
`ProcessAssumption`, `LockAssumption`, `SessionAssumption`, `LoopAssumption`,
`PlanningAssumption`, `CheckAssumption`, `DeliveryAssumption`, `EvalAssumption`,
`ResumptionAssumption`, `GroupingAssumption`, `AnchorAssumption`): bounds are naturals, sets of actors
are finite, inputs are of their types. TLC evaluates each of them in a run.

Each safety property follows from an inductive invariant, because none of them is
one by itself: it speaks of the end of something whose steps it does not mention.
The invariants, with what they add:

- **`FailbackProofs`** (`ModelHealth`, `Failback`). `HealthTypeOK` and `CircuitInv`
  tie each circuit to the failures since its last success and each timer to its
  limit: `HealthTypeCorrect`, `ClosedBelowThreshold`, `CooldownNotCutShort`,
  `WaitsNotCutShort`, `PauseShared`, for any use of the health. Calls use it in no
  other way (`HealthSpec`, a refinement), so they inherit these. `CallInv` ties what
  a call has in hand to the step it is at, for `NoModelLost`,
  and `SkipsOnlyForAnother`.
- **`ExecuteStageProofs`** (`ExecuteStage`, `ReviewCoverage`). `StageInv` says what
  each worker holds, who asked for a plan and which answers are still to be
  collected, in the order of the plan: types, `StoppedRunsStop`, `PlanOrderKept`,
  `OnePlanCall`, `StopIsFinal`. `LimitInv` gives `LimitExplained`; that the calls in
  flight, summed, are what was not yet counted gives `SpendAccounted`. `CoverageTrue`
  needs that a cell is completed only by its agent's answer or the resumed run's. The
  attempts of both runtimes (`DirectLoop`, `OpencodeSession`) implement `Attempt`
  (`LoopTellsTrue`, `TellsTrue`): the initial states map to initial states and each
  step to one or a stutter, under `LoopInv` and `AttemptInv`, which tie what was read
  of a session to what its agent did.
- **`RereviewProofs`**. `ScopeInv`: the summary claims no difference that nobody
  reviewed, between the base a file had for the last run that did not leave it out and
  the head (`UnreviewedStays`, `LeftOutSafely`, `SummaryForgetsNoFile`). That base is
  history: the summary does not hold it, which is why these three say nothing of a file
  whose base has moved since, and `rereview_base` shows what happens to one.
  `CommentInv`: a run that could list the threads knows every comment there is, up to
  the moment it posts (`CommentedOnce`). `CarryInv`: what a run carries over is open or settled by
  somebody (`OpenUntilSettled`, `BlockerStands`).
- **`CloudProofs`** (`FileLock`, `CloudSession`). `LockInv` says who may believe the
  lock to be its own, from what each process last read: `LockTypes`, `OneHolder`. For
  `NothingLeft`: whose key each file carries, and which claimant a release relies on.
  `KeepsTurns`: a step of the lock is a step of `Turns` or none. `SessionInv`, on
  `Turns` alone: what the server honours, what the file holds, and what the process
  whose turn it is has in hand; with it `SavedIsCurrent` and `SessionKept`.
- **`SessionProofs`** (`EvalRun`, `Resumption`). `EvalInv`: each result is a sum over
  the chain of reviews it stands on (`ResultsTrue`), and what was paid is within what
  the summaries say (`BudgetStops`). `ResumeInv`: the
  answers not yet used go one to one into cells not yet taken, so none is left when
  the cells are (`ResumedTruly`).
- **`AnchorProofs`** (`Anchoring`). `HunksAre`: reading a diff by the counts of its
  headers gives back what git was given to write. The invariant of the reading
  (`AtLine`) says which hunks were opened up to a line, what each holds, and how many
  lines of either side are left. `GroupsMatch`, `WholeMatches`: the windows found
  among the lines of a hunk or a file are the places that read as the quote does; a
  line's index in its group is how many of the group's line numbers are up to its own
  (`CountTo`), which `CountHits`, `CountOrder` and `CountAlike` make a numbering. Two
  hunks are apart by a line the diff does not show, so lines are within a hunk where
  the diff shows them (`ShowsIs`, `WithinIs`). `AnchorInv` adds that the finding's own
  quote has no place in the hunks once they were left, and what is looked for at each
  step (`AnchoredTruly`).
- **`ReviewProofs`** (`Planning`, `CheckStage`, `Delivery`). `PaidInv`: each file in
  flight was sent below the limit (`OvershootBounded`). `OutcomeInv`: a finding is to
  do, in flight, kept, refuted or missed, and only one of these, and no judge drops a
  protected one (`OutcomeEarned`, types). `DeliveryInv`: what a run takes for
  published was published, and what it is about to publish it knows no comment of
  (`EveryFindingShown`, `CommentedOnceEver`, `RequestFollowsVerdict`, types).
  `PlanInv`: what is chosen is a list of files, each once; the bundles are that list
  again, an earlier run's that cover it or the run's own, however a model's groups, the directories or the limits cut it, since
  grouping takes each file once and cutting in order puts nothing elsewhere
  (`PlanHolds`, types).
- **`DataFacts`**. The lemmas about numbers, sums and sequences the others cite. The
  library's induction theorems take an operator as a parameter, which no installed
  prover can instantiate; here an induction is made from a least counterexample
  (`WFMin`): `AllUpTo`, `LeastSet`, `Recursion` (a recursive function exists and does
  what it says), sums over a set as it grows and shrinks, and a list of lists put one
  after another (`FlattenBy`), of which `Planning`'s lists and `Anchoring`'s diff are
  made. What `filter` and the loops over groups do is proved for every input this way,
  in the module that uses it.

`MCReview` and `MCCloud` put components side by side; `ReviewTypes` and `CloudTypes`
are their type invariants, from those of the parts. Tasks are a set in `Planning`
(the code keeps the list by bundle, reviewer and sample): the order of a plan matters
in `ExecuteStage`, which has it as a constant.

**Only model-checked.** `EveryCallEnds` and `StageEnds`: liveness under fairness is
out of the prover's reach. Every other property of a passing run is a theorem's.

## Findings

Five places where the code does something else than it or its documents say. Each
has a run in which TLC finds it; `PROJECT.json` quotes both sides.

1. `execute_labels` (bug): plans are shared by bundle label, and a group that is
   split has one label for several bundles, so a task can be given the plan of
   another bundle.
2. `rereview_dismissal` (bug): a dismissal has no severity. A finding dismissed as a
   warning that comes back critical is reported once, and silenced by the same old
   dismissal in the run after.
3. `consent` (bug): the record of consent names no account. A login that dies between
   saving its session and settling its consent, or overtakes a review, sends findings
   to an account that never agreed.
4. `rereview_base`: the summary records the head that was reviewed and not its merge
   base. After the target of a pull request was changed, or its merge base moved, a file
   that is the same at both heads but was not part of the change before is left out and
   reported unchanged, though no run ever reviewed it. `--full` reviews it.
5. `attempt_rerun`: an agent whose model failed in its first turn is told to finish;
   when it does, the first turn's error makes the next model review it all again.

Seen while modelling, without a run of their own:

- A call can fail without a request although a model it left out for its open circuit
  has quota (`models.ts:78-82`). A half-open model is let through to every call that
  asks, not to one attempt (`models.ts:57-58, 85`). Failures of attempts that began
  before a circuit opened can open it again for twice as long (`models.ts:102`).
- The report names the review share also when the last report of the last task reached
  it and nothing was stopped (`spend-limit.ts:38-39, 72`). The judge's call is not
  charged (`check-stage.ts:71`, `judge.ts:63`, ADR-0015).
- A runtime whose stream of events ends without saying how the task ended counts as one
  whose agent called the done tool (`task.ts:57`, `coverage.ts:35`), against the comment
  at `coverage.ts:25-26`. Neither runtime of the repository ends so while its task runs.
- When the messages of a session cannot be read after the request to finish, the findings
  of both its turns are lost and the attempt is one that stopped early
  (`session-prompt.ts:155-156, 248-250`); `Attempt` asks for none of them.
- A process that goes on without the lock, or whose lock was judged dead by its age, may
  write its pair over a newer one between `client.ts:301` and `:304`. `SavedIsCurrent`
  and `SessionKept` except it.
- A lock or claim that cannot be removed stays, and nobody hears of it
  (`file-lock.ts:193-206`); the next process waits until it is stale.
- A critical finding Verify could not check makes its own run incomplete, but not the
  next one that carries it over (`assemble-report.ts:75`, ADR-0032). The judge may raise
  an unchecked warning to critical without the run counting as incomplete.
- The thread of a comment whose run died before it wrote the summary does not dismiss
  its finding while no reviewer repeats it (`review.ts:237`).
- An index that a group of the grouping model repeats puts a file twice into a bundle,
  and such bundles are not kept by `--resume` (`bundle.ts:74`, against
  `bundle.test.ts:75`). With the correctness reviewer disabled, "every file keeps its
  first reviewer" (`matrix.ts`) does not hold.
- `anchorFinding` does not catch a failing `readFile` (`anchor.ts:83`) where
  `execute.ts:262-264` catches the same read: the stage rejects while other workers go
  on, and after `executeRun` disposed of the runtime (`execute-run.ts:242-247`) a later
  attempt launches OpenCode again, which nobody disposes of (`runtime.ts:246`), against
  `security.mdx:22`.
- A first Ctrl-C or SIGTERM while the runtime is disposed of or the report is written
  meets no listener, so there is no report, although `cli.mdx:131` says the partial
  report is still printed. A second one during the server's start leaves its directory,
  and on SIGTERM the child, though `runtime.ts:283-286` says it stops them.
- A request for changes lost after a 422 is dropped until the next run
  (`adapter.ts:221-224`). The finding of a comment somebody deleted is shown nowhere
  while the state says it has one. An earlier request stays if `requestChanges` is
  turned off.
- A blank line that was added does not make a match an added one: `nonBlank` drops it
  first (`match.ts:78, 89-91, 114-116`), so of two places of a quote, one of them around
  an added blank line, neither wins. `AnchoredTruly` counts the added lines that say
  something.
- An evaluation killed between the session log and the result, or whose log could not
  be kept, leaves a log that is not the result's (`runner.ts:150-163, 236-252`). What a
  retried review cost before is not in `spent`, so the budget may be exceeded by more
  than one review over several invocations (`runner.ts:70-97`). A review without a
  report counts as costing nothing.
- `ocra plugins allow` killed while it writes `plugins.json` leaves it torn, and
  `readAllowed` then throws outside `loadAllowedPlugins`'s `try` (`load.ts:51-59`).
- After a publish that failed, `release.mjs` run again at a new commit publishes the
  rest from another commit while it says "from HEAD" (`release.mjs:308-309`).

## Not modelled, and why

Parsing, matching and rendering of text (globs, rules, prompts, SARIF, comments):
sequential and covered by unit tests; where a decision depends on the outcome, the
outcome is a parameter or any of the possible ones. The plugin host emits
synchronously and nothing re-enters it. Merging settings, the account plugins' store
and the scripts are input, output and tooling. Of the evaluation, scoring and
statistics are offline arithmetic. Within the modelled parts: replies the judge
weighs, low-confidence findings of `--ultra`, `--no-verify`, resolving threads of
fixed findings, the renewal of the gateway's token, two runs on one pull request at
once, starting and stopping the OpenCode server.

## The plan

All modules of the plan are written; they were built in the order of the table
above, the failover and the execute stage first. What is left, in order:

1. Resolving the threads of fixed findings, and two runs that publish on one pull
   request at once, in `Delivery`.
2. The life of the command, its signals and the OpenCode server. A module of it had
   too many states for a run; what it showed is under "Seen while modelling".
3. The scoring of an evaluation, as functions checked against its definitions.
