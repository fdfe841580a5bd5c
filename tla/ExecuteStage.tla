------------------------------ MODULE ExecuteStage ------------------------------
(***************************************************************************)
(* The execute stage of a review: the cells of the matrix run as agent     *)
(* tasks, Concurrency at a time, within the run's signal and its spend     *)
(* limit.  packages/core/src/pipeline/execute-stage.ts, execute.ts,        *)
(* task.ts, resume.ts and agent/pool.ts.                                   *)
(*                                                                         *)
(* A cell's phase:                                                         *)
(*   "waiting"    no worker took it yet                                    *)
(*   "taken"      a worker awaits reuseJob, which found no earlier answer  *)
(*   "callers"    under --ultra: it awaits findCallers                     *)
(*   "planning"   its plan call is under way; "sharing": it awaits the     *)
(*                plan call of an earlier cell                             *)
(*   "running"    its agent runs, the task reads the agent's events        *)
(*   "stopping"   the task was aborted and waits out the grace period for  *)
(*                what the agent still delivers (collectAfterAbort)        *)
(*   "anchoring"  its findings are anchored; "relocating": a relocation    *)
(*                call is under way                                        *)
(*   "finished"                                                            *)
(* An abort rejects the read of every running task before anything else    *)
(* runs, so the step that aborts also moves those tasks to "stopping".     *)
(***************************************************************************)
EXTENDS SpendLimit, FiniteSets, Functions

CONSTANTS
  N,               \* cells of the matrix, in plan order
  Concurrency,     \* settings.concurrency
  Questions,       \* task keys
  Question,        \* per cell: its task key; --ultra's two samples share one
  PlanKeys,        \* keys of plan calls
  PlanKey,         \* per cell: the key of its plan call, or NoPlan
  NoPlan,
  Ultra,           \* settings.ultra
  Earlier,         \* per task key: completed tasks of the resumed run
  Costs,           \* what one usage report may cost
  MaxReports,      \* bound: usage reports of one task
  MaxRelocations   \* bound: relocation calls of one task

Cells == 1..N

ASSUME StageAssumption ==
  /\ N \in Nat /\ Concurrency \in Nat \ {0}
  /\ Question \in [Cells -> Questions]
  /\ PlanKey \in [Cells -> PlanKeys \cup {NoPlan}] /\ NoPlan \notin PlanKeys
  /\ Ultra \in BOOLEAN /\ (Ultra => \A c \in Cells : PlanKey[c] # NoPlan)
  /\ Earlier \in [Questions -> Nat]
  /\ Costs \subseteq Nat
  /\ MaxReports \in Nat /\ MaxRelocations \in Nat

VARIABLES
  phase,
  status,       \* per cell: its outcome's status and error; see Statuses
  cancelled,    \* the run's signal: a cancelled run, or the run's timeout
  cause,        \* what aborted the tasks' signal first: "none", "limit" or "run"
  pool,         \* reusePool: earlier answers nobody took yet, per task key
  plans,        \* per plan key: the cell that made the call, or 0
  usage,        \* per cell: what its outcome says it spent
  reports,      \* per cell: usage reports read
  relocations,  \* per cell: relocation calls made
  relocated,    \* what the relocation calls spent
  answered,     \* history: how the agent said its task ended, "silent" if its
                \* events just ended, or "reused"
  planOf        \* history: the cell whose bundle the plan in c's prompt is about, or 0

taskVars == <<usage, reports, relocations, relocated, answered>>
vars == <<spendVars, phase, status, cancelled, cause, pool, plans, taskVars, planOf>>

Phases == {"waiting", "taken", "callers", "planning", "sharing", "running", "stopping",
           "anchoring", "relocating", "finished"}

\* A TaskStatus and what else the outcome tells.  "cut" is completed with `ended`;
\* the last four are "cancelled": by the run or by the spend limit, while the task
\* ran or before it started.
Statuses == {"none", "completed", "cut", "failed", "timed_out",
             "cancelled", "stopped", "skipped", "refused"}

\* The cells skipCell answered.
NotStarted == {c \in Cells : status[c] \in {"skipped", "refused"}}

InProgress == {c \in Cells : phase[c] \notin {"waiting", "finished"}}
StageOver == \A c \in Cells : phase[c] = "finished"

Init ==
  /\ SpendInit
  /\ phase = [c \in Cells |-> "waiting"]
  /\ status = [c \in Cells |-> "none"]
  /\ cancelled = FALSE /\ cause = "none"
  /\ pool = Earlier
  /\ plans = [k \in PlanKeys |-> 0]
  /\ usage = [c \in Cells |-> 0]
  /\ reports = [c \in Cells |-> 0]
  /\ relocations = [c \in Cells |-> 0]
  /\ relocated = 0
  /\ answered = [c \in Cells |-> "none"]
  /\ planOf = [c \in Cells |-> 0]

--------------------------------------------------------------------------------
(* The signal the tasks run under *)

Move(c, to) == phase' = [phase EXCEPT ![c] = to]
Outcome(c, s) == status' = [status EXCEPT ![c] = s]
Add(f, c, n) == [f EXCEPT ![c] = f[c] + n]

\* The signal of executeOptions: the first abort gives the reason.
SignalAfter ==
  cause' = IF cause # "none" THEN cause
           ELSE IF stopped' THEN "limit" ELSE IF cancelled' THEN "run" ELSE "none"

\* mutant: the abort reaches only the task that caused or meets it
ProceedAlone(starting) ==
  LET live == cause' = "none"
  IN /\ phase' = [c \in Cells |->
           IF c \in starting THEN (IF live THEN "running" ELSE "stopping") ELSE phase[c]]
     /\ status' = [c \in Cells |->
           IF c \in starting /\ ~live THEN "stopped" ELSE status[c]]

\* The cells of `starting` call the runtime.  An aborted signal stops them, and
\* every running task, at once.
Proceed(starting) ==
  LET agents == starting \cup {c \in Cells : phase[c] = "running"}
      live == cause' = "none"
      ending == IF cause' = "limit" THEN "stopped" ELSE "cancelled"
  IN /\ phase' = [c \in Cells |->
           IF c \in agents THEN (IF live THEN "running" ELSE "stopping") ELSE phase[c]]
     /\ status' = [c \in Cells |-> IF c \in agents /\ ~live THEN ending ELSE status[c]]

--------------------------------------------------------------------------------
(* A worker takes the next cell *)

InAnyTurn(c) == phase[c] = "waiting" /\ Cardinality(InProgress) < Concurrency   \* mutant

InTurn(c) ==
  /\ phase[c] = "waiting"
  /\ \A d \in Cells : d < c => phase[d] # "waiting"
  /\ Cardinality(InProgress) < Concurrency

TakesAny(c) == TRUE   \* mutant: a key found once is found again

ReusableInShare(c) == pool[Question[c]] > 0 /\ ~Over(Share)   \* mutant: the limit comes first

Reusable(c) == pool[Question[c]] > 0

\* The run is over: skipCell.
Skip(c) ==
  /\ InTurn(c) /\ cancelled
  /\ Move(c, "finished") /\ Outcome(c, "skipped")
  /\ UNCHANGED <<spendVars, cancelled, cause, pool, plans, taskVars, planOf>>

\* reuseJob: the earlier findings are anchored again, at no other cost.
Reuse(c) ==
  /\ InTurn(c) /\ ~cancelled /\ Reusable(c)
  /\ pool' = [pool EXCEPT ![Question[c]] = pool[Question[c]] - 1]
  /\ Move(c, "anchoring") /\ Outcome(c, "completed")
  /\ answered' = [answered EXCEPT ![c] = "reused"]
  /\ UNCHANGED <<spendVars, cancelled, cause, plans, usage, reports, relocations,
                 relocated, planOf>>

\* reuseJob finds nothing; its caller goes on in a later turn.
Miss(c) ==
  /\ InTurn(c) /\ ~cancelled /\ ~Reusable(c)
  /\ Move(c, "taken")
  /\ UNCHANGED <<spendVars, status, cancelled, cause, pool, plans, taskVars, planOf>>

AnyTaken(c) == phase[c] = "taken"   \* mutant: the workers go on in any order

\* Each awaited one settled promise, so they go on in the order they came.
FirstTaken(c) == phase[c] = "taken" /\ \A d \in Cells : d < c => phase[d] # "taken"

\* mayStartReview refuses: skipCell.
Refuse(c) ==
  /\ FirstTaken(c)
  /\ RefuseReview
  /\ Move(c, "finished") /\ Outcome(c, "refused")
  /\ UNCHANGED <<cancelled, cause, pool, plans, taskVars, planOf>>

SharesWhenMade(c) ==   \* mutant: the plan is kept when the call ends, not when it is made
  plans[PlanKey[c]] # 0 /\ phase[plans[PlanKey[c]]] # "planning"

\* An earlier cell made the plan call, or is making it.
SharesPlan(c) == plans[PlanKey[c]] # 0

\* runJob, up to its next wait: the plan call, a plan call under way, or the agent.
Start(c) ==
  LET k == PlanKey[c] IN
  \/ k = NoPlan /\ Proceed({c}) /\ UNCHANGED <<plans, planOf>>
  \/ /\ k # NoPlan /\ ~SharesPlan(c)
     /\ plans' = [plans EXCEPT ![k] = c]
     /\ Move(c, "planning") /\ UNCHANGED <<status, planOf>>
  \/ /\ k # NoPlan /\ SharesPlan(c)
     /\ planOf' = [planOf EXCEPT ![c] = plans[k]]
     /\ UNCHANGED plans
     /\ \/ phase[plans[k]] = "planning" /\ Move(c, "sharing") /\ UNCHANGED status
        \/ phase[plans[k]] # "planning" /\ Proceed({c})

\* mayStartReview agrees.  --ultra first looks for the callers of what changed.
Admit(c) ==
  /\ FirstTaken(c) /\ ~Over(Share)
  /\ UNCHANGED <<spendVars, cancelled, cause, pool, taskVars>>
  /\ \/ Ultra /\ Move(c, "callers") /\ UNCHANGED <<status, plans, planOf>>
     \/ ~Ultra /\ Start(c)

\* findCallers ends, with what it found.
CallersFound(c) ==
  /\ phase[c] = "callers"
  /\ UNCHANGED <<spendVars, cancelled, cause, pool, taskVars>>
  /\ Start(c)

\* The plan call answers, or fails: the cell that made it pays, and its task and
\* those that share the plan begin.
PlanEnds(c) ==
  /\ phase[c] = "planning"
  /\ planOf' = [planOf EXCEPT ![c] = c]
  /\ UNCHANGED <<cancelled, pool, plans, reports, relocations, relocated, answered>>
  /\ \/ UNCHANGED <<spendVars, usage>>   \* a call that reports no usage
     \/ \E cost \in Costs : ChargeReview(cost) /\ usage' = Add(usage, c, cost)
  /\ SignalAfter
  /\ Proceed({c} \cup {d \in Cells : phase[d] = "sharing" /\ PlanKey[d] = PlanKey[c]})

--------------------------------------------------------------------------------
(* A task and its agent *)

\* A usage event, read by a running task or by one in its grace period.  The task
\* whose report uses up the review share stops all of them, itself included.
Report(c) ==
  /\ phase[c] \in {"running", "stopping"} /\ reports[c] < MaxReports
  /\ reports' = Add(reports, c, 1)
  /\ UNCHANGED <<cancelled, pool, plans, relocations, relocated, answered, planOf>>
  /\ \E cost \in Costs : ChargeReview(cost) /\ usage' = Add(usage, c, cost)
  /\ SignalAfter
  /\ Proceed({})

\* In the grace period a done event only counts when the spend limit stopped the run.
Counts(c) == phase[c] = "running" \/ cause = "limit"

\* The done event, with `ended` or without.
Done(c, ending) ==
  /\ phase[c] \in {"running", "stopping"}
  /\ answered' = [answered EXCEPT ![c] = ending]
  /\ Move(c, "anchoring")
  /\ Outcome(c, IF Counts(c) THEN ending ELSE status[c])
  /\ UNCHANGED <<spendVars, cancelled, cause, pool, plans, usage, reports, relocations,
                 relocated, planOf>>

\* The events end without a done or an error: the task counts as completed, unless
\* it is being stopped.
EndSilently(c) ==
  /\ phase[c] \in {"running", "stopping"}
  /\ Move(c, "anchoring")
  /\ \/ /\ phase[c] = "running"
        /\ Outcome(c, "completed") /\ answered' = [answered EXCEPT ![c] = "silent"]
     \/ phase[c] = "stopping" /\ UNCHANGED <<status, answered>>
  /\ UNCHANGED <<spendVars, cancelled, cause, pool, plans, usage, reports, relocations,
                 relocated, planOf>>

\* An error event or an exception.
Fail(c) ==
  /\ phase[c] \in {"running", "stopping"}
  /\ Move(c, "anchoring")
  /\ Outcome(c, IF phase[c] = "running" THEN "failed" ELSE status[c])
  /\ UNCHANGED <<spendVars, cancelled, cause, pool, plans, taskVars, planOf>>

TimeOut(c) ==
  /\ phase[c] = "running"
  /\ Move(c, "stopping") /\ Outcome(c, "timed_out")
  /\ UNCHANGED <<spendVars, cancelled, cause, pool, plans, taskVars, planOf>>

NoGrace(c) == FALSE   \* mutant: waits for the agent however long it takes

GraceOver(c) ==
  /\ phase[c] = "stopping"
  /\ Move(c, "anchoring")
  /\ UNCHANGED <<spendVars, status, cancelled, cause, pool, plans, taskVars, planOf>>

\* A finding's quote did not match: a light model is asked, while the whole limit
\* lasts.
Relocate(c) ==
  /\ phase[c] = "anchoring" /\ relocations[c] < MaxRelocations
  /\ MayCall
  /\ Move(c, "relocating")
  /\ relocations' = Add(relocations, c, 1)
  /\ UNCHANGED <<spendVars, status, cancelled, cause, pool, plans, usage, reports,
                 relocated, answered, planOf>>

RelocationEnds(c) ==
  /\ phase[c] = "relocating"
  /\ Move(c, "anchoring")
  /\ \E cost \in Costs \cup {0} : Charge(cost) /\ relocated' = relocated + cost
  /\ UNCHANGED <<status, cancelled, cause, pool, plans, usage, reports, relocations,
                 answered, planOf>>

Finish(c) ==
  /\ phase[c] = "anchoring"
  /\ Move(c, "finished")
  /\ UNCHANGED <<spendVars, status, cancelled, cause, pool, plans, taskVars, planOf>>

\* The caller's signal or the run's timeout.
Cancel ==
  /\ ~StageOver /\ ~cancelled
  /\ cancelled' = TRUE
  /\ UNCHANGED <<spendVars, pool, plans, taskVars, planOf>>
  /\ SignalAfter
  /\ Proceed({})

Take(c) == Skip(c) \/ Reuse(c) \/ Miss(c)
Begin(c) == Refuse(c) \/ Admit(c) \/ CallersFound(c)
AgentEvent(c) ==
  Report(c) \/ Done(c, "completed") \/ Done(c, "cut") \/ EndSilently(c) \/ Fail(c)

Next ==
  \/ \E c \in Cells :
       \/ Take(c) \/ Begin(c) \/ PlanEnds(c)
       \/ AgentEvent(c) \/ TimeOut(c) \/ GraceOver(c)
       \/ Relocate(c) \/ RelocationEnds(c) \/ Finish(c)
  \/ Cancel

Spec == Init /\ [][Next]_vars

\* Workers take cells and go on with them, timers fire, and searches and plain
\* completions end, by their own timeout at the latest.  Nothing is assumed of the agents: one may stay silent for ever.
FairSpec ==
  /\ Spec
  /\ \A c \in Cells :
       /\ WF_vars(Take(c)) /\ WF_vars(Begin(c)) /\ WF_vars(PlanEnds(c))
       /\ WF_vars(TimeOut(c)) /\ WF_vars(GraceOver(c))
       /\ WF_vars(RelocationEnds(c)) /\ WF_vars(Finish(c))

--------------------------------------------------------------------------------
(* Properties *)

\* The variables keep their types; no key is taken from the pool more often than it holds.
StageTypeOK ==
  /\ spent \in Nat /\ stopped \in BOOLEAN /\ refused \in BOOLEAN
  /\ phase \in [Cells -> Phases]
  /\ status \in [Cells -> Statuses]
  /\ cancelled \in BOOLEAN /\ cause \in {"none", "limit", "run"}
  /\ pool \in [Questions -> Nat]
  /\ plans \in [PlanKeys -> Cells \cup {0}]
  /\ usage \in [Cells -> Nat] /\ reports \in [Cells -> 0..MaxReports]
  /\ relocations \in [Cells -> 0..MaxRelocations] /\ relocated \in Nat
  /\ answered \in [Cells -> {"none", "completed", "cut", "silent", "reused"}]
  /\ planOf \in [Cells -> Cells \cup {0}]

\* What the report sums up is what the spend limit counted: a shared plan is paid
\* once, what a stopped task still reports is in both, a reused task is in neither
\* (execute-stage.ts:106-109, 126, 97; execute.ts:219-222; task.ts:144-147).
SpendAccounted == spent = Planned + relocated + SumFunction(usage)

\* No agent runs on once the run or its limit has stopped it, an agent that waited
\* for its plan call meanwhile included; and the reason is the one that came first.
StoppedRunsStop == cause # "none" => \A c \in Cells : phase[c] # "running"

\* An answer of the resumed run is used before anything is paid or refused for the
\* same question (ADR-0031, decision 5; execute-stage.ts:75-82).
EarlierAnswersFirst ==
  \A c \in Cells :
    phase[c] # "waiting" /\ answered[c] # "reused" /\ status[c] # "skipped"
      => pool[Question[c]] = 0

\* Under a spend limit cells finish in plan order: one that was refused is followed
\* by no cell that may spend, whether taken later or waiting for its own check
\* (ADR-0015, decision 1).
RefusedInPlanOrder ==
  \A c, d \in Cells :
    c < d /\ status[c] = "refused" /\ phase[d] \notin {"waiting", "taken"}
      /\ answered[d] # "reused"
      => status[d] \in {"refused", "skipped"} /\ usage[d] = 0

\* Money goes by the plan: the two above.
PlanOrderKept == EarlierAnswersFirst /\ RefusedInPlanOrder

\* --ultra's two samples share one plan call: a cell that awaits or uses another's
\* made none itself, however the searches for callers before it end
\* (execute.ts:37, 212-222).
OnePlanCall ==
  \A c, d \in Cells :
    c # d /\ PlanKey[c] = PlanKey[d] => ~(planOf[c] = c /\ planOf[d] = d)

\* A stop is final, of a run and of each task: whatever agents waited for, finish
\* or still deliver, none runs on and none is made good (task.ts:40-120).
StopIsFinal ==
  [][/\ StoppedRunsStop'
     /\ \A c \in Cells : status[c] = "cancelled" => status'[c] = "cancelled"]_vars

\* The report names the limit whenever the limit stopped a task or kept one from
\* starting, however the rest of the stage went on (spend-limit.ts:38-42, 68-76).
LimitExplained ==
  StageOver /\ (\E c \in Cells : status[c] \in {"stopped", "refused"}) => Reached # "none"

\* The stage ends, even when an agent ignores its abort and answers nothing
\* (task.ts:90-94, 185-186).
StageEnds == <>StageOver

--------------------------------------------------------------------------------
(* What a comment of the code says, and the code does not do *)

\* execute.ts:37, "One plan per reviewer and bundle": a task's plan is about the
\* task's own bundle.
PlanOfOwnBundle ==
  \A c \in Cells : planOf[c] # 0 => Question[planOf[c]] = Question[c]
================================================================================
