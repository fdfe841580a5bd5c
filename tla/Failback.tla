-------------------------------- MODULE Failback --------------------------------
(***************************************************************************)
(* Calls of one runtime instance that fail over along their model chains   *)
(* and share one ModelHealth: review tasks (withFailback, an async         *)
(* generator) and completions (completeWithFailback).                      *)
(* packages/core/src/runtime/failback.ts, chain-runner.ts.                 *)
(*                                                                         *)
(* JavaScript runs one continuation at a time, so an action is what runs   *)
(* between two points where the code gives control away: an await, or a    *)
(* yield of the generator.  pc names the point a call is suspended at:     *)
(*   "idle"       not called yet, or the runtime is not ready yet          *)
(*   "top"        the yield after a failed attempt ("trying the next ...") *)
(*   "limited"    the yield before a pause ("... is rate limited")         *)
(*   "asleep"     the sleep of pauseOver                                   *)
(*   "woken"      pauseOver has returned; its caller has not run yet       *)
(*   "announced"  the yield before an attempt ("reviewing with ...")       *)
(*   "attempting" the attempt                                              *)
(*   "reporting"  the yields of what the attempt spent and found           *)
(* and in the end "done" (an answer), "fatal" (a non-retryable error),     *)
(* "exhausted" (an error of the whole chain) or "cancelled".               *)
(***************************************************************************)
EXTENDS ModelHealth

CONSTANTS
  Reviews,      \* calls of withFailback
  Completions,  \* calls of completeWithFailback
  Chain         \* per call: its models, first choice first, none repeated

Calls == Reviews \cup Completions

ASSUME CallsAssumption ==
  /\ Reviews \cap Completions = {}
  /\ Chain \in [Calls -> Seq(Models)]

VARIABLES
  pc,
  rest,     \* models still to try, the current one first
  sleep,    \* time left of the timer an "asleep" call waits on
  aborted,  \* the call's signal
  outcome,  \* what the attempt came to, while the call is "reporting"
  tried,    \* models whose attempt failed; {} is lastError = ""
  passed,   \* history: models left out because their circuit was open
  began     \* history: its model's circuit when the last attempt began, or "never"

callVars == <<pc, rest, sleep, aborted, outcome, tried, passed, began>>
vars == <<healthVars, callVars>>

Ended == {"done", "fatal", "exhausted", "cancelled"}
AtModel == {"limited", "asleep", "woken", "announced", "attempting", "reporting"}

Outcomes == [kind : {"ok", "fatal", "failure"}]
              \cup [kind : {"limit"}, quota : QuotaErrors]
NoOutcome == [kind |-> "none"]

Init ==
  /\ HealthInit
  /\ pc = [c \in Calls |-> "idle"]
  /\ rest = [c \in Calls |-> <<>>]
  /\ sleep = [c \in Calls |-> 0]
  /\ aborted = [c \in Calls |-> FALSE]
  /\ outcome = [c \in Calls |-> NoOutcome]
  /\ tried = [c \in Calls |-> {}]
  /\ passed = [c \in Calls |-> {}]
  /\ began = [c \in Calls |-> "never"]

Goto(c, label) == pc' = [pc EXCEPT ![c] = label]
Keep(c, models) == rest' = [rest EXCEPT ![c] = models]

--------------------------------------------------------------------------------
(* The head of the two loops.  They run on after a health update of the     *)
(* same step, so they read the health as that step leaves it.               *)

\* pauseOver's test, on entering it and on each waking.
PauseOver(c, m) ==
  IF quota'[m].pause > 0 /\ ~aborted[c] /\ m \notin outOfQuota'
    THEN Goto(c, "asleep") /\ sleep' = [sleep EXCEPT ![c] = quota'[m].pause]
    ELSE Goto(c, "woken") /\ UNCHANGED sleep

SkipsPaused(m) == m \in outOfQuota' \/ quota'[m].pause > 0   \* mutant

\* A review passes over a model at once when it is out of quota and not paused;
\* a paused one it first waits for.
PassedOver(m) == m \in outOfQuota' /\ quota'[m].pause = 0

ReviewNext(c, models) ==
  /\ UNCHANGED sleep
  /\ \/ /\ aborted[c] /\ models # <<>>
        /\ Goto(c, "cancelled") /\ Keep(c, models)
     \/ /\ ~aborted[c] \/ models = <<>>
        /\ \A i \in DOMAIN models : PassedOver(models[i])
        /\ Goto(c, "exhausted") /\ Keep(c, <<>>)
     \/ /\ ~aborted[c]
        /\ \E i \in DOMAIN models :
             /\ ~PassedOver(models[i])
             /\ \A j \in 1..(i - 1) : PassedOver(models[j])
             /\ Keep(c, SubSeq(models, i, Len(models)))
             /\ Goto(c, IF quota'[models[i]].pause > 0 THEN "limited" ELSE "announced")

CompletionNext(c, models) ==
  /\ Keep(c, models)
  /\ \/ models = <<>> /\ Goto(c, "exhausted") /\ UNCHANGED sleep
     \/ models # <<>> /\ PauseOver(c, Head(models))

GoOn(c, models) ==
  \/ c \in Reviews /\ ReviewNext(c, models)
  \/ c \in Completions /\ CompletionNext(c, models)

--------------------------------------------------------------------------------
(* The steps of a call *)

\* mutant: each call keeps a health of its own
BeginAfresh(c) ==
  /\ pc[c] = "idle"
  /\ Chain[c] # <<>>
  /\ circuit' = [m \in Models |-> NewCircuit]
  /\ quota' = [m \in Models |-> NewQuota]
  /\ outOfQuota' = {}
  /\ UNCHANGED <<streak, aborted, outcome, tried, passed, began>>
  /\ \E models \in Orders(Chain[c]) : GoOn(c, models)

\* runTask, complete: the chain is read once.
Begin(c) ==
  /\ pc[c] = "idle"
  /\ Chain[c] # <<>>
  /\ UNCHANGED <<healthVars, aborted, outcome, tried, began>>
  /\ passed' = [passed EXCEPT ![c] = Usable(Range(Chain[c])) \ Candidates(Range(Chain[c]))]
  /\ \E models \in Orders(Chain[c]) : GoOn(c, models)

\* A call without a model ends before any request, and so may any other: the
\* runtime refuses its chain, or does not become ready.
Refuse(c) ==
  /\ pc[c] = "idle"
  /\ Goto(c, "fatal")
  /\ UNCHANGED <<healthVars, rest, sleep, aborted, outcome, tried, passed, began>>

TryNext(c) ==
  /\ pc[c] = "top"
  /\ UNCHANGED <<healthVars, aborted, outcome, tried, passed, began>>
  /\ GoOn(c, rest[c])

EnterPause(c) ==
  /\ pc[c] = "limited"
  /\ UNCHANGED <<healthVars, rest, aborted, outcome, tried, passed, began>>
  /\ PauseOver(c, Head(rest[c]))

Wake(c) ==
  /\ pc[c] = "asleep"
  /\ sleep[c] = 0 \/ aborted[c]
  /\ UNCHANGED <<healthVars, rest, aborted, outcome, tried, passed, began>>
  /\ PauseOver(c, Head(rest[c]))

StartAttempt(c) ==
  /\ Goto(c, "attempting")
  /\ began' = [began EXCEPT ![c] = CircuitState(Head(rest[c]))]
  /\ UNCHANGED <<rest, sleep>>

AfterPause(c) ==
  /\ pc[c] = "woken"
  /\ UNCHANGED <<healthVars, aborted, outcome, tried, passed>>
  /\ \/ /\ aborted[c]
        /\ Goto(c, "cancelled")
        /\ UNCHANGED <<rest, sleep, began>>
     \/ /\ ~aborted[c] /\ Head(rest[c]) \in outOfQuota
        /\ GoOn(c, Tail(rest[c]))
        /\ UNCHANGED began
     \/ /\ ~aborted[c] /\ Head(rest[c]) \notin outOfQuota
        /\ \/ c \in Reviews /\ Goto(c, "announced") /\ UNCHANGED <<rest, sleep, began>>
           \/ c \in Completions /\ StartAttempt(c)

StartReview(c) ==
  /\ pc[c] = "announced"
  /\ StartAttempt(c)
  /\ UNCHANGED <<healthVars, aborted, outcome, tried, passed>>

\* The attempt failed for good on this model.
GiveUp(c) ==
  /\ tried' = [tried EXCEPT ![c] = @ \cup {Head(rest[c])}]
  /\ \/ c \in Reviews /\ Goto(c, "top") /\ Keep(c, Tail(rest[c])) /\ UNCHANGED sleep
     \/ c \in Completions /\ GoOn(c, Tail(rest[c]))

\* Only a review looks at its signal before it blames the model.
Cancelled(c) == c \in Reviews /\ aborted[c]

\* What the code does with an outcome.
Conclude(c, o) ==
  LET m == Head(rest[c])
      finished(label) == Goto(c, label) /\ UNCHANGED <<rest, sleep, tried>>
  IN \/ o.kind = "ok" /\ RecordSuccess(m) /\ finished("done")
     \/ /\ o.kind # "ok" /\ Cancelled(c)
        /\ UNCHANGED healthVars /\ finished("cancelled")
     \/ /\ ~Cancelled(c)
        /\ \/ o.kind = "fatal" /\ UNCHANGED healthVars /\ finished("fatal")
           \/ o.kind = "failure" /\ RecordFailure(m) /\ GiveUp(c)
           \/ o.kind = "limit" /\ RunsOut(m, o.quota) /\ RecordQuota(m, o.quota) /\ GiveUp(c)
           \/ /\ o.kind = "limit" /\ ~RunsOut(m, o.quota)
              /\ RecordQuota(m, o.quota) /\ GoOn(c, rest[c]) /\ UNCHANGED tried

\* The runtime answers.  A review yields what it got before it concludes, a
\* completion concludes at once.
Answer(c, o) ==
  /\ pc[c] = "attempting"
  /\ UNCHANGED <<aborted, passed, began>>
  /\ \/ /\ c \in Reviews
        /\ Goto(c, "reporting") /\ outcome' = [outcome EXCEPT ![c] = o]
        /\ UNCHANGED <<healthVars, rest, sleep, tried>>
     \/ c \in Completions /\ Conclude(c, o) /\ UNCHANGED outcome

ConcludeReview(c) ==
  /\ pc[c] = "reporting"
  /\ Conclude(c, outcome[c])
  /\ outcome' = [outcome EXCEPT ![c] = NoOutcome]
  /\ UNCHANGED <<aborted, passed, began>>

Abort(c) ==
  /\ pc[c] \notin Ended /\ ~aborted[c]
  /\ aborted' = [aborted EXCEPT ![c] = TRUE]
  /\ UNCHANGED <<healthVars, pc, rest, sleep, outcome, tried, passed, began>>

\* The pipeline stops reading an aborted review (task.ts, iterator.return):
\* the generator ends at the yield it is at, whatever would have followed.
Abandon(c) ==
  /\ c \in Reviews /\ aborted[c]
  /\ pc[c] \in {"top", "limited", "announced", "reporting"}
  /\ Goto(c, "cancelled")
  /\ outcome' = [outcome EXCEPT ![c] = NoOutcome]
  /\ UNCHANGED <<healthVars, rest, sleep, aborted, tried, passed, began>>

Tick ==
  /\ \/ \E m \in Models : circuit[m].open > 0 \/ quota[m].pause > 0
     \/ \E c \in Calls : sleep[c] > 0
  /\ Elapse
  /\ sleep' = [c \in Calls |-> Left(sleep[c])]
  /\ UNCHANGED <<pc, rest, aborted, outcome, tried, passed, began>>

Step(c) ==
  \/ Begin(c) \/ Refuse(c) \/ TryNext(c) \/ EnterPause(c) \/ Wake(c)
  \/ AfterPause(c) \/ StartReview(c) \/ ConcludeReview(c)
  \/ \E o \in Outcomes : Answer(c, o)

Next == (\E c \in Calls : Step(c) \/ Abort(c) \/ Abandon(c)) \/ Tick

Spec == Init /\ [][Next]_vars

\* The event loop runs every pending continuation, an attempt ends by the
\* runtime's own timeout, and time passes; nobody has to abort or abandon a call.
FairSpec == Spec /\ WF_vars(Tick) /\ \A c \in Calls : WF_vars(Step(c))

--------------------------------------------------------------------------------
(* Properties *)

TypeOK ==
  /\ HealthTypeOK
  /\ pc \in [Calls -> Ended \cup AtModel \cup {"idle", "top"}]
  /\ rest \in [Calls -> Seq(Models)]
  /\ sleep \in [Calls -> 0..MaxQuotaWait]
  /\ aborted \in [Calls -> BOOLEAN]
  /\ outcome \in [Calls -> Outcomes \cup {NoOutcome}]
  /\ tried \in [Calls -> SUBSET Models]
  /\ passed \in [Calls -> SUBSET Models]
  /\ began \in [Calls -> {"never", "closed", "open", "half-open"}]

\* A call reports that every model failed only after each model of its chain
\* failed it, ran out of quota, or was left out for its open circuit when the
\* call began: none is lost while calls interleave (failback.ts:97-104, 220-223).
NoModelLost ==
  \A c \in Calls : pc[c] = "exhausted" =>
    Range(Chain[c]) \subseteq tried[c] \cup outOfQuota \cup passed[c]

\* A model is left out for its circuit only in favour of one that a call can
\* use, so no call begins with an empty list while a model has quota
\* (models.ts:77-81); seen at the moment a chain is read.
SkipsOnlyForAnother ==
  [][\A c \in Calls : pc[c] = "idle" /\ pc'[c] = "exhausted"
       => Range(Chain[c]) \subseteq outOfQuota]_vars

\* Every call ends, whatever limits, failures and pauses the calls cause each
\* other: no call waits for a pause that others keep renewing.
EveryCallEnds == \A c \in Calls : <>(pc[c] \in Ended)

================================================================================
