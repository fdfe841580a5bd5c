------------------------------ MODULE DirectLoop ------------------------------
(***************************************************************************)
(* One attempt of a review task on the direct runtime (runtime-direct      *)
(* loop.ts, openai.ts): requests to an endpoint, each sent once more after *)
(* a failure a moment may cure, or without the effort it refused; the      *)
(* tools the model calls; one resumption of an agent that stopped early.   *)
(* The attempt's timeout and the task's signal may fire at any point.      *)
(***************************************************************************)
EXTENDS Naturals, Sequences, FiniteSets

CONSTANT LoopSteps   \* MAX_AGENT_STEPS

ASSUME LoopAssumption == LoopSteps \in Nat \ {0}

VARIABLES
  at,         \* ask, wait (before a retry), again (the retry), got, tools, ended
  effort,     \* the request carries an effort; "dropped": this one went without
  failure,    \* of the last send, while it matters
  answer,     \* of the last request
  loop,       \* outcome.steps, and whether it was resumed, wrote text, is done
  reported,   \* findings
  timedOut,
  calledOff,  \* the task's signal
  cameTo      \* the outcome

loopVars == <<at, effort, failure, answer, loop, reported, timedOut, calledOff, cameTo>>

\* What an endpoint may answer, and how it may fail: a dropped connection, a
\* 5xx, an answer that is no completion; a quota; credentials; a 400 that names
\* the effort; and the abort of the request.
Answers == [text : BOOLEAN, calls : {{}, {"other"}, {"finding"}, {"done"}, {"finding", "done"}}]
Failures == {"transient", "quota", "auth", "effort", "aborted"}
Nothing == [text |-> FALSE, calls |-> {}]

LoopAgent == [turn |-> loop.steps, findings |-> reported, done |-> loop.done,
          failed |-> FALSE,
          answered |-> loop.done \/ (at = "ended" /\ failure = "none")]

LoopAttempt == INSTANCE Attempt WITH MaxSteps <- LoopSteps, agent <- LoopAgent, outcome <- cameTo

\* With an effort: without one there is only less that can fail.
LoopInit ==
  /\ at = "ask" /\ effort = "sent"
  /\ failure = "none" /\ answer = Nothing
  /\ loop = [steps |-> 0, resumed |-> FALSE, text |-> FALSE, done |-> FALSE]
  /\ reported = 0
  /\ timedOut = FALSE /\ calledOff = FALSE
  /\ cameTo = LoopAttempt!NoOutcome

Aborted == timedOut \/ calledOff

OutOfTime ==
  /\ at # "ended" /\ ~timedOut
  /\ timedOut' = TRUE
  /\ UNCHANGED <<at, effort, failure, answer, loop, reported, calledOff, cameTo>>

CancelLoop ==
  /\ at # "ended" /\ ~calledOff
  /\ calledOff' = TRUE
  /\ UNCHANGED <<at, effort, failure, answer, loop, reported, timedOut, cameTo>>

-----------------------------------------------------------------------------
(* chat: one request.  It takes a step however often it is sent. *)

Gets(a, f) == answer' = a /\ failure' = f /\ at' = "got"

Answered ==
  /\ at \in {"ask", "again"} /\ ~Aborted
  /\ \E a \in Answers : Gets(a, "none")
  /\ UNCHANGED <<effort, loop, reported, timedOut, calledOff, cameTo>>

\* An abort may also cut an answer short, which then is no completion.
Fails ==
  /\ at \in {"ask", "again"}
  /\ \E f \in Failures :
       /\ f = "aborted" => Aborted
       /\ f \in {"quota", "auth", "effort"} => ~Aborted
       /\ f = "effort" => effort = "sent"
       /\ CASE f = "effort" ->
                 at' = "ask" /\ effort' = "dropped" /\ UNCHANGED <<answer, failure>>
            [] f = "transient" /\ at = "ask" ->
                 at' = "wait" /\ failure' = f /\ UNCHANGED <<answer, effort>>
            [] OTHER -> Gets(Nothing, f) /\ UNCHANGED effort
  /\ UNCHANGED <<loop, reported, timedOut, calledOff, cameTo>>

\* TRANSIENT_RETRY_MS: nothing is sent again once the signal is aborted.
Retry ==
  /\ at = "wait"
  /\ IF Aborted THEN Gets(Nothing, failure) ELSE at' = "again" /\ UNCHANGED <<answer, failure>>
  /\ UNCHANGED <<effort, loop, reported, timedOut, calledOff, cameTo>>

-----------------------------------------------------------------------------
(* runLoop *)

LoopEnding(l) ==
  IF l.done THEN "done" ELSE IF l.steps >= LoopSteps THEN "step_cap" ELSE "stopped_early"

Finishes(l, found) ==
  /\ at' = "ended"
  /\ cameTo' = [ending |-> LoopEnding(l), retryable |-> FALSE, findings |-> found, read |-> "all"]

\* The effort a request refused is left out of the rest.
Kept == IF effort = "dropped" THEN "none" ELSE effort
Stepped == [loop EXCEPT !.steps = @ + 1, !.text = @ \/ answer.text]

\* Whatever failed, an attempt past its time timed out: that may be retried.
\* A cancelled one may not.
RequestFailed ==
  /\ at = "got" /\ failure # "none"
  /\ loop' = [loop EXCEPT !.steps = @ + 1]
  /\ effort' = Kept
  /\ at' = "ended"
  /\ cameTo' = [ending |-> "error", findings |-> reported, read |-> "all",
                 retryable |-> timedOut \/ failure \in {"transient", "quota"}]
  /\ UNCHANGED <<failure, answer, reported, timedOut, calledOff>>

\* An answer without tool calls ends the attempt, or stops it early.
NoCalls ==
  /\ at = "got" /\ failure = "none" /\ answer.calls = {}
  /\ IF ~loop.resumed /\ ~Stepped.text /\ Stepped.steps < LoopSteps
     THEN at' = "ask" /\ loop' = [Stepped EXCEPT !.resumed = TRUE] /\ UNCHANGED cameTo
     ELSE loop' = Stepped /\ Finishes(Stepped, reported)
  /\ effort' = Kept
  /\ UNCHANGED <<failure, answer, reported, timedOut, calledOff>>

ToolCalls ==
  /\ at = "got" /\ failure = "none" /\ answer.calls # {}
  /\ at' = "tools" /\ loop' = Stepped /\ effort' = Kept
  /\ UNCHANGED <<failure, answer, reported, timedOut, calledOff, cameTo>>

\* Mutant: an agent that is done is asked again while it has steps.
AsksOn(l) == l.steps < LoopSteps

Continues(l) == ~l.done /\ l.steps < LoopSteps

\* The tools are run whatever the signal says; a failing one is told to the
\* model.  A finding whose arguments are no finding is not reported.
RunTools ==
  /\ at = "tools"
  /\ reported' \in {reported, reported + (IF "finding" \in answer.calls THEN 1 ELSE 0)}
  /\ loop' = [loop EXCEPT !.done = @ \/ "done" \in answer.calls]
  /\ IF Continues(loop') THEN at' = "ask" /\ UNCHANGED cameTo ELSE Finishes(loop', reported')
  /\ UNCHANGED <<effort, failure, answer, timedOut, calledOff>>

LoopNext ==
  \/ OutOfTime \/ CancelLoop
  \/ Answered \/ Fails \/ Retry
  \/ RequestFailed \/ NoCalls \/ ToolCalls \/ RunTools
LoopSpec == LoopInit /\ [][LoopNext]_loopVars

-----------------------------------------------------------------------------
\* The contract, at every timeout and cancellation: see Attempt.
LoopTellsTrue == LoopAttempt!Spec
=============================================================================
