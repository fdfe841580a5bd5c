------------------------------- MODULE Attempt -------------------------------
(***************************************************************************)
(* What a runtime owes the failover for one attempt of a review task on    *)
(* one model, whichever runtime ran it (core/runtime/attempt.ts,           *)
(* ModelAttempts in chain-runner.ts): an agent works, and the attempt ends *)
(* with an outcome that is true of it.                                     *)
(***************************************************************************)
EXTENDS Naturals

CONSTANT MaxSteps   \* MAX_AGENT_STEPS

VARIABLES
  agent,    \* what it did: steps of its last turn, findings, and whether it
            \* called task_done, had its model fail, and gave the last answer
  outcome   \* what the runtime says it came to, or NoOutcome

NoOutcome == [ending |-> "none", retryable |-> FALSE, findings |-> 0, read |-> "all"]

Agents == [turn : Nat, findings : Nat, done : BOOLEAN, failed : BOOLEAN, answered : BOOLEAN]

\* read: whether the runtime could read all, some or none of what was done.
Outcomes == [ending : {"done", "step_cap", "stopped_early", "error"},
             retryable : BOOLEAN, findings : Nat, read : {"all", "some", "none"}]

Init ==
  /\ agent = [turn |-> 0, findings |-> 0, done |-> FALSE, failed |-> FALSE, answered |-> FALSE]
  /\ outcome = NoOutcome

Goes ==
  /\ agent' \in Agents
  /\ agent'.findings >= agent.findings
  /\ agent.done => agent'.done
  /\ agent.failed => agent'.failed

\* It may even go on after it was given up.
Works == Goes /\ UNCHANGED outcome

\* attemptEnding: a finished review is one whose agent said so, and all that
\* it reported is there; "step_cap" and "stopped_early" are said of agents that
\* did not.  What was answered is not run again unless its model failed.
Owed(o, a) ==
  /\ o \in Outcomes
  /\ o.findings <= a.findings
  /\ o.read = "all" => o.findings = a.findings
  /\ o.ending = "done" => a.done /\ o.read # "none"
  /\ o.ending \in {"step_cap", "stopped_early"} => ~a.done \/ o.read # "all"
  /\ o.ending = "step_cap" => a.turn >= MaxSteps
  /\ o.retryable => o.ending = "error" /\ (~a.answered \/ a.failed)

Ends == outcome = NoOutcome /\ Goes /\ Owed(outcome', agent')

Spec == Init /\ [][Works \/ Ends]_<<agent, outcome>>
=============================================================================
