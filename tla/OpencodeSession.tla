--------------------------- MODULE OpencodeSession ---------------------------
(***************************************************************************)
(* One attempt of a review task on OpenCode (runtime-opencode              *)
(* session-prompt.ts, session-outcome.ts): the agent works in a session of *)
(* the server's; promptSession waits for it, polls it for signs of life,   *)
(* tells an agent that stopped early once to finish, and reads what was    *)
(* done from the session's messages.  Any request may fail, and a session  *)
(* that was cut off may go on.                                             *)
(***************************************************************************)
EXTENDS Naturals, Sequences, FiniteSets

CONSTANTS
  MaxSteps,   \* MAX_AGENT_STEPS
  MaxUnread   \* bound: messages in a shape ocra cannot read

ASSUME SessionAssumption == MaxSteps \in Nat \ {0} /\ MaxUnread \in Nat

VARIABLES
  doing,      \* create, prompt, read, again; harvest, the one more read; ended
  why,        \* of a harvest: final (no retry), resumed (no error), cut
  session,    \* the messages
  running,    \* the server runs a turn
  start,      \* messages there were when the turn began
  before,     \* steps of the first turn, as read
  news,       \* something changed since the last poll
  silent,     \* watchActivity gave up
  aborted,  \* the task's signal
  replied,   \* the turn's answer came back
  cameOut     \* of the attempt, or NoOutcome

sessionVars == <<doing, why, session, running, start, before, news, silent, aborted, replied, cameOut>>

\* A message of the agent: a step that reports a finding, calls task_done,
\* writes an answer or does none of it, or its model's error.
Messages == [what : {"step", "finding", "done", "text", "error", "auth"}, readable : BOOLEAN]
Errors == {"error", "auth"}

\* Messages are counted by where they are in the session: all of them, those of
\* the last turn, those that ocra can read.
All == DOMAIN session
Turn == (start + 1)..Len(session)
Known == {i \in All : session[i].readable}
Count(at, kinds) == Cardinality({i \in at : session[i].what \in kinds})
Steps(at) == Count(at, {"step", "finding", "done", "text"})

\* What the agent did, for the contract.
Agent == [turn |-> Steps(Turn), findings |-> Count(All, {"finding"}),
          done |-> Count(All, {"done"}) > 0, failed |-> Count(All, Errors) > 0,
          answered |-> replied]

Attempt == INSTANCE Attempt WITH agent <- Agent, outcome <- cameOut

SessionInit ==
  /\ doing = "create" /\ why = "none"
  /\ session = <<>> /\ running = FALSE /\ start = 0 /\ before = 0
  /\ news = FALSE /\ silent = FALSE /\ aborted = FALSE /\ replied = FALSE
  /\ cameOut = Attempt!NoOutcome

-----------------------------------------------------------------------------
(* The server, and the world *)

AgentStep ==
  /\ running
  /\ Count(Turn, Errors) = 0
  /\ \E m \in Messages :
       /\ m.what \notin Errors => Steps(Turn) < MaxSteps
       /\ ~m.readable => Cardinality(All \ Known) < MaxUnread
       /\ session' = Append(session, m)
       /\ news' = (news \/ m.readable)
  /\ UNCHANGED <<doing, why, running, start, before, silent, aborted, replied, cameOut>>

\* session.abort reaches the server, or the turn ends there unheard.
TurnDies ==
  /\ running /\ (aborted \/ doing \notin {"prompt", "again"})
  /\ running' = FALSE
  /\ UNCHANGED <<doing, why, session, start, before, news, silent, aborted, replied, cameOut>>

Abort ==
  /\ doing # "ended" /\ ~aborted
  /\ aborted' = TRUE
  /\ UNCHANGED <<doing, why, session, running, start, before, news, silent, replied, cameOut>>

\* A poll that got through; another is no news.  Nothing new for long enough
\* is silence.
Poll ==
  /\ doing \notin {"create", "ended"}
  /\ IF news THEN UNCHANGED silent ELSE silent' = TRUE
  /\ news' = FALSE
  /\ UNCHANGED <<doing, why, session, running, start, before, aborted, replied, cameOut>>

-----------------------------------------------------------------------------
(* promptSession *)

Stopped == aborted \/ silent

\* summarizeSession, of the messages that can be read.  Errors of any turn
\* count; one of credentials would fail on every model.
Read ==
  [steps |-> Steps(Known), findings |-> Count(Known, {"finding"}),
   done |-> Count(Known, {"done"}) > 0, text |-> Count(Known, {"text"}) > 0,
   failed |-> Count(Known, Errors) > 0, retryable |-> Count(Known, {"auth"}) = 0,
   read |-> IF Known = All THEN "all" ELSE "some"]
NothingRead == [steps |-> 0, findings |-> 0, done |-> FALSE, text |-> FALSE,
                failed |-> FALSE, retryable |-> FALSE, read |-> "none"]

StoppedEarly(r) == ~r.done /\ r.steps < MaxSteps /\ ~r.text

\* Mutant: the steps of both turns.
StepsInAll(r, earlier) == r.steps

LastTurn(r, earlier) == r.steps - earlier

\* capped and attemptEnding, of what was read.
Ending(r, steps) ==
  CASE r.failed -> "error"
    [] ~r.failed /\ r.done -> "done"
    [] ~r.failed /\ ~r.done -> IF steps >= MaxSteps THEN "step_cap" ELSE "stopped_early"

Ends(ending, retryable, r) ==
  /\ cameOut' = [ending |-> ending, retryable |-> retryable, findings |-> r.findings, read |-> r.read]
  /\ doing' = "ended"

\* The prompt of a task that was aborted meanwhile is not sent.
Create ==
  /\ doing = "create"
  /\ doing' = "prompt" /\ running' = ~aborted
  /\ UNCHANGED <<why, session, start, before, news, silent, aborted, replied, cameOut>>

\* No session: promptSession throws, which no other model is tried after.
CreateFails ==
  /\ doing = "create"
  /\ Ends("error", FALSE, [findings |-> 0, read |-> "all"])
  /\ UNCHANGED <<why, session, running, start, before, news, silent, aborted, replied>>

\* The answer of a turn: what it did is in the session.
PromptAnswers ==
  /\ doing \in {"prompt", "again"} /\ running /\ ~Stopped
  /\ running' = FALSE /\ replied' = TRUE
  /\ IF doing = "prompt" THEN doing' = "read" /\ UNCHANGED why ELSE doing' = "harvest" /\ why' = "resumed"
  /\ UNCHANGED <<session, start, before, news, silent, aborted, cameOut>>

\* It is an error: not to be repeated.
PromptRefused ==
  /\ doing \in {"prompt", "again"} /\ running /\ ~Stopped
  /\ running' = FALSE /\ replied' = TRUE
  /\ doing' = "harvest" /\ why' = "final"
  /\ UNCHANGED <<session, start, before, news, silent, aborted, cameOut>>

\* Cancelled, silent, or the connection is lost.
PromptCut ==
  /\ doing \in {"prompt", "again"}
  /\ doing' = "harvest" /\ why' = "cut"
  /\ UNCHANGED <<session, running, start, before, news, silent, aborted, replied, cameOut>>

\* The finished session is read.  An agent that stopped early is told once to
\* finish, in the same session.
ReadFinished ==
  /\ doing = "read" /\ ~Stopped
  /\ IF StoppedEarly(Read)
     THEN /\ doing' = "again" /\ running' = TRUE /\ replied' = FALSE
          /\ start' = Len(session) /\ before' = Read.steps
          /\ UNCHANGED cameOut
     ELSE /\ Ends(Ending(Read, Read.steps), Read.failed /\ Read.retryable, Read)
          /\ UNCHANGED <<running, start, before, replied>>
  /\ UNCHANGED <<why, session, news, silent, aborted>>

\* Mutant: a finished session that cannot be read goes to the next model.
ReadCut ==
  /\ doing = "read"
  /\ doing' = "harvest" /\ why' = "cut"
  /\ UNCHANGED <<session, running, start, before, news, silent, aborted, replied, cameOut>>

\* It cannot be read: running it again would pay twice.
ReadFails ==
  /\ doing = "read"
  /\ doing' = "harvest" /\ why' = "final"
  /\ UNCHANGED <<session, running, start, before, news, silent, aborted, replied, cameOut>>

\* The one more read, which may fail.
Harvest ==
  /\ doing = "harvest"
  /\ \E r \in {Read, NothingRead} :
       CASE why = "final" -> Ends("error", FALSE, r)
         [] why = "cut" -> Ends("error", ~aborted, r)
         [] why = "resumed" -> Ends(Ending(r, LastTurn(r, before)), r.failed /\ r.retryable, r)
  /\ UNCHANGED <<why, session, running, start, before, news, silent, aborted, replied>>

SessionNext ==
  \/ AgentStep \/ TurnDies \/ Abort \/ Poll
  \/ Create \/ CreateFails \/ PromptAnswers \/ PromptRefused \/ PromptCut
  \/ ReadFinished \/ ReadFails \/ Harvest
SessionSpec == SessionInit /\ [][SessionNext]_sessionVars

-----------------------------------------------------------------------------
\* The contract: whatever fails between ocra and the server, and whenever, what
\* the attempt is said to have come to is true of its agent.
TellsTrue == Attempt!Spec

\* "The session finished; running it again on the next model would pay twice"
\* (session-prompt.ts): a session whose last turn called task_done, was
\* answered, met no error and could be read is not run again.
FinishedIsNotRerun ==
  cameOut.retryable /\ replied /\ cameOut.read = "all"
    => Count(Turn, {"done"}) = 0 \/ Count(Turn, Errors) > 0
=============================================================================
