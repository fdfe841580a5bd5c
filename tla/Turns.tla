------------------------------- MODULE Turns --------------------------------
(***************************************************************************)
(* What withFileLock (cli/src/cloud/file-lock.ts) promises its callers:    *)
(* they run one at a time, except those that go on without the lock, as    *)
(* long as nobody had to take a lock, or a claim to one, for dead by its   *)
(* age alone.  FileLock implements it; CloudSession builds on it.          *)
(***************************************************************************)
EXTENDS Processes

CONSTANT
  MaxHarms     \* bound: how many kinds of harm a behaviour meets

VARIABLES
  place,   \* where a process is: out, it waits, runs with or without the lock, or leaves
  harm     \* history: what went wrong that the lock cannot make good

turnVars == <<place, harm>>

-----------------------------------------------------------------------------
TurnPlaces == {"out", "waits", "with", "without", "leaves", "dead"}

\* "bare": a call went on without the lock.  "judged": a lock, or a claim, was
\* taken for dead by its age.  "lost": a caller lost what it had to save.
Harms == {"bare", "judged", "lost"}

TurnsTypeOK ==
  /\ place \in [Procs -> TurnPlaces]
  /\ harm \subseteq Harms

TurnsInit == place = [p \in Procs |-> "out"] /\ harm = {}

Dead == {p \in Procs : place[p] = "dead"}
Moves(p, from, to) == place[p] = from /\ place' = [place EXCEPT ![p] = to]
Suffers(h) ==
  /\ Cardinality(harm \cup {h}) <= MaxHarms
  /\ harm' = harm \cup {h}

AsksTurn(p) == Moves(p, "out", "waits") /\ UNCHANGED harm

TakesTurn(p) ==
  /\ "judged" \in harm \/ \A q \in Procs : place[q] # "with"
  /\ Moves(p, "waits", "with")
  /\ UNCHANGED harm

GoesWithout(p) ==
  /\ Moves(p, "waits", "without")
  /\ Suffers("bare")

LeavesTurn(p) == Moves(p, "with", "leaves") \/ Moves(p, "without", "out")
EndsTurn(p) == LeavesTurn(p) /\ UNCHANGED harm

Left(p) ==
  /\ Moves(p, "leaves", "out")
  /\ Suffers("judged") \/ UNCHANGED harm

Dies(p) ==
  /\ place[p] # "dead" /\ Cardinality(Dead) < MaxCrashes
  /\ place' = [place EXCEPT ![p] = "dead"]
  /\ UNCHANGED harm

Judges(p) == place[p] = "waits" /\ Suffers("judged") /\ UNCHANGED place

TurnsNext ==
  \E p \in Procs :
    \/ AsksTurn(p) \/ TakesTurn(p) \/ GoesWithout(p)
    \/ EndsTurn(p) \/ Left(p) \/ Judges(p) \/ Dies(p)

TurnsSpec == TurnsInit /\ [][TurnsNext]_turnVars
=============================================================================
