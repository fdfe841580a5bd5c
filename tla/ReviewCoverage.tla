----------------------------- MODULE ReviewCoverage -----------------------------
(***************************************************************************)
(* What the report says of each file, from what became of the cells that   *)
(* review it.  packages/core/src/pipeline/coverage.ts.                     *)
(*                                                                         *)
(* Files are those in scope: coverageOf answers for excluded and unchanged *)
(* ones before it looks at a task, and no cell holds one.                  *)
(***************************************************************************)
EXTENDS ExecuteStage

CONSTANTS
  Files, Reviewers,
  ReviewerOf, FilesOf,   \* per cell
  Limited                \* cells the task limit cut: their reviewer and files

ASSUME CoverageAssumption ==
  /\ ReviewerOf \in [Cells -> Reviewers] /\ FilesOf \in [Cells -> SUBSET Files]
  /\ Limited \subseteq [reviewer : Reviewers, files : SUBSET Files]

CellsOf(r, f) == {c \in Cells : ReviewerOf[c] = r /\ f \in FilesOf[c]}

\* The reviewers a file was planned for, the cells of the task limit included.
Assigned(f) ==
  {r \in Reviewers : CellsOf(r, f) # {} \/ \E l \in Limited : l.reviewer = r /\ f \in l.files}

Ended(s, r, f) == \E c \in CellsOf(r, f) : status[c] = s

\* The best progress of the reviewer's tasks on the file.
Progress(r, f) ==
  IF Ended("completed", r, f) THEN "done" ELSE IF Ended("cut", r, f) THEN "cut" ELSE "none"

HasTask(r, f) == CellsOf(r, f) # {}   \* mutant: a cell that never started has run too

Ran(r, f) == ~(CellsOf(r, f) \subseteq NotStarted)

FileStatus(r, f) ==
  IF Progress(r, f) = "done" THEN "reviewed"
  ELSE IF Progress(r, f) = "cut" THEN "incomplete"
  ELSE IF Ran(r, f) THEN "failed" ELSE "unreviewed"

\* A file takes its worst reviewer's status (RANK); without one it is not reviewed.
Coverage(f) ==
  LET found == {FileStatus(r, f) : r \in Assigned(f)}
  IN IF "failed" \in found THEN "failed"
     ELSE IF "incomplete" \in found THEN "incomplete"
     ELSE IF "unreviewed" \in found \/ found = {} THEN "unreviewed" ELSE "reviewed"

--------------------------------------------------------------------------------
(* Properties *)

\* How the agents ended whose tasks count as completed.
Made == {"completed", "silent", "reused"}

\* A file is reported reviewed only if every reviewer planned for it, the tasks cut
\* by the task limit included, has a task on it whose agent said it was done, in
\* this run or the resumed one, or fell silent unasked: however tasks were stopped,
\* timed out or refused (coverage.ts:25-29; task.ts:57).
ReviewedMeansDone ==
  StageOver => \A f \in Files : Coverage(f) = "reviewed" =>
    /\ \A c \in Cells : f \in FilesOf[c] =>
         \E d \in CellsOf(ReviewerOf[c], f) : answered[d] \in Made
    /\ \A l \in Limited : f \in l.files =>
         \E d \in CellsOf(l.reviewer, f) : answered[d] \in Made

BegunInVain(c) == status[c] \in {"failed", "timed_out", "cancelled", "stopped"}

\* A file whose tasks never started is unreviewed, not failed; one is failed when a
\* task on it began and no task of the same reviewer finished (ADR-0015, decision 2).
NeverStartedIsNotFailed ==
  StageOver => \A f \in Files :
    /\ Coverage(f) = "failed" => \E c \in Cells : f \in FilesOf[c] /\ BegunInVain(c)
    /\ Coverage(f) = "unreviewed" => \A c \in Cells : f \in FilesOf[c] /\ BegunInVain(c) =>
         \E d \in CellsOf(ReviewerOf[c], f) : status[d] = "completed"

\* What the report says of a file is true of what became of its tasks: the two above.
CoverageTrue == ReviewedMeansDone /\ NeverStartedIsNotFailed
================================================================================
