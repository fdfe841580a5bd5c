------------------------------ MODULE Rereview ------------------------------
(***************************************************************************)
(* The reviews of one pull or merge request, push after push.  Each run    *)
(* reads what earlier runs left on the platform (one summary comment with  *)
(* ocra's state in it, and one thread per inline comment), reviews only    *)
(* what changed since, reconciles what it found with what was open, and    *)
(* writes the platform again.  Between and during the runs people push,    *)
(* rewrite the branch, dismiss findings, accept them for good and edit the *)
(* summary, and a run may die between any two of its writes.               *)
(*   packages/vcs-platform/src/review.ts      PlatformReview               *)
(*   packages/vcs-local/src/history.ts        filesChangedSince            *)
(*   packages/core/src/pipeline/plan.ts       planReview, reviewScope      *)
(*   packages/core/src/rereview/reconcile.ts  reconcile                    *)
(*                                                                         *)
(* A commit is the version it gives each file and the line of history it   *)
(* is on: a force-push or a rebase starts a new line.  What a review is    *)
(* asked to review is the difference between two of them: the head of the  *)
(* branch, and its merge base with the target branch, of which only the    *)
(* versions matter.  A finding is its fingerprint, so it belongs to one    *)
(* file and to one piece of code.  What the agents answer is any answer    *)
(* they can give: Review.                                                  *)
(***************************************************************************)
EXTENDS Naturals, FiniteSets

CONSTANTS
  Files, Versions,  \* the repository's files, and what a push can make of one
  Opened, Forked,   \* the versions of the files when the change was opened:
                    \* at its head, and at its merge base
  Findings,         \* the fingerprints reviewers can report
  FileOf,           \* the file each finding is about
  CodeIn,           \* the versions of that file with the finding's code in it
  Selected,         \* of each file, the differences that selectFiles keeps
  TierOf,           \* the risk tier of a whole change (triage)
  Imported,         \* the findings a SARIF log brings in, whatever the scope
  Outcomes,         \* what Verify may make of a finding
  MaxRuns, MaxActs, MaxLine  \* bounds: runs, what people do, rewritten branches

\* A version of every file.
Tree == [Files -> Versions]

ASSUME RereviewAssumption ==
  /\ Opened \in Tree /\ Forked \in Tree
  /\ FileOf \in [Findings -> Files]
  /\ CodeIn \in [Findings -> SUBSET Versions]
  /\ Selected \in [Files -> SUBSET {d \in Versions \X Versions : d[1] # d[2]}]
  /\ TierOf \in [Tree \X Tree -> Nat]
  /\ Imported \subseteq Findings
  /\ Outcomes \subseteq {"refuted", "confirmed", "uncertain", "unchecked"}
  /\ {MaxRuns, MaxActs, MaxLine} \subseteq Nat

VARIABLES
  branch,    \* the commit the change's branch is at
  base,      \* what its merge base with the target branch makes of each file
  accepted,  \* findings the team's memory accepts (.ocra/memory.json)
  summary,   \* ocra's summary comment
  threads,   \* ocra's inline comments, by finding
  run,       \* the review in progress
  reviewed,  \* history: <<file, its version in the base and in the head, tier>>
             \* that some run reviewed in full
  runs,      \* how many runs have started
  acts       \* how many things people have done

vars == <<branch, base, accepted, summary, threads, run, reviewed, runs, acts>>
people == <<branch, base, accepted, acts>>

-----------------------------------------------------------------------------
Severity == {"warning", "critical"}
Rank == [s \in {"no"} \cup Severity |-> CASE s = "no" -> 0 [] s = "warning" -> 1 [] OTHER -> 2]
MoreSevere(s, t) == IF Rank[s] >= Rank[t] THEN s ELSE t
Verification == {"confirmed", "uncertain", "unchecked"}

Commit == [ver : Tree, line : 0..MaxLine]
NoCommit == [line |-> "none"]

\* A finding as the state remembers it, and the findings of one review.
Record == [sev : Severity, check : Verification, commented : BOOLEAN]
Tracking == UNION {[S -> Record] : S \in SUBSET Findings}
NothingTracked == [f \in {} |-> "none"]

\* The state a summary comment holds; NoSummary is no comment yet, or one
\* whose state does not count: someone else edited it.  from is no part of it,
\* but history: the base of each file in the last run that did not leave it out.
State == [open : Tracking, posted : SUBSET Findings,
          head : Commit \cup {NoCommit}, pending : SUBSET Files, tier : Nat, from : Tree]
NoSummary == [open |-> NothingTracked, posted |-> {}, head |-> NoCommit, pending |-> {},
              tier |-> 0, from |-> Forked]

\* shown: the most severe ocra's comments show the finding, "no" if there are
\* none; declined: "no", or the most severe a maintainer who said no had seen
\* it, there or in the summary.
Shown == {"no"} \cup Severity
Thread == [shown : Shown, declined : Shown]

\* A run holds what it read when it started until it has reviewed, then what
\* it has to publish.
NoReport == [found |-> NothingTracked, quiet |-> NothingTracked, open |-> {},
             reported |-> {}, unfinished |-> {}, unverified |-> FALSE, commented |-> {}]
Idle == [phase |-> "idle", head |-> NoCommit, base |-> Forked, from |-> Forked,
         prior |-> NoSummary, compared |-> FALSE, listed |-> FALSE, scope |-> {}, own |-> {}, declined |-> {}, memory |-> {}, report |-> NoReport]

-----------------------------------------------------------------------------
(* What a run reads before it reviews.                                     *)

\* The selected files of the change from b to c, and its tier.
SelectedAt(b, c) == {f \in Files : <<b[f], c.ver[f]>> \in Selected[f]}
TierAt(b, c) == TierOf[<<b, c.ver>>]
CodeAt(f, c) == c.ver[FileOf[f]] \in CodeIn[f]

\* The files that differ between two commits of one line of history.
FilesChangedSince(from, to) == {f \in Files : from.ver[f] # to.ver[f]}

\* Mutant: a push that raises the tier does not widen the review.
IncrementalAtAnyTier(prior) ==
  prior.head # NoCommit /\ prior.head.line = branch.line

\* Whether the earlier review says what changed since, at no lower a tier.  It
\* does not say what base it compared with.
Incremental(prior) ==
  /\ prior.head # NoCommit
  /\ prior.head.line = branch.line
  /\ TierAt(base, branch) <= prior.tier

ReviewScope(prior) ==
  IF Incremental(prior)
  THEN FilesChangedSince(prior.head, branch) \cup prior.pending
  ELSE Files

\* The files this run reviews, and those it leaves out as unchanged.
InScope(prior, only) ==
  SelectedAt(base, branch) \cap IF only THEN ReviewScope(prior) ELSE Files
LeftOut(prior, only) == SelectedAt(base, branch) \ InScope(prior, only)

\* Tracked findings with an inline comment that a maintainer declined.
DismissedIn(prior) ==
  {f \in DOMAIN prior.open : prior.open[f].commented /\ threads[f].declined # "no"}

Commented == {f \in Findings : threads[f].shown # "no"}

(* The review starts: what the platform says is read once.  The editor of  *)
(* the summary may be impossible to tell, so its state does not count; the *)
(* comparison may fail on the repository's history, which costs the earlier*)
(* review but not what publishing reads of it; the threads may not list.   *)
StartRun(editorKnown, compared, full, listed) ==
  LET prior == IF editorKnown THEN summary ELSE NoSummary IN
  /\ run.phase = "idle"
  /\ runs < MaxRuns
  /\ runs' = runs + 1
  /\ run' = [Idle EXCEPT
       !.phase = "planned",
       !.head = branch,
       !.base = base,
       !.from = [f \in Files |->
                   IF f \in LeftOut(prior, compared /\ ~full) THEN prior.from[f] ELSE base[f]],
       !.prior = prior,
       !.compared = compared /\ prior # NoSummary,
       !.listed = listed \/ Commented = {},
       !.scope = InScope(prior, compared /\ ~full),
       !.own = IF listed THEN Commented ELSE {},
       !.declined = IF listed THEN DismissedIn(prior) ELSE {},
       !.memory = accepted]
  /\ UNCHANGED <<people, summary, threads, reviewed>>

-----------------------------------------------------------------------------
(* Reviewing: the agents, then the filters, Verify and the judge.          *)

\* What the run may report: code of the head, in its scope or from a log.
Reportable ==
  {f \in Findings : /\ CodeAt(f, run.head)
                    /\ \/ FileOf[f] \in run.scope
                       \/ f \in Imported /\ FileOf[f] \in SelectedAt(run.base, run.head)}

\* Mutant: earlier findings of files out of scope are not carried over.
BeforeInScope ==
  IF run.compared THEN {f \in DOMAIN run.prior.open \ run.memory : FileOf[f] \in run.scope}
  ELSE {}

\* The earlier findings this run compares with: none it could not read, and
\* none the team has accepted since.
Before == IF run.compared THEN DOMAIN run.prior.open \ run.memory ELSE {}

\* A dismissed finding stays out unless it came back more severe; what is
\* neither dismissed nor accepted goes on to Verify.
SilencedOf(said) ==
  {f \in DOMAIN said \cap Before \cap run.declined :
     Rank[said[f]] <= Rank[run.prior.open[f].sev]}

ToCheck(said) == DOMAIN said \ (run.memory \cup SilencedOf(said))

Protected(sev, check) == sev = "critical" /\ check = "confirmed"

\* What the judge may make of the findings Verify kept: a confirmed critical
\* one is neither dropped nor downgraded, and merged only into another.
JudgeMay(kept, said, check, final) ==
  LET IsProtected(f) == Protected(said[f], check[f]) IN
  /\ \A f \in DOMAIN final : IsProtected(f) => final[f] = "critical"
  /\ (\E f \in kept : IsProtected(f)) => \E f \in DOMAIN final : IsProtected(f)

\* Mutant: the state alone says what was commented.
CommentedByState ==
  {f \in DOMAIN run.prior.open : run.prior.open[f].commented} \cup run.prior.posted

\* The findings that already have an inline comment: by the earlier state,
\* or by ocra's own threads, when a run died before it wrote the state.
AlreadyCommented ==
  {f \in DOMAIN run.prior.open : run.prior.open[f].commented}
    \cup run.prior.posted \cup run.own

\* What Verify left, and whether it could not check a critical finding of it:
\* asked before the judge, who may not turn that into a clean review.
Kept(said, check) == {f \in ToCheck(said) : check[f] # "refuted"}
Unverified(said, check) ==
  \E f \in Kept(said, check) : said[f] = "critical" /\ check[f] = "unchecked"

\* Earlier findings nobody repeated are fixed only when their code is gone,
\* and their file could be read to see it; the others stay, as they were.
Quiet(said, unread) ==
  {f \in Before \ DOMAIN said : CodeAt(f, run.head) \/ f \in unread} \cup SilencedOf(said)

\* What the judge left, to report.
Found(check, final) ==
  [f \in DOMAIN final |-> [sev |-> final[f], check |-> check[f], commented |-> FALSE]]

ReportOf(done, said, check, final, unread) ==
  [found |-> Found(check, final),
   quiet |-> [f \in Quiet(said, unread) |-> run.prior.open[f]],
   open |-> Quiet(said, unread) \ run.declined,
   reported |-> DOMAIN said,
   unfinished |-> run.scope \ done,
   unverified |-> Unverified(said, check),
   commented |-> AlreadyCommented]

(* said: what was reported, at which severity, after deduplication; check: *)
(* Verify's outcome; final: what the judge leaves, and how severe; done:   *)
(* the files every reviewer finished; unread: earlier findings whose file  *)
(* could not be read to see whether their code is gone.                    *)
Review(done, said, check, final, unread) ==
  /\ run.phase = "planned"
  /\ DOMAIN said \subseteq Reportable
  /\ DOMAIN check = ToCheck(said)
  /\ DOMAIN final \subseteq Kept(said, check)
  /\ JudgeMay(Kept(said, check), said, check, final)
  /\ run' = [Idle EXCEPT
       !.phase = "checked", !.head = run.head, !.base = run.base, !.from = run.from,
       !.compared = run.compared, !.listed = run.listed, !.memory = run.memory,
       !.report = ReportOf(done, said, check, final, unread)]
  /\ reviewed' = reviewed \cup
       {<<f, run.base[f], run.head.ver[f], TierAt(run.base, run.head)>> :
          f \in run.scope \cap done}
  /\ UNCHANGED <<people, runs, summary, threads>>

\* Mutant: earlier findings that are still open do not count.
CountedFound(report) == {report.found[f] : f \in DOMAIN report.found}

\* What counts towards the verdict: this run's findings, and the earlier ones
\* still open, as they were.
Counted(report) ==
  {report.found[f] : f \in DOMAIN report.found} \cup {report.quiet[f] : f \in report.open}

Blocking(report) == \E r \in Counted(report) : r.sev = "critical" /\ r.check = "confirmed"
IncompleteReview(report) == report.unfinished # {} \/ report.unverified

\* Incomplete comes first, even over a blocking verdict.  It stands for the
\* code of a run none of whose tasks completed, too; nobody overrides a verdict.
ExitCode(report) ==
  CASE IncompleteReview(report) -> "incomplete"
    [] Blocking(report) /\ ~IncompleteReview(report) -> "blocking"
    [] OTHER -> "ok"

-----------------------------------------------------------------------------
(* Publishing: the inline comments, then the summary.  What follows it     *)
(* (withdrawing a request for changes, closing the threads of what was     *)
(* fixed) is best effort, and no later run decides anything by it.         *)

\* The platform may refuse to place some or all of the new comments.
PostInline(posted) ==
  /\ run.phase = "checked"
  /\ posted \subseteq DOMAIN run.report.found \ run.report.commented
  /\ threads' = [f \in Findings |->
       IF f \in posted
       THEN [threads[f] EXCEPT !.shown = MoreSevere(threads[f].shown, run.report.found[f].sev)]
       ELSE threads[f]]
  /\ run' = [run EXCEPT !.phase = "posted",
                        !.report.commented = run.report.commented \cup posted]
  /\ UNCHANGED <<people, runs, summary, reviewed>>

\* What this run leaves for the next: its findings, then the earlier ones
\* still open or dismissed, as they were.
NextOpen ==
  LET r == run.report IN
  [f \in DOMAIN r.found \cup DOMAIN r.quiet |->
     IF f \in DOMAIN r.found
     THEN [r.found[f] EXCEPT !.commented = f \in r.commented]
     ELSE r.quiet[f]]

\* Mutant: every commented finding is listed as untracked.
PostedAll == run.report.commented

\* The comments on findings the state does not track: refuted, dropped.
Posted == run.report.commented \ DOMAIN NextOpen

\* The files the next run has to review whatever changed.
Pending == run.report.unfinished

\* A state too large for the comment loses its head and unfinished files.  (It
\* may lose findings from the end of the list too: the model's always fit.)
WriteSummary(fits) ==
  /\ run.phase = "posted"
  /\ summary' = [open |-> NextOpen,
                 posted |-> Posted,
                 head |-> IF fits THEN run.head ELSE NoCommit,
                 pending |-> IF fits THEN Pending ELSE {},
                 tier |-> TierAt(run.base, run.head),
                 from |-> run.from]
  /\ run' = Idle
  /\ UNCHANGED <<people, runs, threads, reviewed>>

\* The run dies, or a call to the platform fails it, at any point.
Crash ==
  /\ run.phase # "idle"
  /\ run' = Idle
  /\ UNCHANGED <<people, runs, summary, threads, reviewed>>

-----------------------------------------------------------------------------
(* What people do meanwhile.                                               *)

\* A push, a merge of the target branch, a rebase, another target: the branch
\* goes to c, and its merge base has the files as b does.
Push(c, b) ==
  /\ c.line \in {branch.line, branch.line + 1}
  /\ <<c, b>> # <<branch, base>>
  /\ branch' = c
  /\ base' = b
  /\ UNCHANGED <<accepted, summary, threads, run, reviewed, runs>>

Accept(f) ==
  /\ f \notin accepted
  /\ accepted' = accepted \cup {f}
  /\ UNCHANGED <<branch, base, summary, threads, run, reviewed, runs>>

\* A maintainer resolves ocra's thread or declines in it.
Decline(f) ==
  /\ threads[f].shown # "no"
  /\ threads' = [threads EXCEPT ![f].declined =
       MoreSevere(threads[f].shown, IF f \in DOMAIN summary.open THEN summary.open[f].sev ELSE "no")]
  /\ UNCHANGED <<branch, base, accepted, summary, run, reviewed, runs>>

\* Someone other than ocra edits the summary: its state no longer counts.
EditSummary ==
  /\ summary # NoSummary
  /\ summary' = NoSummary
  /\ UNCHANGED <<branch, base, accepted, threads, run, reviewed, runs>>

-----------------------------------------------------------------------------
Init ==
  /\ branch = [ver |-> Opened, line |-> 0]
  /\ base = Forked
  /\ accepted = {}
  /\ summary = NoSummary
  /\ threads = [f \in Findings |-> [shown |-> "no", declined |-> "no"]]
  /\ run = Idle
  /\ reviewed = {}
  /\ runs = 0
  /\ acts = 0

Partial(S, T) == UNION {[D -> T] : D \in SUBSET S}

RunStep ==
  \/ \E known, compared, full, listed \in BOOLEAN : StartRun(known, compared, full, listed)
  \/ /\ run.phase = "planned"
     /\ \E done \in SUBSET run.scope, said \in Partial(Reportable, Severity) :
          \E check \in [ToCheck(said) -> Outcomes] :
            \E final \in Partial(DOMAIN check, Severity), unread \in SUBSET Before :
              Review(done, said, check, final, unread)
  \/ \E posted \in SUBSET DOMAIN run.report.found : PostInline(posted)
  \/ \E fits \in BOOLEAN : WriteSummary(fits)
  \/ Crash

PeopleStep ==
  /\ acts < MaxActs
  /\ acts' = acts + 1
  /\ \/ \E c \in Commit, b \in Tree : Push(c, b)
     \/ \E f \in Findings : Accept(f) \/ Decline(f)
     \/ EditSummary

Next == RunStep \/ PeopleStep

Spec == Init /\ [][Next]_vars

-----------------------------------------------------------------------------
(* Properties.                                                             *)

Report == [found : Tracking, quiet : Tracking, open : SUBSET Findings,
           reported : SUBSET Findings, unfinished : SUBSET Files,
           unverified : BOOLEAN, commented : SUBSET Findings]
Run == [phase : {"idle", "planned", "checked", "posted"}, head : Commit \cup {NoCommit}, base : Tree, from : Tree,
        prior : State, compared : BOOLEAN, listed : BOOLEAN, scope : SUBSET Files,
        own : SUBSET Findings, declined : SUBSET Findings, memory : SUBSET Findings,
        report : Report]

\* Every variable has its type.  A finding is not both kept and dismissed in
\* one report, only an earlier finding is open again or dismissed, and the
\* state never lists a finding as commented but untracked when it tracks it.
RereviewTypeOK ==
  /\ branch \in Commit /\ base \in Tree
  /\ accepted \subseteq Findings
  /\ summary \in State
  /\ threads \in [Findings -> Thread]
  /\ run \in Run
  /\ reviewed \subseteq Files \X Versions \X Versions \X Nat
  /\ runs \in 0..MaxRuns /\ acts \in Nat
  /\ run.phase # "idle" => run.head \in Commit
  /\ run.report.open \subseteq DOMAIN run.report.quiet
  /\ DOMAIN run.report.found \cap DOMAIN run.report.quiet = {}
  /\ DOMAIN summary.open \cap summary.posted = {}

\* Some run reviewed in full what became of the file between b and c, for a tier
\* no lower than t.
ReviewedIn(f, b, c, t) ==
  \E e \in reviewed : e[1] = f /\ e[2] = b[f] /\ e[3] = c.ver[f] /\ e[4] >= t

\* A run that reviews only what changed leaves out no difference that was not
\* reviewed as it is now: whatever ran, failed, crashed or was pushed before,
\* it was finished by some earlier run, by at least the reviewers this tier
\* has.  Except where the base of a file has moved since the last run that did
\* not leave it out: the state does not record it (plan.ts:110-121,
\* review.ts:189-204, 297-312).
UnchangedWasReviewed ==
  run.phase = "planned" =>
    \A f \in SelectedAt(run.base, run.head) \ run.scope :
      run.base[f] = run.from[f] =>
        ReviewedIn(f, run.base, run.head, TierAt(run.base, run.head))

\* The same of the state the next run will read.
NoFileForgotten ==
  summary.head # NoCommit =>
    \A f \in SelectedAt(summary.from, summary.head) \ summary.pending :
      ReviewedIn(f, summary.from, summary.head, summary.tier)

\* While its base stays, no file drops out of the reviews of a change unreviewed,
\* neither of the run that plans nor of the one that will read the summary.
UnreviewedStays == UnchangedWasReviewed /\ NoFileForgotten

\* The step in which a run replaces the summary, and not a person's edit.
SummaryWritten == run.phase = "posted" /\ run' = Idle /\ summary' # summary

\* A finding that was open or dismissed stays in the state, from the summary
\* before a run to the summary after it, unless the run reported it itself
\* and Verify or the judge removed it, its code is gone, or the team accepted
\* it (reconcile.ts:53-60, review.ts:273-296).
OpenUntilSettled ==
  [][(SummaryWritten /\ run.compared) =>
       \A f \in DOMAIN summary.open \ DOMAIN summary'.open :
         \/ f \in run.report.reported
         \/ ~CodeAt(f, run.head)
         \/ f \in run.memory]_vars

\* A run that could list ocra's threads comments on no finding that has a
\* comment, also when the run that posted it died before it wrote the summary
\* or the summary's state no longer counts (review.ts:254-261, 326-333).
CommentedOnce ==
  [][(run.phase = "checked" /\ run'.phase = "posted") =>
       \A f \in run'.report.commented \ run.report.commented :
         threads[f].shown # "no" => ~run.listed]_vars

\* A run does not pass while an earlier run's blocking finding stands: it was
\* reported again, and Verify or the judge decided anew, or its code is gone,
\* or people settled it.  That no reviewer repeated it, that its file was not
\* reviewed, or that the summary was left half written, is not enough
\* (reconcile.ts:77-81, judge.ts:96-101, exit-code.ts:17-31).
BlockerStands ==
  [][(SummaryWritten /\ run.compared /\ ExitCode(run.report) = "ok") =>
       \A f \in DOMAIN summary.open :
         Protected(summary.open[f].sev, summary.open[f].check) =>
           \/ f \in run.report.reported
           \/ ~CodeAt(f, run.head)
           \/ f \in run.memory
           \/ threads[f].declined # "no"]_vars

-----------------------------------------------------------------------------
(* What the code and the documents say and the code does not do.           *)

\* report.ts:19, of the coverage of a file: "unchanged": reviewed by an earlier
\* run and not changed since, so not reviewed again.
UnchangedMeansReviewed ==
  run.phase = "planned" =>
    \A f \in SelectedAt(run.base, run.head) \ run.scope :
      \E e \in reviewed : e[1] = f /\ e[3] = run.head.ver[f]

\* docs/manual/en/github.mdx:118: "A dismissed finding no longer counts in
\* this pull request unless a later run finds it at a higher severity."  A
\* dismissal thus covers the severity the maintainer saw, and no higher one.
DismissalCoversWhatWasSeen ==
  run.phase \in {"checked", "posted"} =>
    \A f \in DOMAIN run.report.quiet \ run.report.open :
      Rank[run.report.quiet[f].sev] <= Rank[threads[f].declined]
=============================================================================
