--------------------------- MODULE RereviewProofs ---------------------------
(* What holds of every change request, however many files, findings, runs  *)
(* and pushes: nothing is left out of a review that was not reviewed, no   *)
(* finding is forgotten or commented on twice, and no blocker fades away.  *)
EXTENDS Rereview, TLAPS

\* What is left out of a review, and of what it leaves for the next one, was
\* reviewed by some run from the base its history names: of the run that plans,
\* of the one that reports, and of the summary.
Planned ==
  run.phase = "planned" =>
    /\ run.scope \subseteq SelectedAt(run.base, run.head)
    /\ \A f \in Files : f \notin SelectedAt(run.base, run.head) \ run.scope =>
          run.from[f] = run.base[f]
    /\ \A f \in SelectedAt(run.from, run.head) \ run.scope :
          ReviewedIn(f, run.from, run.head, TierAt(run.base, run.head))
Reported ==
  run.phase \in {"checked", "posted"} =>
    \A f \in SelectedAt(run.from, run.head) \ run.report.unfinished :
      ReviewedIn(f, run.from, run.head, TierAt(run.base, run.head))
ScopeInv == NoFileForgotten /\ Planned /\ Reported

-----------------------------------------------------------------------------
(* The tiers and commits of the model.                                     *)

LEMMA NoCommitIsNone == NoCommit \notin Commit
  <1>1. SUFFICES ASSUME NoCommit \in Commit PROVE FALSE
    OBVIOUS
  <1>2. DOMAIN NoCommit = {"line"}
    BY DEF NoCommit
  <1>3. DOMAIN NoCommit = {"ver", "line"}
    BY <1>1 DEF Commit
  <1>4. QED
    BY <1>2, <1>3

LEMMA TierIsNat == \A b \in Tree, c \in Commit : TierAt(b, c) \in Nat
  <1>1. SUFFICES ASSUME NEW b \in Tree, NEW c \in Commit PROVE TierAt(b, c) \in Nat
    OBVIOUS
  <1>2. <<b, c.ver>> \in Tree \X Tree
    BY DEF Commit
  <1>3. QED
    BY <1>2, RereviewAssumption DEF TierAt

\* What the earlier review covered is as good for a head that only differs
\* elsewhere and whose tier is no higher.
LEMMA LeftOutWasReviewed ==
  ASSUME RereviewTypeOK, ScopeInv, NEW prior \in {summary, NoSummary}, NEW only \in BOOLEAN,
         NEW f \in LeftOut(prior, only), <<prior.from[f], branch.ver[f]>> \in Selected[f]
  PROVE  ReviewedIn(f, prior.from, branch, TierAt(base, branch))
  <1>1. f \in Files /\ f \in SelectedAt(base, branch) /\ only /\ f \notin ReviewScope(prior)
    BY DEF LeftOut, InScope, SelectedAt
  <1>2. Incremental(prior) /\ f \notin FilesChangedSince(prior.head, branch) /\ f \notin prior.pending
    BY <1>1 DEF ReviewScope
  <1>3. prior = summary
    BY <1>2 DEF Incremental, NoSummary
  <1>4. /\ summary.head # NoCommit /\ branch \in Commit /\ base \in Tree
        /\ TierAt(base, branch) <= summary.tier /\ summary.tier \in Nat
    BY <1>2, <1>3 DEF Incremental, RereviewTypeOK, State
  <1>5. summary.head.ver[f] = branch.ver[f]
    BY <1>1, <1>2, <1>3 DEF FilesChangedSince
  <1>6. f \in SelectedAt(summary.from, summary.head) \ summary.pending
    BY <1>1, <1>2, <1>3, <1>5 DEF SelectedAt
  <1>7. ReviewedIn(f, summary.from, summary.head, summary.tier)
    BY <1>4, <1>6 DEF ScopeInv, NoFileForgotten
  <1>8. PICK e \in reviewed : /\ e[1] = f /\ e[2] = summary.from[f] /\ e[3] = branch.ver[f]
                              /\ e[4] >= summary.tier
    BY <1>5, <1>7 DEF ReviewedIn
  <1>9. e[4] \in Nat
    BY DEF RereviewTypeOK
  <1>10. e[4] >= TierAt(base, branch)
    BY <1>4, <1>8, <1>9, TierIsNat
  <1> QED
    BY <1>3, <1>8, <1>10 DEF ReviewedIn

-----------------------------------------------------------------------------
(* The types of the variables.                                             *)

LEMMA TrackingIntro ==
  ASSUME NEW S \in SUBSET Findings, NEW g \in [S -> Record]
  PROVE  g \in Tracking
  BY DEF Tracking

LEMMA TrackingElim ==
  ASSUME NEW g \in Tracking
  PROVE  DOMAIN g \subseteq Findings /\ g \in [DOMAIN g -> Record]
  BY DEF Tracking

LEMMA PartialElim ==
  ASSUME NEW S, NEW T, NEW g \in Partial(S, T)
  PROVE  DOMAIN g \subseteq S /\ g \in [DOMAIN g -> T]
  BY DEF Partial

LEMMA EmptyTypes ==
  /\ NothingTracked \in Tracking /\ DOMAIN NothingTracked = {}
  /\ NoSummary \in State /\ NoReport \in Report /\ Idle \in Run
  <1>1. NothingTracked \in [{} -> Record] /\ DOMAIN NothingTracked = {}
    BY DEF NothingTracked
  <1>2. NothingTracked \in Tracking
    BY <1>1, TrackingIntro
  <1>3. NoSummary \in State
    BY <1>2, RereviewAssumption DEF NoSummary, State
  <1>4. NoReport \in Report
    BY <1>2 DEF NoReport, Report
  <1>5. QED
    BY <1>1, <1>2, <1>3, <1>4, RereviewAssumption DEF Idle, Run

LEMMA TypeStart ==
  ASSUME RereviewTypeOK, NEW known \in BOOLEAN, NEW compared \in BOOLEAN,
         NEW full \in BOOLEAN, NEW listed \in BOOLEAN,
         StartRun(known, compared, full, listed)
  PROVE  RereviewTypeOK'
  <1> DEFINE prior == IF known THEN summary ELSE NoSummary
             scope == InScope(prior, compared /\ ~full)
             from == [f \in Files |->
                        IF f \in LeftOut(prior, compared /\ ~full) THEN prior.from[f] ELSE base[f]]
             own == IF listed THEN Commented ELSE {}
             declined == IF listed THEN DismissedIn(prior) ELSE {}
             compares == compared /\ prior # NoSummary
             lists == listed \/ Commented = {}
  <1>1. prior \in State
    BY EmptyTypes DEF RereviewTypeOK
  <1>2. scope \in SUBSET Files /\ own \in SUBSET Findings
    BY DEF InScope, SelectedAt, Commented
  <1>3. declined \in SUBSET Findings
    BY <1>1, TrackingElim DEF DismissedIn, State
  <1>4. branch \in Commit /\ base \in Tree /\ from \in Tree /\ accepted \in SUBSET Findings
    BY <1>1 DEF RereviewTypeOK, State, Tree
  <1>5. compares \in BOOLEAN /\ lists \in BOOLEAN
    OBVIOUS
  <1>6. run' = [Idle EXCEPT !.phase = "planned", !.head = branch, !.base = base,
                            !.from = from, !.prior = prior,
                            !.compared = compares, !.listed = lists, !.scope = scope,
                            !.own = own, !.declined = declined, !.memory = accepted]
    BY DEF StartRun
  <1> HIDE DEF prior, scope, from, own, declined, compares, lists
  <1>7. run' \in Run /\ run'.report = NoReport /\ run'.head \in Commit
    BY <1>1, <1>2, <1>3, <1>4, <1>5, <1>6, EmptyTypes, ZenonT(60) DEF Run, Idle
  <1>8. runs' \in 0..MaxRuns
    BY RereviewAssumption DEF StartRun, RereviewTypeOK
  <1>9. UNCHANGED <<people, summary, threads, reviewed>>
    BY DEF StartRun
  <1>10. QED
    BY <1>7, <1>8, <1>9, EmptyTypes DEF RereviewTypeOK, NoReport, people

\* What Verify and the judge hand on is of their types, whatever they answer.
LEMMA AnswerTypes ==
  ASSUME RereviewTypeOK, NEW said \in Partial(Reportable, Severity),
         NEW check \in [ToCheck(said) -> Outcomes],
         NEW final \in Partial(DOMAIN check, Severity),
         DOMAIN final \subseteq Kept(said, check)
  PROVE  /\ DOMAIN said \in SUBSET Findings
         /\ Found(check, final) \in Tracking
         /\ DOMAIN Found(check, final) = DOMAIN final
         /\ DOMAIN final \in SUBSET Findings
  <1>1. DOMAIN said \in SUBSET Findings
    BY PartialElim DEF Reportable
  <1>2. DOMAIN final \in SUBSET Findings
    BY <1>1 DEF Kept, ToCheck
  <1>3. ASSUME NEW f \in DOMAIN final
        PROVE  [sev |-> final[f], check |-> check[f], commented |-> FALSE] \in Record
    <2>1. final[f] \in Severity
      BY PartialElim
    <2>2. check[f] \in Outcomes /\ check[f] # "refuted"
      BY DEF Kept
    <2>3. QED
      BY <2>1, <2>2, RereviewAssumption DEF Record, Verification
  <1>4. /\ Found(check, final) \in [DOMAIN final -> Record]
        /\ DOMAIN Found(check, final) = DOMAIN final
    BY <1>3 DEF Found
  <1>5. QED
    BY <1>1, <1>2, <1>4, TrackingIntro

\* The earlier findings a run compares with are findings it read.
LEMMA EarlierTypes ==
  ASSUME RereviewTypeOK, NEW said, NEW unread
  PROVE  /\ Before \subseteq DOMAIN run.prior.open
         /\ DOMAIN run.prior.open \subseteq Findings
         /\ Quiet(said, unread) \subseteq Before
         /\ [f \in Quiet(said, unread) |-> run.prior.open[f]] \in Tracking
  <1>1. run.prior.open \in Tracking
    BY DEF RereviewTypeOK, Run, State
  <1>2. Before \subseteq DOMAIN run.prior.open /\ Quiet(said, unread) \subseteq Before
    BY DEF Before, Quiet, SilencedOf
  <1>3. DOMAIN run.prior.open \subseteq Findings
    BY <1>1, TrackingElim
  <1>4. \A f \in Quiet(said, unread) : run.prior.open[f] \in Record
    BY <1>1, <1>2, TrackingElim
  <1>5. [f \in Quiet(said, unread) |-> run.prior.open[f]] \in [Quiet(said, unread) -> Record]
    BY <1>4
  <1>6. QED
    BY <1>2, <1>3, <1>5, TrackingIntro

\* What a run adds to the history.
Entries(done) ==
  {<<f, run.base[f], run.head.ver[f], TierAt(run.base, run.head)>> : f \in run.scope \cap done}

LEMMA EntryTypes ==
  ASSUME RereviewTypeOK, run.phase # "idle", NEW done
  PROVE  reviewed \cup Entries(done) \subseteq Files \X Versions \X Versions \X Nat
  <1>1. run.head \in Commit /\ run.base \in Tree /\ run.scope \subseteq Files
    BY DEF RereviewTypeOK, Run
  <1>2. ASSUME NEW f \in run.scope \cap done
        PROVE  <<f, run.base[f], run.head.ver[f], TierAt(run.base, run.head)>>
                 \in Files \X Versions \X Versions \X Nat
    BY <1>1, <1>2, TierIsNat DEF Commit, Tree
  <1>3. QED
    BY <1>2 DEF RereviewTypeOK, Entries

LEMMA TypeReview ==
  ASSUME RereviewTypeOK, NEW done \in SUBSET run.scope,
         NEW said \in Partial(Reportable, Severity),
         NEW check \in [ToCheck(said) -> Outcomes],
         NEW final \in Partial(DOMAIN check, Severity), NEW unread \in SUBSET Before,
         Review(done, said, check, final, unread)
  PROVE  RereviewTypeOK'
  <1> DEFINE report == ReportOf(done, said, check, final, unread)
             quiet == [f \in Quiet(said, unread) |-> run.prior.open[f]]
  <1>1. run \in Run /\ run.scope \subseteq Files
    BY DEF RereviewTypeOK, Run
  <1>2. DOMAIN final \subseteq Kept(said, check)
    BY DEF Review
  <1>3. quiet \in Tracking /\ DOMAIN quiet = Quiet(said, unread)
    BY EarlierTypes
  <1>4. AlreadyCommented \in SUBSET Findings
    <2>1. DOMAIN run.prior.open \subseteq Findings
      BY EarlierTypes
    <2>2. run.prior.posted \subseteq Findings /\ run.own \subseteq Findings
      BY <1>1 DEF Run, State
    <2>3. QED
      BY <2>1, <2>2 DEF AlreadyCommented
  <1>5. Unverified(said, check) \in BOOLEAN
    BY DEF Unverified
  <1>6. /\ report.found = Found(check, final) /\ report.quiet = quiet
        /\ report.open = Quiet(said, unread) \ run.declined
        /\ report \in Report
    <2>1. Quiet(said, unread) \in SUBSET Findings
      BY EarlierTypes
    <2>2. /\ Found(check, final) \in Tracking /\ DOMAIN said \in SUBSET Findings
          /\ run.scope \ done \in SUBSET Files
      BY <1>1, <1>2, AnswerTypes
    <2> HIDE DEF quiet
    <2>3. report = [found |-> Found(check, final), quiet |-> quiet,
                    open |-> Quiet(said, unread) \ run.declined,
                    reported |-> DOMAIN said, unfinished |-> run.scope \ done,
                    unverified |-> Unverified(said, check), commented |-> AlreadyCommented]
      BY DEF ReportOf, quiet
    <2> HIDE DEF report
    <2>4. QED
      BY <1>3, <1>4, <1>5, <2>1, <2>2, <2>3 DEF Report
  <1>7. DOMAIN report.found \cap DOMAIN report.quiet = {} /\ report.open \subseteq DOMAIN report.quiet
    <2>1. DOMAIN report.found \subseteq ToCheck(said)
      BY <1>2, <1>6, AnswerTypes DEF Kept
    <2>2. ToCheck(said) \cap Quiet(said, unread) = {}
      BY DEF ToCheck, Quiet
    <2>3. QED
      BY <1>3, <1>6, <2>1, <2>2
  <1>8. run' = [Idle EXCEPT !.phase = "checked", !.head = run.head, !.base = run.base,
                            !.from = run.from, !.compared = run.compared,
                            !.listed = run.listed, !.memory = run.memory, !.report = report]
    BY DEF Review
  <1> HIDE DEF report
  <1>9. run' \in Run /\ run'.report = report /\ run'.head \in Commit
    BY <1>1, <1>6, <1>8, EmptyTypes, ZenonT(60) DEF Run, Idle, RereviewTypeOK, Review
  <1>10. reviewed' \subseteq Files \X Versions \X Versions \X Nat
    BY EntryTypes DEF Review, Entries
  <1>11. UNCHANGED <<people, runs, summary, threads>>
    BY DEF Review
  <1>12. QED
    BY <1>7, <1>9, <1>10, <1>11 DEF RereviewTypeOK, people

LEMMA ThreadTypes ==
  ASSUME NEW s \in Shown, NEW t \in Shown
  PROVE  MoreSevere(s, t) \in Shown
  BY DEF MoreSevere

LEMMA TypePost ==
  ASSUME RereviewTypeOK, NEW posted \in SUBSET DOMAIN run.report.found, PostInline(posted)
  PROVE  RereviewTypeOK'
  <1>1. run \in Run /\ run.report \in Report
    BY DEF RereviewTypeOK, Run
  <1>2. run.report.found \in Tracking /\ posted \subseteq Findings
    BY <1>1, TrackingElim DEF Report
  <1>3. threads' \in [Findings -> Thread]
    <2>1. ASSUME NEW f \in Findings
          PROVE  threads'[f] \in Thread
      <3>1. threads[f] \in Thread
        BY DEF RereviewTypeOK
      <3>2. CASE f \in posted
        <4>1. run.report.found[f].sev \in Shown
          BY <1>2, <3>2, TrackingElim DEF Record, Shown
        <4>2. threads'[f] =
                [threads[f] EXCEPT !.shown = MoreSevere(threads[f].shown, run.report.found[f].sev)]
          BY <3>2 DEF PostInline
        <4>3. QED
          BY <3>1, <4>1, <4>2, ThreadTypes DEF Thread
      <3>3. CASE f \notin posted
        BY <3>1, <3>3 DEF PostInline
      <3>4. QED
        BY <3>2, <3>3
    <2>2. threads' = [f \in Findings |-> threads'[f]]
      BY DEF PostInline
    <2>3. QED
      BY <2>1, <2>2
  <1>4. /\ run' \in Run /\ run'.phase = "posted" /\ run'.head = run.head
        /\ run'.report = [run.report EXCEPT !.commented = run.report.commented \cup posted]
    <2>1. run' = [run EXCEPT !.phase = "posted", !.report =
                    [run.report EXCEPT !.commented = run.report.commented \cup posted]]
      BY <1>1 DEF PostInline, Run, Report
    <2>2. [run.report EXCEPT !.commented = run.report.commented \cup posted] \in Report
      BY <1>1, <1>2 DEF Report
    <2>3. QED
      BY <1>1, <2>1, <2>2 DEF Run
  <1>5. /\ run'.report.found = run.report.found /\ run'.report.quiet = run.report.quiet
        /\ run'.report.open = run.report.open
    BY <1>1, <1>4 DEF Report
  <1>6. run.phase = "checked" /\ UNCHANGED <<people, runs, summary, reviewed>>
    BY DEF PostInline
  <1>7. QED
    BY <1>3, <1>4, <1>5, <1>6 DEF RereviewTypeOK, people

LEMMA TypeSummary ==
  ASSUME RereviewTypeOK, NEW fits \in BOOLEAN, WriteSummary(fits)
  PROVE  RereviewTypeOK'
  <1>1. run \in Run /\ run.report \in Report
    BY DEF RereviewTypeOK, Run
  <1>2. run.report.found \in Tracking /\ run.report.quiet \in Tracking
    BY <1>1 DEF Report
  <1>3. NextOpen \in Tracking
    <2>1. ASSUME NEW f \in DOMAIN run.report.found
          PROVE  [run.report.found[f] EXCEPT !.commented = f \in run.report.commented] \in Record
      <3>1. run.report.found[f] \in Record
        BY <1>2, TrackingElim
      <3>2. (f \in run.report.commented) \in BOOLEAN
        OBVIOUS
      <3>3. QED
        BY <3>1, <3>2 DEF Record
    <2>2. \A f \in DOMAIN run.report.quiet : run.report.quiet[f] \in Record
      BY <1>2, TrackingElim
    <2>3. NextOpen \in [DOMAIN run.report.found \cup DOMAIN run.report.quiet -> Record]
      BY <2>1, <2>2 DEF NextOpen
    <2>4. QED
      BY <1>2, <2>3, TrackingElim, TrackingIntro
  <1>4. Posted \subseteq Findings /\ DOMAIN NextOpen \cap Posted = {}
    BY <1>1 DEF Posted, Report
  <1>5. /\ summary' = [open |-> NextOpen, posted |-> Posted,
                       head |-> IF fits THEN run.head ELSE NoCommit,
                       pending |-> IF fits THEN run.report.unfinished ELSE {},
                       tier |-> TierAt(run.base, run.head), from |-> run.from]
        /\ run' = Idle /\ UNCHANGED <<people, runs, threads, reviewed>>
    BY DEF WriteSummary, Pending
  <1>6. summary' \in State
    <2>1. run.head \in Commit /\ run.base \in Tree /\ run.from \in Tree
      BY <1>1 DEF WriteSummary, RereviewTypeOK, Run
    <2>2. TierAt(run.base, run.head) \in Nat
      BY <2>1, TierIsNat
    <2>3. QED
      BY <1>1, <1>3, <1>4, <1>5, <2>1, <2>2 DEF State, Report
  <1>7. QED
    BY <1>4, <1>5, <1>6, EmptyTypes DEF RereviewTypeOK, Idle, NoReport, people

LEMMA TypeElse ==
  ASSUME RereviewTypeOK, Crash \/ UNCHANGED vars
  PROVE  RereviewTypeOK'
  <1>1. run' \in {run, Idle} /\ UNCHANGED <<people, summary, threads, reviewed, runs>>
    BY DEF Crash, vars, people
  <1>2. CASE run' = run
    BY <1>1, <1>2 DEF RereviewTypeOK, people
  <1>3. CASE run' = Idle
    <2>1. /\ Idle \in Run /\ Idle.phase = "idle" /\ Idle.report.open = {}
          /\ DOMAIN Idle.report.found = {}
      BY EmptyTypes DEF Idle, NoReport
    <2>2. QED
      BY <1>1, <1>3, <2>1 DEF RereviewTypeOK, people
  <1>4. QED
    BY <1>1, <1>2, <1>3

LEMMA TypePeople ==
  ASSUME RereviewTypeOK, PeopleStep
  PROVE  RereviewTypeOK'
  <1> USE DEF Push, Accept, Decline, EditSummary
  <1>1. acts' \in Nat /\ UNCHANGED <<run, reviewed, runs>>
    BY DEF PeopleStep, RereviewTypeOK
  <1>2. branch' \in Commit /\ base' \in Tree /\ accepted' \subseteq Findings
    BY DEF PeopleStep, RereviewTypeOK
  <1>3. summary' = summary \/ summary' = NoSummary
    BY DEF PeopleStep
  <1>4. summary' \in State /\ DOMAIN summary'.open \cap summary'.posted = {}
    <2>1. NoSummary \in State /\ DOMAIN NoSummary.open \cap NoSummary.posted = {}
      BY EmptyTypes DEF NoSummary
    <2>2. QED
      BY <1>3, <2>1 DEF RereviewTypeOK
  <1>5. threads' \in [Findings -> Thread]
    <2>1. CASE \E f \in Findings : Decline(f)
      <3>1. PICK f \in Findings : Decline(f)
        BY <2>1
      <3> DEFINE seen == IF f \in DOMAIN summary.open THEN summary.open[f].sev ELSE "no"
                 declined == MoreSevere(threads[f].shown, seen)
      <3>2. seen \in Shown
        BY TrackingElim DEF RereviewTypeOK, State, Record, Shown
      <3>3. threads[f] \in Thread
        BY DEF RereviewTypeOK
      <3>4. declined \in Shown
        BY <3>2, <3>3, ThreadTypes DEF Thread
      <3>5. threads' = [threads EXCEPT ![f].declined = declined]
        BY <3>1 DEF Decline
      <3> HIDE DEF seen, declined
      <3>6. [threads[f] EXCEPT !.declined = declined] \in Thread
        BY <3>3, <3>4 DEF Thread
      <3>7. QED
        BY <3>5, <3>6 DEF RereviewTypeOK
    <2>2. CASE UNCHANGED threads
      BY <2>2 DEF RereviewTypeOK
    <2>3. QED
      BY <2>1, <2>2 DEF PeopleStep, Push, Accept, EditSummary
  <1>6. QED
    BY <1>1, <1>2, <1>4, <1>5 DEF RereviewTypeOK

LEMMA TypeInit == Init => RereviewTypeOK
  <1>1. SUFFICES ASSUME Init PROVE RereviewTypeOK
    OBVIOUS
  <1>2. branch \in Commit /\ base \in Tree
    <2>1. 0 \in 0..MaxLine
      BY RereviewAssumption, MaxLine \in Nat
    <2>2. QED
      BY <1>1, <2>1, RereviewAssumption DEF Init, Commit
  <1>3. 0 \in 0..MaxRuns
    BY RereviewAssumption, MaxRuns \in Nat
  <1>4. threads \in [Findings -> Thread]
    BY <1>1 DEF Init, Thread, Shown
  <1>5. summary = NoSummary /\ run = Idle
    BY <1>1 DEF Init
  <1>6. accepted = {} /\ reviewed = {} /\ runs = 0 /\ acts = 0
    BY <1>1 DEF Init
  <1>7. /\ summary.open = NothingTracked /\ summary.posted = {}
        /\ run.phase = "idle" /\ run.report.open = {} /\ run.report.found = NothingTracked
    BY <1>5 DEF NoSummary, Idle, NoReport
  <1>8. QED
    BY <1>2, <1>3, <1>4, <1>5, <1>6, <1>7, EmptyTypes DEF RereviewTypeOK

LEMMA TypeNext == RereviewTypeOK /\ [Next]_vars => RereviewTypeOK'
  <1>1. SUFFICES ASSUME RereviewTypeOK, [Next]_vars PROVE RereviewTypeOK'
    OBVIOUS
  <1>2. CASE RunStep
    BY <1>1, <1>2, TypeStart, TypeReview, TypePost, TypeSummary, TypeElse DEF RunStep
  <1>3. CASE PeopleStep
    BY <1>1, <1>3, TypePeople
  <1>4. CASE UNCHANGED vars
    BY <1>1, <1>4, TypeElse
  <1>5. QED
    BY <1>1, <1>2, <1>3, <1>4 DEF Next

\* Every variable has its type, a finding is never both reported and carried
\* over, and the state lists no tracked finding as untracked.
THEOREM RereviewTypes == Spec => []RereviewTypeOK
  <1>1. QED
    BY TypeInit, TypeNext, PTL DEF Spec

-----------------------------------------------------------------------------
(* The scope of a review.                                                  *)

LEMMA ScopeStart ==
  ASSUME RereviewTypeOK, ScopeInv, NEW known \in BOOLEAN, NEW compared \in BOOLEAN,
         NEW full \in BOOLEAN, NEW listed, StartRun(known, compared, full, listed)
  PROVE  ScopeInv'
  <1> DEFINE prior == IF known THEN summary ELSE NoSummary
             only == compared /\ ~full
             from == [f \in Files |-> IF f \in LeftOut(prior, only) THEN prior.from[f] ELSE base[f]]
  <1>1. /\ run'.phase = "planned" /\ run'.head = branch /\ run'.base = base
        /\ run'.from = from /\ run'.scope = InScope(prior, only)
    BY DEF StartRun, Idle
  <1>2. UNCHANGED <<branch, base, summary, reviewed>>
    BY DEF StartRun, people
  <1>3. InScope(prior, only) \subseteq SelectedAt(base, branch)
    BY DEF InScope
  <1>4. ASSUME NEW f \in Files, f \notin LeftOut(prior, only)
        PROVE  from[f] = base[f]
    BY <1>4
  <1>5. ASSUME NEW f \in SelectedAt(from, branch) \ InScope(prior, only)
        PROVE  ReviewedIn(f, from, branch, TierAt(base, branch))
    <2>1. f \in Files /\ <<from[f], branch.ver[f]>> \in Selected[f]
      BY DEF SelectedAt
    <2>2. f \in LeftOut(prior, only)
      BY <1>4, <1>5, <2>1 DEF LeftOut, SelectedAt
    <2>3. from[f] = prior.from[f]
      BY <2>1, <2>2
    <2>4. prior \in {summary, NoSummary} /\ only \in BOOLEAN
      OBVIOUS
    <2> HIDE DEF prior, only, from
    <2>5. ReviewedIn(f, prior.from, branch, TierAt(base, branch))
      BY <2>1, <2>2, <2>3, <2>4, LeftOutWasReviewed
    <2>6. QED
      BY <2>3, <2>5 DEF ReviewedIn
  <1> HIDE DEF prior, only, from
  <1>6. Planned'
    BY <1>1, <1>2, <1>3, <1>4, <1>5
       DEF Planned, SelectedAt, TierAt, ReviewedIn, LeftOut
  <1>7. NoFileForgotten'
    BY <1>2 DEF ScopeInv, NoFileForgotten, SelectedAt, ReviewedIn
  <1>8. QED
    BY <1>1, <1>6, <1>7 DEF ScopeInv, Reported

LEMMA ScopeReview ==
  ASSUME RereviewTypeOK, ScopeInv, NEW done, NEW said, NEW check, NEW final, NEW unread,
         Review(done, said, check, final, unread)
  PROVE  ScopeInv'
  <1>1. /\ run.phase = "planned" /\ run'.phase = "checked" /\ run'.head = run.head
        /\ run'.base = run.base /\ run'.from = run.from
        /\ run'.report.unfinished = run.scope \ done
    BY DEF Review, Idle, ReportOf
  <1>2. summary' = summary
    BY DEF Review
  <1>3. reviewed' = reviewed \cup Entries(done)
    BY DEF Review, Entries
  <1>4. run.head \in Commit /\ run.base \in Tree /\ run.scope \subseteq Files
    BY <1>1 DEF RereviewTypeOK, Run
  <1>5. Planned
    BY DEF ScopeInv
  <1>6. ASSUME NEW f \in SelectedAt(run.from, run.head) \ (run.scope \ done)
        PROVE  ReviewedIn(f, run.from, run.head, TierAt(run.base, run.head))'
    <2>1. CASE f \in run.scope
      <3>1. run.from[f] = run.base[f]
        BY <1>1, <1>4, <1>5, <2>1 DEF Planned
      <3>2. <<f, run.base[f], run.head.ver[f], TierAt(run.base, run.head)>> \in reviewed'
        BY <1>3, <2>1 DEF Entries
      <3>3. TierAt(run.base, run.head) >= TierAt(run.base, run.head)
        BY <1>4, TierIsNat
      <3>4. QED
        BY <1>1, <3>1, <3>2, <3>3 DEF ReviewedIn, TierAt
    <2>2. CASE f \notin run.scope
      <3>1. ReviewedIn(f, run.from, run.head, TierAt(run.base, run.head))
        BY <1>1, <1>5, <2>2 DEF Planned
      <3>2. QED
        BY <1>1, <1>3, <3>1 DEF ReviewedIn, TierAt
    <2>3. QED
      BY <2>1, <2>2
  <1>7. Reported'
    BY <1>1, <1>6 DEF Reported, SelectedAt
  <1>8. NoFileForgotten'
    BY <1>2, <1>3 DEF ScopeInv, NoFileForgotten, SelectedAt, ReviewedIn
  <1>9. QED
    BY <1>1, <1>7, <1>8 DEF ScopeInv, Planned

LEMMA ScopeSummary ==
  ASSUME RereviewTypeOK, ScopeInv, NEW fits \in BOOLEAN, WriteSummary(fits)
  PROVE  ScopeInv'
  <1>1. run.phase = "posted" /\ run'.phase = "idle" /\ UNCHANGED reviewed
    BY DEF WriteSummary, Idle
  <1>2. /\ summary'.head = IF fits THEN run.head ELSE NoCommit
        /\ summary'.pending = IF fits THEN run.report.unfinished ELSE {}
        /\ summary'.tier = TierAt(run.base, run.head) /\ summary'.from = run.from
    BY DEF WriteSummary, Pending
  <1>3. NoFileForgotten'
    <2>1. CASE fits
      BY <1>1, <1>2, <2>1 DEF ScopeInv, NoFileForgotten, Reported, SelectedAt, ReviewedIn
    <2>2. CASE ~fits
      BY <1>2, <2>2 DEF NoFileForgotten
    <2>3. QED
      BY <2>1, <2>2
  <1>4. QED
    BY <1>1, <1>3 DEF ScopeInv, Planned, Reported

LEMMA ScopeElse ==
  ASSUME RereviewTypeOK, ScopeInv,
         \/ \E posted \in SUBSET DOMAIN run.report.found : PostInline(posted)
         \/ Crash
         \/ \E c \in Commit, b \in Tree : Push(c, b)
         \/ \E f \in Findings : Accept(f) \/ Decline(f)
         \/ EditSummary
         \/ UNCHANGED vars
  PROVE  ScopeInv'
  <1>1. CASE \E posted \in SUBSET DOMAIN run.report.found : PostInline(posted)
    <2>1. run \in Run /\ run.report \in Report
      BY DEF RereviewTypeOK, Run
    <2>2. /\ run.phase = "checked" /\ run'.phase = "posted" /\ run'.head = run.head
          /\ run'.base = run.base /\ run'.from = run.from
          /\ run'.report.unfinished = run.report.unfinished
          /\ UNCHANGED <<summary, reviewed>>
      BY <1>1, <2>1, ZenonT(60) DEF PostInline, Run, Report
    <2>3. QED
      BY <2>2 DEF ScopeInv, NoFileForgotten, Planned, Reported, SelectedAt, TierAt, ReviewedIn
  <1>2. CASE Crash
    <2>1. run'.phase = "idle" /\ UNCHANGED <<summary, reviewed>>
      BY <1>2 DEF Crash, Idle
    <2>2. QED
      BY <2>1 DEF ScopeInv, NoFileForgotten, Planned, Reported, SelectedAt, TierAt, ReviewedIn
  <1>3. CASE \/ \E c \in Commit, b \in Tree : Push(c, b)
             \/ \E f \in Findings : Accept(f) \/ Decline(f)
             \/ UNCHANGED vars
    <2>1. UNCHANGED <<run, summary, reviewed>>
      BY <1>3 DEF Push, Accept, Decline, vars
    <2>2. QED
      BY <2>1 DEF ScopeInv, NoFileForgotten, Planned, Reported, SelectedAt, TierAt, ReviewedIn
  <1>4. CASE EditSummary
    <2>1. summary'.head = NoCommit /\ UNCHANGED <<run, reviewed>>
      BY <1>4 DEF EditSummary, NoSummary
    <2>2. QED
      BY <2>1 DEF ScopeInv, NoFileForgotten, Planned, Reported, SelectedAt, TierAt, ReviewedIn
  <1>5. QED
    BY <1>1, <1>2, <1>3, <1>4

LEMMA ScopeInit == Init => ScopeInv
  BY DEF Init, Idle, NoSummary, ScopeInv, NoFileForgotten, Planned, Reported

LEMMA ScopeNext == RereviewTypeOK /\ ScopeInv /\ [Next]_vars => ScopeInv'
  <1>1. SUFFICES ASSUME RereviewTypeOK, ScopeInv, [Next]_vars PROVE ScopeInv'
    OBVIOUS
  <1>2. CASE RunStep
    BY <1>1, <1>2, ScopeStart, ScopeReview, ScopeSummary, ScopeElse DEF RunStep
  <1>3. CASE PeopleStep
    BY <1>1, <1>3, ScopeElse DEF PeopleStep
  <1>4. CASE UNCHANGED vars
    BY <1>1, <1>4, ScopeElse
  <1>5. QED
    BY <1>1, <1>2, <1>3, <1>4 DEF Next

\* A difference that a re-review leaves out as "unchanged" was reviewed in full by
\* some earlier run as it is now, for a tier no lower than the change's, unless the
\* file's base has moved since the last run that did not leave it out
\* (plan.ts:110-121, history.ts:10-51, review.ts:189-204).
THEOREM LeftOutSafely == Spec => []UnchangedWasReviewed
  <1>1. ScopeInv => UnchangedWasReviewed
    <2>1. SUFFICES ASSUME ScopeInv, run.phase = "planned",
                          NEW f \in SelectedAt(run.base, run.head) \ run.scope,
                          run.base[f] = run.from[f]
                   PROVE  ReviewedIn(f, run.base, run.head, TierAt(run.base, run.head))
      BY DEF UnchangedWasReviewed
    <2>2. f \in SelectedAt(run.from, run.head) \ run.scope
      BY <2>1 DEF SelectedAt
    <2>3. ReviewedIn(f, run.from, run.head, TierAt(run.base, run.head))
      BY <2>1, <2>2 DEF ScopeInv, Planned
    <2>4. QED
      BY <2>1, <2>3 DEF ReviewedIn
  <1>2. QED
    BY <1>1, RereviewTypes, ScopeInit, ScopeNext, PTL DEF Spec

\* The state a run leaves in its summary lists every file whose difference, from
\* the base of the last run that did not leave it out, no run has reviewed as it is
\* (review.ts:297-312, state.ts:92-129).
THEOREM SummaryForgetsNoFile == Spec => []NoFileForgotten
  <1>1. ScopeInv => NoFileForgotten
    BY DEF ScopeInv
  <1>2. QED
    BY <1>1, RereviewTypes, ScopeInit, ScopeNext, PTL DEF Spec

\* Both: while its base stays, what no run has reviewed as it is stays in scope, of
\* the run that plans and of the run that will read the summary (plan.ts:110-121,
\* review.ts:297-312).
THEOREM UnreviewedStaysAlways == Spec => []UnreviewedStays
  <1>1. QED
    BY LeftOutSafely, SummaryForgetsNoFile, PTL DEF UnreviewedStays

-----------------------------------------------------------------------------
(* Inline comments: what a run that could list ocra's threads knows.       *)

CommentInv ==
  /\ (run.phase = "planned" /\ run.listed) => Commented \subseteq run.own
  /\ (run.phase = "checked" /\ run.listed) => Commented \subseteq run.report.commented

LEMMA CommentStep ==
  ASSUME RereviewTypeOK, CommentInv, [Next]_vars
  PROVE  CommentInv'
  <1>1. ASSUME NEW known, NEW compared, NEW full, NEW listed,
               StartRun(known, compared, full, listed)
        PROVE  CommentInv'
    <2>1. /\ run'.phase = "planned" /\ run'.listed = (listed \/ Commented = {})
          /\ run'.own = IF listed THEN Commented ELSE {}
          /\ threads' = threads
      BY <1>1 DEF StartRun, Idle
    <2>2. QED
      BY <2>1 DEF CommentInv, Commented
  <1>2. ASSUME NEW done, NEW said, NEW check, NEW final, NEW unread,
               Review(done, said, check, final, unread)
        PROVE  CommentInv'
    <2>1. /\ run.phase = "planned" /\ run'.phase = "checked" /\ run'.listed = run.listed
          /\ run'.report.commented = AlreadyCommented /\ threads' = threads
      BY <1>2 DEF Review, Idle, ReportOf
    <2>2. QED
      BY <2>1 DEF CommentInv, Commented, AlreadyCommented
  <1>3. CASE \E posted \in SUBSET DOMAIN run.report.found : PostInline(posted)
    <2>1. run'.phase = "posted"
      BY <1>3 DEF PostInline, RereviewTypeOK, Run
    <2>2. QED
      BY <2>1 DEF CommentInv
  <1>4. CASE (\E fits \in BOOLEAN : WriteSummary(fits)) \/ Crash
    <2>1. run'.phase = "idle"
      BY <1>4 DEF WriteSummary, Crash, Idle
    <2>2. QED
      BY <2>1 DEF CommentInv
  <1>5. CASE PeopleStep
    <2>1. run' = run
      BY <1>5 DEF PeopleStep, Push, Accept, Decline, EditSummary
    <2>2. \A f \in Findings : threads'[f].shown = threads[f].shown
      <3>1. CASE \E f \in Findings : Decline(f)
        BY <3>1 DEF Decline, RereviewTypeOK, Thread
      <3>2. CASE threads' = threads
        BY <3>2
      <3>3. QED
        BY <1>5, <3>1, <3>2 DEF PeopleStep, Push, Accept, EditSummary
    <2>3. QED
      BY <2>1, <2>2 DEF CommentInv, Commented
  <1>6. CASE UNCHANGED vars
    BY <1>6 DEF CommentInv, Commented, vars
  <1>7. QED
    BY <1>1, <1>2, <1>3, <1>4, <1>5, <1>6 DEF Next, RunStep

\* Only posting takes a run from "checked" to "posted".
LEMMA OnlyPostInline ==
  ASSUME RereviewTypeOK, [Next]_vars, run.phase = "checked", run'.phase = "posted"
  PROVE  \E posted \in SUBSET DOMAIN run.report.found : PostInline(posted)
  <1>1. CASE RunStep
    BY <1>1 DEF RunStep, StartRun, Review, WriteSummary, Crash, Idle
  <1>2. CASE PeopleStep \/ UNCHANGED vars
    BY <1>2 DEF PeopleStep, Push, Accept, Decline, EditSummary, vars
  <1>3. QED
    BY <1>1, <1>2 DEF Next

\* A run that could list ocra's threads comments on nothing twice, whatever
\* crashed before it and whoever edited the summary (review.ts:254-271, 326-333).
THEOREM NeverCommentedTwice == Spec => CommentedOnce
  <1>1. Init => CommentInv
    BY DEF Init, Idle, CommentInv
  <1>2. RereviewTypeOK /\ CommentInv /\ [Next]_vars => CommentInv'
    BY CommentStep
  <1>3. ASSUME RereviewTypeOK, CommentInv, [Next]_vars,
               run.phase = "checked", run'.phase = "posted",
               NEW f \in run'.report.commented \ run.report.commented,
               threads[f].shown # "no"
        PROVE  ~run.listed
    <2>1. PICK posted \in SUBSET DOMAIN run.report.found : PostInline(posted)
      BY <1>3, OnlyPostInline
    <2>2. run \in Run /\ run.report \in Report
      BY <1>3 DEF RereviewTypeOK, Run
    <2>3. run'.report.commented = run.report.commented \cup posted
      BY <2>1, <2>2 DEF PostInline, Run, Report
    <2>4. f \in Findings
      BY <1>3, <2>2, <2>3, TrackingElim DEF Report
    <2>5. f \in Commented
      BY <1>3, <2>4 DEF Commented
    <2>6. QED
      BY <1>3, <2>5 DEF CommentInv
  <1>4. RereviewTypeOK /\ CommentInv /\ [Next]_vars =>
          [(run.phase = "checked" /\ run'.phase = "posted") =>
             \A f \in run'.report.commented \ run.report.commented :
               threads[f].shown # "no" => ~run.listed]_vars
    BY <1>3
  <1>5. QED
    BY <1>1, <1>2, <1>4, RereviewTypes, PTL DEF Spec, CommentedOnce

-----------------------------------------------------------------------------
(* Earlier findings: what becomes of them in the run that reads them.      *)

\* An earlier finding the report says nothing of is settled.
Settled(f) ==
  \/ f \in run.report.reported
  \/ ~CodeAt(f, run.head)
  \/ f \in run.memory

\* The others are carried over as they were, and count unless dismissed.
Carried(f) ==
  /\ f \in DOMAIN run.report.quiet
  /\ run.report.quiet[f] = summary.open[f]
  /\ f \in run.report.open \/ threads[f].declined # "no"

CarryInv ==
  /\ run.phase = "planned" =>
       /\ run.compared => summary \in {run.prior, NoSummary}
       /\ \A f \in run.declined : threads[f].declined # "no"
  /\ (run.phase \in {"checked", "posted"} /\ run.compared) =>
       \A f \in DOMAIN summary.open : Settled(f) \/ Carried(f)

LEMMA StillDeclined ==
  ASSUME NEW s \in Severity, NEW t \in Shown
  PROVE  MoreSevere(s, t) # "no"
  BY DEF MoreSevere, Rank, Severity, Shown

LEMMA CarryStart ==
  ASSUME RereviewTypeOK, NEW known, NEW compared, NEW full, NEW listed,
         StartRun(known, compared, full, listed)
  PROVE  CarryInv'
  <1> DEFINE prior == IF known THEN summary ELSE NoSummary
  <1>1. /\ run'.phase = "planned" /\ run'.prior = prior
        /\ run'.compared = (compared /\ prior # NoSummary)
        /\ run'.declined = IF listed THEN DismissedIn(prior) ELSE {}
        /\ UNCHANGED <<summary, threads>>
    BY DEF StartRun, Idle
  <1>2. QED
    BY <1>1 DEF CarryInv, DismissedIn

LEMMA CarryReview ==
  ASSUME RereviewTypeOK, CarryInv, NEW done, NEW said, NEW check, NEW final, NEW unread,
         Review(done, said, check, final, unread)
  PROVE  CarryInv'
  <1>1. /\ run.phase = "planned" /\ run'.phase = "checked"
        /\ run'.compared = run.compared /\ run'.head = run.head /\ run'.memory = run.memory
        /\ run'.report = ReportOf(done, said, check, final, unread)
        /\ UNCHANGED <<summary, threads>>
    BY DEF Review, Idle
  <1>2. /\ run'.report.reported = DOMAIN said
        /\ run'.report.quiet = [f \in Quiet(said, unread) |-> run.prior.open[f]]
        /\ run'.report.open = Quiet(said, unread) \ run.declined
    BY <1>1 DEF ReportOf
  <1>3. ASSUME run.compared, NEW f \in DOMAIN summary.open
        PROVE  (Settled(f) \/ Carried(f))'
    <2>1. summary = run.prior
      BY <1>1, <1>3, EmptyTypes DEF CarryInv, NoSummary
    <2>2. f \in DOMAIN said \/ f \in run.memory \/ ~CodeAt(f, run.head) \/ f \in Quiet(said, unread)
      BY <1>3, <2>1 DEF Quiet, Before
    <2>3. CASE f \in Quiet(said, unread)
      <3>1. /\ f \in DOMAIN run'.report.quiet /\ run'.report.quiet[f] = summary'.open[f]
            /\ f \in run'.report.open \/ f \in run.declined
        BY <1>1, <1>2, <2>1, <2>3
      <3>2. f \in run.declined => threads'[f].declined # "no"
        BY <1>1 DEF CarryInv
      <3>3. QED
        BY <3>1, <3>2 DEF Carried
    <2>4. CASE f \in DOMAIN said \/ f \in run.memory \/ ~CodeAt(f, run.head)
      BY <1>1, <1>2, <2>4 DEF Settled, CodeAt
    <2>5. QED
      BY <2>2, <2>3, <2>4
  <1>4. QED
    BY <1>1, <1>3 DEF CarryInv

LEMMA CarryPost ==
  ASSUME RereviewTypeOK, CarryInv, NEW posted \in SUBSET DOMAIN run.report.found,
         PostInline(posted)
  PROVE  CarryInv'
  <1>1. run \in Run /\ run.report \in Report
    BY DEF RereviewTypeOK, Run
  <1>2. /\ run.phase = "checked" /\ run'.phase = "posted" /\ run'.compared = run.compared
        /\ run'.head = run.head /\ run'.memory = run.memory
        /\ run'.report.reported = run.report.reported
        /\ run'.report.quiet = run.report.quiet /\ run'.report.open = run.report.open
        /\ summary' = summary
    BY <1>1 DEF PostInline, Run, Report
  <1>3. \A f \in Findings : threads'[f].declined = threads[f].declined
    BY DEF PostInline, RereviewTypeOK, Thread
  <1>4. DOMAIN summary.open \subseteq Findings
    BY TrackingElim DEF RereviewTypeOK, State
  <1>5. QED
    BY <1>2, <1>3, <1>4 DEF CarryInv, Settled, Carried, CodeAt

LEMMA CarryPeople ==
  ASSUME RereviewTypeOK, CarryInv, PeopleStep
  PROVE  CarryInv'
  <1>1. run' = run
    BY DEF PeopleStep, Push, Accept, Decline, EditSummary
  <1>2. summary' = summary \/ summary' = NoSummary
    BY DEF PeopleStep, Push, Accept, Decline, EditSummary
  <1>3. ASSUME NEW f \in Findings, threads[f].declined # "no"
        PROVE  threads'[f].declined # "no"
    <2>1. CASE \E g \in Findings : Decline(g)
      <3>1. PICK g \in Findings : Decline(g)
        BY <2>1
      <3> DEFINE seen == IF g \in DOMAIN summary.open THEN summary.open[g].sev ELSE "no"
      <3>2. seen \in Shown
        BY TrackingElim DEF RereviewTypeOK, State, Record, Shown
      <3>3. threads \in [Findings -> Thread] /\ threads[g].shown \in Severity
        BY <3>1 DEF RereviewTypeOK, Thread, Shown, Decline
      <3>4. MoreSevere(threads[g].shown, seen) # "no"
        BY <3>2, <3>3, StillDeclined
      <3>5. threads' = [threads EXCEPT ![g].declined = MoreSevere(threads[g].shown, seen)]
        BY <3>1 DEF Decline
      <3> HIDE DEF seen
      <3>6. QED
        BY <1>3, <3>3, <3>4, <3>5 DEF Thread
    <2>2. CASE threads' = threads
      BY <1>3, <2>2
    <2>3. QED
      BY <2>1, <2>2 DEF PeopleStep, Push, Accept, EditSummary
  <1>4. DOMAIN summary.open \subseteq Findings /\ DOMAIN NoSummary.open = {}
    BY TrackingElim, EmptyTypes DEF RereviewTypeOK, State, NoSummary
  <1>5. run.declined \subseteq Findings
    BY DEF RereviewTypeOK, Run
  <1>6. QED
    BY <1>1, <1>2, <1>3, <1>4, <1>5 DEF CarryInv, Settled, Carried, CodeAt

LEMMA CarryStep ==
  ASSUME RereviewTypeOK, CarryInv, [Next]_vars
  PROVE  CarryInv'
  <1>1. CASE (\E fits \in BOOLEAN : WriteSummary(fits)) \/ Crash
    <2>1. run'.phase = "idle"
      BY <1>1 DEF WriteSummary, Crash, Idle
    <2>2. QED
      BY <2>1 DEF CarryInv
  <1>2. CASE UNCHANGED vars
    BY <1>2 DEF vars, CarryInv, Settled, Carried, CodeAt
  <1>3. QED
    BY <1>1, <1>2, CarryStart, CarryReview, CarryPost, CarryPeople DEF Next, RunStep

\* Only a run that has posted its comments writes the summary.
LEMMA OnlyWriteSummary ==
  ASSUME [Next]_vars, SummaryWritten
  PROVE  summary'.open = NextOpen
  <1>1. run.phase = "posted" /\ run'.phase = "idle" /\ summary' # summary
    BY DEF SummaryWritten, Idle
  <1>2. CASE RunStep
    BY <1>1, <1>2 DEF RunStep, StartRun, Review, PostInline, WriteSummary, Crash
  <1>3. CASE PeopleStep \/ UNCHANGED vars
    BY <1>1, <1>3 DEF PeopleStep, Push, Accept, Decline, EditSummary, vars
  <1>4. QED
    BY <1>2, <1>3 DEF Next

\* An earlier finding leaves the state only if the run reported it itself, its
\* code is gone or the team accepted it (reconcile.ts:53-74, review.ts:273-296).
THEOREM NoFindingForgotten == Spec => OpenUntilSettled
  <1>1. Init => CarryInv
    BY DEF Init, Idle, CarryInv
  <1>2. ASSUME RereviewTypeOK, CarryInv, [Next]_vars, SummaryWritten, run.compared,
               NEW f \in DOMAIN summary.open \ DOMAIN summary'.open
        PROVE  Settled(f)
    <2>1. f \notin DOMAIN run.report.quiet
      BY <1>2, OnlyWriteSummary DEF NextOpen
    <2>2. QED
      BY <1>2, <2>1 DEF CarryInv, SummaryWritten, Carried
  <1>3. RereviewTypeOK /\ CarryInv /\ [Next]_vars =>
          [(SummaryWritten /\ run.compared) =>
             \A f \in DOMAIN summary.open \ DOMAIN summary'.open :
               \/ f \in run.report.reported
               \/ ~CodeAt(f, run.head)
               \/ f \in run.memory]_vars
    BY <1>2 DEF Settled
  <1>4. RereviewTypeOK /\ CarryInv /\ [Next]_vars => CarryInv'
    BY CarryStep
  <1>5. QED
    BY <1>1, <1>3, <1>4, RereviewTypes, PTL DEF Spec, OpenUntilSettled

\* No run passes over an earlier blocking finding that nobody settled, decided
\* anew or dismissed (reconcile.ts:77-81, exit-code.ts:11-32).
THEOREM BlockersStand == Spec => BlockerStands
  <1>1. Init => CarryInv
    BY DEF Init, Idle, CarryInv
  <1>2. ASSUME RereviewTypeOK, CarryInv, SummaryWritten, run.compared,
               ExitCode(run.report) = "ok", NEW f \in DOMAIN summary.open,
               Protected(summary.open[f].sev, summary.open[f].check)
        PROVE  Settled(f) \/ threads[f].declined # "no"
    <2>1. ~Blocking(run.report)
      BY <1>2 DEF ExitCode
    <2>2. CASE Carried(f) /\ f \in run.report.open
      <3>1. run.report.quiet[f] \in Counted(run.report)
        BY <2>2 DEF Counted
      <3>2. run.report.quiet[f].sev = "critical" /\ run.report.quiet[f].check = "confirmed"
        BY <1>2, <2>2 DEF Carried, Protected
      <3>3. QED
        BY <2>1, <3>1, <3>2 DEF Blocking
    <2>3. QED
      BY <1>2, <2>2 DEF CarryInv, SummaryWritten, Carried
  <1>3. RereviewTypeOK /\ CarryInv /\ [Next]_vars =>
          [(SummaryWritten /\ run.compared /\ ExitCode(run.report) = "ok") =>
             \A f \in DOMAIN summary.open :
               Protected(summary.open[f].sev, summary.open[f].check) =>
                 \/ f \in run.report.reported
                 \/ ~CodeAt(f, run.head)
                 \/ f \in run.memory
                 \/ threads[f].declined # "no"]_vars
    BY <1>2 DEF Settled
  <1>4. RereviewTypeOK /\ CarryInv /\ [Next]_vars => CarryInv'
    BY CarryStep
  <1>5. QED
    BY <1>1, <1>3, <1>4, RereviewTypes, PTL DEF Spec, BlockerStands
=============================================================================
