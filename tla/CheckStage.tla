----------------------------- MODULE CheckStage ------------------------------
(***************************************************************************)
(* The end of a run: Verify fact-checks the findings file by file, several *)
(* files at a time (core/verify/verify.ts), the judge merges, drops and    *)
(* recalibrates what is left (judge/judge.ts), the rubric gives the        *)
(* verdict (judge/verdict.ts), and report and exit code say what it is     *)
(* worth (pipeline/check-stage.ts, assemble-report.ts, exit-code.ts).      *)
(* Every call draws on the run's spend limit.                              *)
(*                                                                         *)
(* What the models answer is any answer; what a call costs is any cost up  *)
(* to MaxCall, also when it fails.                                         *)
(***************************************************************************)
EXTENDS SpendLimit, Functions, Sequences, FiniteSets

CONSTANTS
  Files,         \* files with findings, in the order they were first reported
  FindingsOf,    \* how many findings each of them has
  Severities,    \* the severities they come with
  Carried,       \* earlier findings that may still be open, as the verdict reads them
  JudgeAnswers,  \* what the judge may answer: merges, drops and severities
  Concurrency,
  MaxCall,       \* bound: what one call costs
  PatternWarnings

CheckFiles == Range(Files)
Levels == {"critical", "warning", "suggestion"}

ASSUME CheckAssumption ==
  /\ Files \in Seq(CheckFiles) /\ FindingsOf \in [CheckFiles -> Nat \ {0}]
  /\ Severities \subseteq Levels
  /\ \A answer \in JudgeAnswers : answer.duplicates \in Seq(Seq(Nat))
  /\ Concurrency \in Nat \ {0} /\ MaxCall \in Nat

VARIABLES
  phase,     \* filtered, settings, verify, judge, judging, report, done
  todo,      \* files not yet taken by a verifier
  asked,     \* files a verifier is asked about
  severity,  \* of each finding, as reported
  kept,      \* findings Verify did not refute, in the order they were kept
  missed,    \* findings it should have checked and could not
  paid,      \* history: what the calls cost
  carried,   \* earlier findings still open
  result     \* what the run comes to

checkVars == <<phase, todo, asked, severity, kept, missed, paid, carried, result>>
stageVars == <<spendVars, checkVars>>

-----------------------------------------------------------------------------
Findings == UNION {{f} \X (1..FindingsOf[f]) : f \in CheckFiles}
Verifications == {"confirmed", "uncertain", "unchecked"}
Verdicts == {"approved", "approved_with_comments", "minor_issues", "significant_concerns"}
Exits == {"ok", "blocking", "error", "incomplete"}
KeptFindings ==
  [id : Findings, severity : Levels, verification : Verifications, low : {FALSE}]
NoResult == [verdict |-> "none", unverified |-> 0, exit |-> "none", override |-> FALSE]

StageTypeOK ==
  /\ phase \in {"filtered", "settings", "verify", "judge", "judging", "report", "done"}
  /\ todo \in Seq(CheckFiles) /\ asked \subseteq CheckFiles /\ Cardinality(asked) <= Concurrency
  /\ severity \in [Findings -> Levels]
  /\ kept \in Seq(KeptFindings)
  /\ missed \subseteq Findings
  /\ paid \in Nat /\ spent \in Nat

CheckInit ==
  /\ SpendInit
  /\ phase = "filtered" /\ todo = Files /\ asked = {}
  /\ severity = [id \in Findings |-> "suggestion"] /\ carried = {}
  /\ kept = <<>> /\ missed = {} /\ paid = Planned
  /\ result = NoResult

InFile(f) == [i \in 1..FindingsOf[f] |-> <<f, i>>]
Kept(id, v) == [id |-> id, severity |-> severity[id], verification |-> v, low |-> FALSE]
\* markUnchecked.
Unchecked(ids) == [i \in DOMAIN ids |-> Kept(ids[i], "unchecked")]
AllFindings ==
  LET inFirst[n \in 0..Len(Files)] ==
        IF n = 0 THEN <<>> ELSE inFirst[n - 1] \o InFile(Files[n])
  IN inFirst[Len(Files)]

\* oneShot: what a call spent is reported whether it answered or failed.
Charged(cost) == Charge(cost) /\ paid' = paid + cost

-----------------------------------------------------------------------------
\* The findings the filters left, and the earlier ones that are still open.
Filtered ==
  /\ phase = "filtered"
  /\ phase' = "settings"
  /\ severity' \in [Findings -> Severities]
  /\ carried' \in SUBSET Carried
  /\ UNCHANGED <<spendVars, todo, asked, kept, missed, paid, result>>

\* Verification is turned off; or the runtime makes no plain completions, and
\* whoever reads the report is told what was missed.
VerifyNothing ==
  /\ phase = "settings"
  /\ phase' = "judge" /\ todo' = <<>>
  /\ kept' = Unchecked(AllFindings)
  /\ missed' \in {{}, Findings}
  /\ UNCHANGED <<spendVars, asked, severity, paid, carried, result>>

StartVerify ==
  /\ phase = "settings"
  /\ phase' = "verify"
  /\ UNCHANGED <<spendVars, todo, asked, severity, kept, missed, paid, carried, result>>

\* Mutant: files are sent without asking the limit.
TakeAnyFile ==
  /\ phase = "verify" /\ todo # <<>> /\ Cardinality(asked) < Concurrency
  /\ asked' = asked \cup {Head(todo)}
  /\ todo' = Tail(todo)
  /\ UNCHANGED <<spendVars, phase, severity, kept, missed, paid, carried, result>>

\* Mutant: all files at once.
TakeFiles ==
  /\ phase = "verify" /\ todo # <<>> /\ MayCall
  /\ asked' = asked \cup {Head(todo)}
  /\ todo' = Tail(todo)
  /\ UNCHANGED <<spendVars, phase, severity, kept, missed, paid, carried, result>>

\* A worker takes the next file: it is sent, or the limit is used up.
TakeFile ==
  /\ phase = "verify" /\ todo # <<>> /\ Cardinality(asked) < Concurrency
  /\ IF MayCall
     THEN /\ asked' = asked \cup {Head(todo)}
          /\ UNCHANGED <<kept, missed>>
     ELSE /\ kept' = kept \o Unchecked(InFile(Head(todo)))
          /\ missed' = missed \cup Range(InFile(Head(todo)))
          /\ UNCHANGED asked
  /\ todo' = Tail(todo)
  /\ UNCHANGED <<spendVars, phase, severity, paid, carried, result>>

\* What Verify concludes of a file's findings: refuted ones go, one that was
\* not answered stays unchecked, as all do when the call fails.
Unrefuted(f, answer) ==
  LET ofFirst[n \in 0..FindingsOf[f]] ==
        IF n = 0 THEN <<>>
        ELSE IF answer[n] = "refuted" THEN ofFirst[n - 1]
        ELSE Append(ofFirst[n - 1], Kept(<<f, n>>, answer[n]))
  IN ofFirst[FindingsOf[f]]
Concludes(f, answer) ==
  /\ kept' = kept \o Unrefuted(f, answer)
  /\ missed' = missed \cup {<<f, i>> : i \in {j \in 1..FindingsOf[f] : answer[j] = "unchecked"}}

VerifyAnswers(f) == [1..FindingsOf[f] -> Verifications \cup {"refuted"}]

\* The verifier answers, or fails: what it spent is charged either way.
Verified(f, cost) ==
  /\ f \in asked
  /\ \E answer \in VerifyAnswers(f) : Concludes(f, answer)
  /\ Charged(cost)
  /\ asked' = asked \ {f}
  /\ UNCHANGED <<phase, todo, severity, carried, result>>

VerifyEnds ==
  /\ phase = "verify" /\ todo = <<>> /\ asked = {}
  /\ phase' = "judge"
  /\ UNCHANGED <<spendVars, todo, asked, severity, kept, missed, paid, carried, result>>

-----------------------------------------------------------------------------
\* decideVerdict: the rubric.
Verdict(counted) ==
  LET critical == {c \in counted : c[2].severity = "critical"}
      warnings == {c \in counted : c[2].severity = "warning"}
  IN CASE \E c \in critical : c[2].verification = "confirmed" -> "significant_concerns"
       [] \A c \in critical : c[2].verification # "confirmed"
          /\ (critical # {} \/ Cardinality(warnings) >= PatternWarnings) -> "minor_issues"
       [] OTHER -> IF counted # {} THEN "approved_with_comments" ELSE "approved"

\* What the verdict counts: the findings, each by its index, and the earlier
\* ones that are still open.
Counted(findings) ==
  {<<i, findings[i]>> : i \in {j \in DOMAIN findings : ~findings[j].low}} \cup ({0} \X carried)

\* Mutant: no finding is protected from the judge.
ProtectedNever(k) == k.verification = "none"

\* applyDecisions: merges first, then drops, then severities; an index that is
\* none, comes again, or is already removed says nothing.  A confirmed critical
\* finding is never dropped or downgraded, and merged only into another.
Protected(k) == k.severity = "critical" /\ k.verification = "confirmed"

\* Indexes one group of duplicates removes, once those before it have.
MergedBy(group, removed) ==
  LET members == {i \in Range(group) : i \in DOMAIN kept /\ i \notin removed}
      at(i) == CHOOSE n \in DOMAIN group : group[n] = i /\ \A m \in 1..(n - 1) : group[m] # i
      first == {i \in members : Protected(kept[i])}
      from == IF first = {} THEN members ELSE first
      keep == CHOOSE i \in from : \A j \in from : at(i) <= at(j)
  IN IF members = {} THEN {} ELSE members \ {keep}

Merged(duplicates) ==
  LET byFirst[n \in 0..Len(duplicates)] ==
        IF n = 0 THEN {} ELSE byFirst[n - 1] \cup MergedBy(duplicates[n], byFirst[n - 1])
  IN byFirst[Len(duplicates)]
Dropped(answer) ==
  {i \in answer.drop : i \in DOMAIN kept \ Merged(answer.duplicates) /\ ~Protected(kept[i])}

Recalibrated(answer, i) ==
  IF i \in DOMAIN answer.severity /\ ~Protected(kept[i])
  THEN [kept[i] EXCEPT !.severity = answer.severity[i]] ELSE kept[i]

\* What is left, by its index; with --ultra what was dropped is shown as well,
\* and not counted.
Judged(answer, keepDropped) ==
  LET dropped == Dropped(answer)
      left == DOMAIN kept \ (Merged(answer.duplicates) \cup (IF keepDropped THEN {} ELSE dropped))
  IN [i \in left |-> IF i \in dropped THEN [kept[i] EXCEPT !.low = TRUE]
                                      ELSE Recalibrated(answer, i)]

\* countMissedCriticals: of what went to the judge.
UnverifiedCriticals ==
  Cardinality({i \in DOMAIN kept :
    kept[i].severity = "critical" /\ kept[i].verification = "unchecked" /\ kept[i].id \in missed})

Gives(findings) ==
  result' = [NoResult EXCEPT !.verdict = Verdict(Counted(findings)),
                             !.unverified = UnverifiedCriticals]

\* No judge: turned off, no finding, no completions, or nothing left to pay
\* it with.
JudgeNothing ==
  /\ phase = "judge"
  /\ phase' = "report"
  /\ Gives(kept)
  /\ UNCHANGED <<spendVars, todo, asked, severity, kept, missed, paid, carried>>

AskJudge ==
  /\ phase = "judge" /\ kept # <<>> /\ MayCall
  /\ phase' = "judging"
  /\ UNCHANGED <<spendVars, todo, asked, severity, kept, missed, paid, carried, result>>

\* The judge answers or fails.  What it cost is in the report, and is not
\* charged to the limit.
JudgeEnds(cost) ==
  /\ phase = "judging"
  /\ phase' = "report"
  /\ \/ Gives(kept)
     \/ \E answer \in JudgeAnswers, keepDropped \in BOOLEAN : Gives(Judged(answer, keepDropped))
  /\ paid' = paid + cost
  /\ UNCHANGED <<spendVars, todo, asked, severity, kept, missed, carried>>

-----------------------------------------------------------------------------
\* Mutant: a blocking verdict comes before an incomplete review.
ExitBlockingFirst(someCompleted, gaps, override) ==
  CASE ~someCompleted -> "error"
    [] someCompleted /\ result.verdict = "significant_concerns" /\ ~override -> "blocking"
    [] someCompleted /\ (result.verdict # "significant_concerns" \/ override) ->
         IF gaps \/ result.unverified > 0 THEN "incomplete" ELSE "ok"

\* exitCode.  someCompleted: a task completed, or there was none; gaps: a
\* selected file is unfinished; override: someone entitled overruled the
\* verdict.
ExitOf(someCompleted, gaps, override) ==
  CASE ~someCompleted -> "error"
    [] someCompleted /\ (gaps \/ result.unverified > 0) -> "incomplete"
    [] someCompleted /\ ~gaps /\ result.unverified = 0 ->
         IF result.verdict = "significant_concerns" /\ ~override THEN "blocking" ELSE "ok"

Report ==
  /\ phase = "report"
  /\ phase' = "done"
  /\ \E someCompleted, gaps, override \in BOOLEAN :
       result' = [result EXCEPT !.exit = ExitOf(someCompleted, gaps, override), !.override = override]
  /\ UNCHANGED <<spendVars, todo, asked, severity, kept, missed, paid, carried>>

CheckNext ==
  \/ Filtered
  \/ VerifyNothing \/ StartVerify \/ TakeFile \/ VerifyEnds
  \/ \E f \in CheckFiles, cost \in 0..MaxCall : Verified(f, cost)
  \/ JudgeNothing \/ AskJudge \/ \E cost \in 0..MaxCall : JudgeEnds(cost)
  \/ Report

CheckSpec == CheckInit /\ [][CheckNext]_stageVars

-----------------------------------------------------------------------------
\* A critical finding Verify confirmed, of this run or carried over, gives the
\* blocking verdict whatever the judge answers; and nothing Verify did not
\* confirm gives it (applyDecisions, decideVerdict).
VerdictFollowsProof ==
  result.verdict # "none" =>
    LET proven == {i \in DOMAIN kept : kept[i].verification = "confirmed"}
        open == {c \in carried : c.severity = "critical" /\ c.verification = "confirmed"}
    IN /\ ((\E i \in proven : kept[i].severity = "critical") \/ open # {}
             => result.verdict = "significant_concerns")
       /\ (result.verdict = "significant_concerns" => proven # {} \/ open # {})

\* A run that passes, or fails for its verdict alone, has checked every
\* critical finding it was to check, whatever became of it at the judge.
PassMeansChecked ==
  result.exit \in {"ok", "blocking"} =>
    \A id \in missed : severity[id] # "critical"

\* What a run says for the pipeline it gates: its verdict and its exit code.
OutcomeEarned == VerdictFollowsProof /\ PassMeansChecked

\* Files in flight when the limit runs out are all that is paid beyond it: the
\* calls of Verify, and the judge's after them.
OvershootBounded == paid < MaxCost + Concurrency * MaxCall \/ paid = Planned
=============================================================================
