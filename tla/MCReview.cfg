\* A change of up to four files; findings in three files, two checked at a time;
\* three runs publish two findings, and people interfere once.
SPECIFICATION ReviewSpec
CONSTANTS
  Changes <- MCChanges
  MaxFiles = 4
  MaxPatch = 3
  Trivial = 1
  Lite = 4
  FullFiles = 3
  GroupingMin = 3
  BundleFiles = 2
  BundleChars = 2
  PerFileMax = 3
  Answers <- MCAnswers
  Earlier <- MCEarlier
  Reviewers <- MCReviewers
  MaxTasks = 3
  Files <- MCFiles
  FindingsOf <- MCFindingsOf
  Severities = {"critical", "warning"}
  Carried <- MCCarried
  JudgeAnswers <- MCJudgeAnswers
  Concurrency = 2
  MaxCall = 1
  PatternWarnings = 3
  MaxCost = 2
  Share = 1
  Planned = 1
  Publishable = {f, g}
  InDiff = {f, g}
  MaxAttempts = 2
  MaxDeliveries = 3
  MaxMeddling = 1
SYMMETRY AlikeFindings
INVARIANTS ReviewTypeOK PlanHolds OutcomeEarned OvershootBounded EveryFindingShown
PROPERTIES CommentedOnceEver RequestFollowsVerdict
CHECK_DEADLOCK FALSE
