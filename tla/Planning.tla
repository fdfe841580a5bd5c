------------------------------ MODULE Planning -------------------------------
(***************************************************************************)
(* What a run decides before any reviewer runs (core/pipeline/plan.ts,     *)
(* pipeline/preview.ts): which changed files are reviewed                  *)
(* (select/select.ts), how risky the change is (triage.ts), which files    *)
(* are reviewed together (bundle/bundle.ts), by which reviewers, and which *)
(* tasks the limit cuts (matrix/matrix.ts).                                *)
(*                                                                         *)
(* A path is a name; what the globs and word lists say of it is in its     *)
(* file's record.  Sizes and churn are scaled down.                        *)
(***************************************************************************)
EXTENDS Integers, FiniteSets, SequencesExt

CONSTANTS
  Changes,        \* what a changed file may be: some of File
  MaxFiles,       \* bound: files of the change
  MaxPatch,       \* selection.maxPatchChars
  Trivial, Lite,  \* triage: most churn of the trivial and of the lite tier
  FullFiles,      \* triage: more files than this are the full tier
  GroupingMin,    \* bundling: fewer files are one bundle
  BundleFiles,    \* bundling: most files of a bundle
  BundleChars,    \* bundling: most patch of a bundle of several files
  PerFileMax,     \* bundling: most files reviewed one by one for want of groups
  Answers,        \* what the grouping model may answer: sequences of groups of indexes
  Earlier,        \* what an earlier run's session may list: sequences of bundles
  Reviewers,      \* registered reviewers, in order, with their scopes
  MaxTasks        \* settings.maxTasks

VARIABLES
  stage,      \* diff, select, scope, bundle, matrix, done
  files,      \* the change: a sequence of files
  selected,   \* indexes of the files to review, in order
  tier,
  scope,      \* those of them in scope: not reviewed by an earlier run
  answer,     \* history: what the grouping model answered
  bundles,    \* sequences of such indexes
  resumed,    \* history: the bundles are an earlier run's
  cells,      \* the tasks: reviewer, bundle and sample, with the files (a list, by these three)
  limited     \* the tasks the limit cut

planVars == <<stage, files, selected, tier, scope, answer, bundles, resumed, cells, limited>>

-----------------------------------------------------------------------------
\* A file of the diff: why it might not be reviewed, and what triage, bundling
\* and the reviewers' scopes ask of it.
Reasons == {"binary", "secret", "deleted", "user_exclude", "extension", "generated", "too_large"}
Marks == Reasons \cup {"include", "migration", "sensitive", "test", "doc"}
File == [marks : SUBSET Marks, patch : Nat, churn : Nat, dir : STRING]

Tiers == <<"trivial", "lite", "full">>
Rank(t) == CHOOSE n \in 1..3 : Tiers[n] = t
Reviewer == [minTier : Range(Tiers), ignore : SUBSET Marks, guidelines : BOOLEAN]
Cell == [reviewer : DOMAIN Reviewers, bundle : Nat, second : BOOLEAN, files : SUBSET Nat]

\* The grouping model's answer is parsed: whole numbers, of whatever files.
\* An earlier run's bundles name files of another change maybe, and were made
\* as below, so none is empty.
ASSUME PlanningAssumption ==
  /\ Changes \subseteq File /\ MaxFiles \in Nat
  /\ GroupingMin \in Nat /\ BundleFiles \in Nat \ {0} /\ BundleChars \in Nat
  /\ Answers \subseteq Seq(Seq(Int))
  /\ Earlier \subseteq Seq(Seq(Nat) \ {<<>>})
  /\ Reviewers \in Seq(Reviewer) /\ Reviewers # <<>> /\ MaxTasks \in Nat

PlanTypeOK ==
  /\ stage \in {"diff", "select", "scope", "bundle", "matrix", "done"}
  /\ \A i \in DOMAIN files : files[i] \in Changes
  /\ tier \in Range(Tiers)
  /\ Range(selected) \subseteq DOMAIN files
  /\ Range(scope) \subseteq Range(selected)
  /\ \A b \in DOMAIN bundles : bundles[b] # <<>>
  /\ resumed \in BOOLEAN
  /\ \A c \in cells \cup limited : c \in Cell /\ c.bundle \in DOMAIN bundles

PlanInit ==
  /\ stage = "diff"
  /\ files = <<>> /\ selected = <<>> /\ tier = "trivial" /\ scope = <<>>
  /\ answer = <<>> /\ bundles = <<>> /\ resumed = FALSE /\ cells = {} /\ limited = {}

-----------------------------------------------------------------------------
\* exclusionReason: include overrules the extension and the generated lists
\* and nothing else.
Excluded(f) ==
  \/ f.marks \cap {"binary", "secret", "deleted", "user_exclude"} # {}
  \/ "include" \notin f.marks
     /\ ("extension" \in f.marks \/ ("generated" \in f.marks /\ "migration" \notin f.marks))
  \/ f.patch > MaxPatch

\* filter: what a sequence has of a set.
Picked(seq, S) ==
  LET ofFirst[n \in 0..Len(seq)] ==
        IF n = 0 THEN <<>>
        ELSE IF seq[n] \in S THEN Append(ofFirst[n - 1], seq[n]) ELSE ofFirst[n - 1]
  IN ofFirst[Len(seq)]
Indexes(seq) == [i \in DOMAIN seq |-> i]

Sum(seq) == SumFunctionOnSet(seq, DOMAIN seq)
Churn(indexes) == Sum([i \in DOMAIN indexes |-> files[indexes[i]].churn])

\* triage, of the selected files.
Triage(indexes) ==
  IF Len(indexes) > FullFiles \/ \E i \in Range(indexes) : "sensitive" \in files[i].marks
  THEN "full"
  ELSE IF Churn(indexes) <= Trivial THEN "trivial"
       ELSE IF Churn(indexes) <= Lite THEN "lite" ELSE "full"

\* Whatever the diff holds.
Ingest ==
  /\ stage = "diff"
  /\ stage' = "select"
  /\ \E n \in 0..MaxFiles : files' \in [1..n -> Changes]
  /\ UNCHANGED <<selected, tier, scope, answer, bundles, resumed, cells, limited>>

Select ==
  /\ stage = "select"
  /\ stage' = "scope"
  /\ selected' = Picked(Indexes(files), {i \in DOMAIN files : ~Excluded(files[i])})
  /\ tier' = Triage(selected')
  /\ UNCHANGED <<files, scope, answer, bundles, resumed, cells, limited>>

\* reviewScope: everything, without an earlier review, when it cannot tell
\* what changed, when it was asked for, or when the tier rose since; else what
\* changed.  An earlier run at a tier reviewed the rest.
Scope ==
  /\ stage = "scope"
  /\ stage' = "bundle"
  /\ \/ scope' = selected
     \/ \E changed \in SUBSET Range(selected), before \in Range(Tiers) :
          /\ Rank(tier) <= Rank(before)
          /\ scope' = Picked(selected, changed)
  /\ UNCHANGED <<files, selected, tier, answer, bundles, resumed, cells, limited>>

-----------------------------------------------------------------------------
PerFile(indexes) == [i \in DOMAIN indexes |-> <<indexes[i]>>]
Patch(bundle) == Sum([i \in DOMAIN bundle |-> files[bundle[i]].patch])

\* enforceLimits: a bundle is cut into pieces, and a piece that is still too
\* large into files.
Chunks(bundle) ==
  [n \in 1..((Len(bundle) + BundleFiles - 1) \div BundleFiles) |->
     SubSeq(bundle, (n - 1) * BundleFiles + 1,
            IF n * BundleFiles < Len(bundle) THEN n * BundleFiles ELSE Len(bundle))]
Limited(chunk) ==
  IF Len(chunk) > 1 /\ Patch(chunk) > BundleChars THEN PerFile(chunk) ELSE <<chunk>>
FlatMap(Op(_), seq) == FlattenSeq([i \in DOMAIN seq |-> Op(seq[i])])
EnforceLimits(list) == FlatMap(Limited, FlatMap(Chunks, list))

\* Mutant: an index an earlier group took is taken again.
AddGroupAgain(acc, group) ==
  LET members == Picked(group, DOMAIN scope)
  IN [taken |-> acc.taken \cup Range(members),
      list |-> IF members = <<>> THEN acc.list
               ELSE Append(acc.list, [i \in DOMAIN members |-> scope[members[i]]])]

\* fromGroups: an index that is none, or in an earlier group, says nothing;
\* one that its own group repeats is taken twice.  What is left goes one by one.
\* Taken is looked at before a group's members are added to it.
AddGroup(acc, group) ==
  LET members == Picked(group, DOMAIN scope \ acc.taken)
  IN [taken |-> acc.taken \cup Range(members),
      list |-> IF members = <<>> THEN acc.list
               ELSE Append(acc.list, [i \in DOMAIN members |-> scope[members[i]]])]

Grouped(groups) ==
  LET ofFirst[n \in 0..Len(groups)] ==
        IF n = 0 THEN [taken |-> {}, list |-> <<>>] ELSE AddGroup(ofFirst[n - 1], groups[n])
      acc == ofFirst[Len(groups)]
      missing == Picked(Indexes(scope), DOMAIN scope \ acc.taken)
  IN acc.list \o [i \in DOMAIN missing |-> <<scope[missing[i]]>>]

\* byDirectory.
ByDirectory ==
  LET dir(n) == files[scope[n]].dir
      firsts == Picked(Indexes(scope), {n \in DOMAIN scope : \A m \in 1..(n - 1) : dir(m) # dir(n)})
  IN [d \in DOMAIN firsts |-> Picked(scope, {i \in DOMAIN files : files[i].dir = dir(firsts[d])})]

\* bundleFiles without the model: few files, or no groups to be had.
Ungrouped ==
  CASE Len(scope) <= 1 -> PerFile(scope)
    [] Len(scope) > 1 /\ Len(scope) < GroupingMin -> EnforceLimits(<<scope>>)
    [] Len(scope) > 1 /\ Len(scope) >= GroupingMin ->
         IF Len(scope) <= PerFileMax THEN PerFile(scope) ELSE EnforceLimits(ByDirectory)

\* Mutant: a file may be listed for another.
CoversAsMany(earlier) ==
  \E listed \in {FlattenSeq(earlier)} :
    Len(listed) = Len(scope) /\ Range(listed) \subseteq Range(scope)

\* resumedBundles: an earlier run's bundles do if they list the files in scope,
\* each once.  They were made of its patches, under its limits.
Covers(earlier) ==
  \E listed \in {FlattenSeq(earlier)} :
    /\ Len(listed) = Len(scope) /\ IsInjective(listed)
    /\ Range(listed) \subseteq Range(scope)

Bundle ==
  /\ stage = "bundle"
  /\ stage' = "matrix"
  /\ \/ \E earlier \in Earlier :
          /\ Covers(earlier)
          /\ bundles' = earlier
          /\ resumed' = TRUE /\ UNCHANGED answer
     \/ bundles' = Ungrouped /\ UNCHANGED <<answer, resumed>>
     \/ /\ UNCHANGED resumed
        /\ Len(scope) > 1 /\ Len(scope) >= GroupingMin
        /\ answer' \in Answers
        /\ bundles' = EnforceLimits(Grouped(answer'))
  /\ UNCHANGED <<files, selected, tier, scope, cells, limited>>

-----------------------------------------------------------------------------
\* planMatrix: the reviewers of a bundle, by their scope and what the
\* configuration says of them; each sees the files it does not ignore.
Sees(r, bundle) == {i \in Range(bundle) : files[i].marks \cap Reviewers[r].ignore = {}}
Runs(r, b, disabled, ultra, guidelines) ==
  /\ r \notin disabled
  /\ ultra \/ Rank(tier) >= Rank(Reviewers[r].minTier)
  /\ Reviewers[r].guidelines => guidelines
  /\ Sees(r, bundles[b]) # {}
TaskAt(r, b, second) == [reviewer |-> r, bundle |-> b, second |-> second, files |-> Sees(r, bundles[b])]
AllTasks(disabled, ultra, guidelines) ==
  {TaskAt(p[1], p[2], p[3]) :
     p \in {q \in (DOMAIN Reviewers) \X (DOMAIN bundles) \X BOOLEAN :
              Runs(q[1], q[2], disabled, ultra, guidelines) /\ (q[3] => ultra)}}

\* Mutant: in the order of the cells.
BeforeInOrder(c, d) ==
  \/ c.bundle < d.bundle
  \/ c.bundle = d.bundle /\ c.reviewer < d.reviewer
  \/ c.bundle = d.bundle /\ c.reviewer = d.reviewer /\ ~c.second /\ d.second

\* planTasks: what the limit cuts first.
Before(c, d) ==
  \/ ~c.second /\ d.second
  \/ c.second = d.second /\ c.reviewer < d.reviewer
  \/ c.second = d.second /\ c.reviewer = d.reviewer /\ c.bundle < d.bundle

Matrix ==
  /\ stage = "matrix"
  /\ stage' = "done"
  /\ \E disabled \in SUBSET (DOMAIN Reviewers), ultra, guidelines \in BOOLEAN :
       \E all \in {AllTasks(disabled, ultra, guidelines)} :
          /\ cells' = {c \in all : Cardinality({d \in all : Before(d, c)}) < MaxTasks}
          /\ limited' = all \ cells'
  /\ UNCHANGED <<files, selected, tier, scope, answer, bundles, resumed>>

PlanNext == Ingest \/ Select \/ Scope \/ Bundle \/ Matrix
PlanSpec == PlanInit /\ [][PlanNext]_planVars

-----------------------------------------------------------------------------
\* Whatever the model groups or an earlier run did, every file in scope is in
\* a bundle, and no file is in two of them, or twice in one, unless a group
\* names it twice; no bundle of several files that this run made is over a
\* limit (fromGroups, enforceLimits, resumedBundles).
TwiceInOneGroup(i) ==
  \E g \in DOMAIN answer : Cardinality({n \in DOMAIN answer[g] : answer[g][n] \in DOMAIN scope
                                                           /\ scope[answer[g][n]] = i}) > 1
Places(i) == {p \in UNION {{b} \X (DOMAIN bundles[b]) : b \in DOMAIN bundles} :
                bundles[p[1]][p[2]] = i}
BundlesHoldScope ==
  stage \in {"matrix", "done"} =>
    /\ UNION {Range(bundles[b]) : b \in DOMAIN bundles} = Range(scope)
    /\ \A b \in DOMAIN bundles :
         ~resumed /\ Len(bundles[b]) > 1 => Len(bundles[b]) <= BundleFiles /\ Patch(bundles[b]) <= BundleChars
    /\ \A i \in Range(scope) : Cardinality(Places(i)) = 1 \/ TwiceInOneGroup(i)

\* When the limit takes a task of the first reviewer there is away, nothing of
\* a second sample or of a later reviewer is left to any file (planTasks:
\* "every file keeps its first reviewer as long as possible").
FirstReviewersLast ==
  \A l \in limited :
    ~l.second /\ (\A d \in cells \cup limited : l.reviewer <= d.reviewer) =>
      \A c \in cells : c.reviewer = l.reviewer /\ ~c.second

\* Neither grouping nor the limit on tasks takes a file out of the review that
\* either could have kept.
PlanHolds == BundlesHoldScope /\ FirstReviewersLast
=============================================================================
