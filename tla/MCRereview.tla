---------------------------- MODULE MCRereview ----------------------------
\* Two files; a finding in a whose code version 2 removes.  Version 2 of b takes
\* the whole change to a higher risk tier.  b is not part of the change as it is
\* opened: a push, or a base that has version 0 of it, makes it one.
EXTENDS Rereview, TLC

CONSTANTS a, b, p, q

MCOpened == (a :> 1 @@ b :> 1)
MCForked == (a :> 0 @@ b :> 1)
MCFileOf == (p :> a)
MCCodeIn == (p :> {1})
MCSelected == [f \in {a, b} |-> {<<0, 1>>, <<0, 2>>, <<1, 2>>}]
MCTierOf == [c \in Tree \X Tree |-> IF c[2][b] = 2 THEN 2 ELSE 1]

\* A push changes one file, rewrites the branch or moves the base of one file,
\* so as to be one step.
OnePush ==
  \/ UNCHANGED <<branch, base>>
  \/ /\ \A f \in Files : branch'.ver[f] \in {1, 2} /\ base'[f] \in {0, 1}
     /\ Cardinality({f \in Files : branch'.ver[f] # branch.ver[f]}) +
          Cardinality({f \in Files : base'[f] # base[f]}) + branch'.line - branch.line = 1

\* A run reads what people change when it starts; what they do later may as
\* well come after the run, except an answer in a thread before the run has
\* found anything: it answers what the run before this one showed.  Nothing
\* reads what they do after the last run.
MCNext ==
  \/ RunStep
  \/ runs < MaxRuns /\ run.phase = "idle" /\ PeopleStep /\ OnePush
  \/ /\ runs < MaxRuns /\ run.phase = "planned"
     /\ acts < MaxActs /\ acts' = acts + 1
     /\ \E f \in Findings : Decline(f)
MCSpec == Init /\ [][MCNext]_vars
=============================================================================
