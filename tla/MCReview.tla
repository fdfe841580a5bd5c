------------------------------- MODULE MCReview -------------------------------
(***************************************************************************)
(* Both ends of a run, Planning and CheckStage on any findings, and what   *)
(* follows it, Delivery.  They share no variable; a behaviour is one of    *)
(* them, while the others stay where they began.                           *)
(***************************************************************************)
EXTENDS Planning, CheckStage, Delivery, TLC

VARIABLE part    \* the one this behaviour is about

ReviewInit ==
  /\ part \in {"plan", "check", "delivery"}
  /\ PlanInit /\ CheckInit /\ DeliveryInit
ReviewNext ==
  /\ UNCHANGED part
  /\ \/ part = "plan" /\ PlanNext /\ UNCHANGED <<stageVars, deliveryVars>>
     \/ part = "check" /\ CheckNext /\ UNCHANGED <<planVars, deliveryVars>>
     \/ part = "delivery" /\ DeliveryNext /\ UNCHANGED <<planVars, stageVars>>
ReviewSpec == ReviewInit /\ [][ReviewNext]_<<part, planVars, stageVars, deliveryVars>>

\* Delivery treats its findings alike; the others do not know them.
AlikeFindings == Permutations(Publishable)

ReviewTypeOK == PlanTypeOK /\ StageTypeOK /\ DeliveryTypeOK

-----------------------------------------------------------------------------
(* The change: files of each kind, and reviewers of every sort of scope *)

MCFile(marks, patch, churn, dir) == [marks |-> marks, patch |-> patch, churn |-> churn, dir |-> dir]
MCChanges ==
  {MCFile({"doc"}, 2, 3, "docs"), MCFile({"test", "sensitive"}, 1, 1, "src"),
   MCFile({"generated", "include"}, 1, 1, "src"), MCFile({"secret", "include"}, 1, 1, "docs"),
   MCFile({"include"}, 4, 1, "src")}

MCReviewers ==
  <<[minTier |-> "trivial", ignore |-> {}, guidelines |-> FALSE],
    [minTier |-> "lite", ignore |-> {"doc", "test"}, guidelines |-> FALSE],
    [minTier |-> "lite", ignore |-> {"test"}, guidelines |-> TRUE]>>

\* Two groups, with indexes that are none, repeated, or left out.
MCAnswers ==
  {<<g, h>> : g \in {<<1, 2, 3, 4>>, <<2, 9>>, <<3, 3, 1>>, <<>>}, h \in {<<>>, <<1, 4>>, <<2, 3>>}}

\* One bundle of several files, some in another order, one that lists a file
\* twice, and files there may not be.
MCEarlier == {<<<<1, 2, 3>>>>, <<<<3>>, <<2, 1>>>>, <<<<1, 1>>>>, <<<<2, 4>>>>, <<>>}

-----------------------------------------------------------------------------
(* The findings: three files with one each, and judges that merge, drop and *)
(* recalibrate them, with indexes that are none *)

MCFiles == <<"a", "b", "c">>
MCFindingsOf == ("a" :> 1) @@ ("b" :> 1) @@ ("c" :> 1)
MCCarried == {[severity |-> "critical", verification |-> "confirmed", low |-> FALSE],
              [severity |-> "warning", verification |-> "uncertain", low |-> FALSE]}
MCJudgeAnswers ==
  [duplicates : {<<>>, <<<<1, 2>>>>, <<<<3, 1>>>>, <<<<2, 9, 2, 3>>, <<3, 1>>>>},
   drop : {{}, {1}, {2, 3}, {1, 2, 3, 9}},
   severity : {<<>>, <<"warning">>, (2 :> "critical"), <<"warning", "warning", "warning">>}]
=============================================================================
