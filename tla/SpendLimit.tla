------------------------------- MODULE SpendLimit -------------------------------
(***************************************************************************)
(* A run's spend limit (packages/core/src/agent/spend-limit.ts).           *)
(*                                                                         *)
(* Costs are natural numbers; Share stands for maxCostUsd * REVIEW_SHARE.  *)
(* A run without a limit is one whose costs never reach Share.             *)
(***************************************************************************)
EXTENDS Naturals

CONSTANTS
  MaxCost,   \* maxCostUsd
  Share,     \* what review tasks may use of it
  Planned    \* what planning spent before the limit was made

ASSUME SpendAssumption ==
  MaxCost \in Nat /\ Share \in Nat /\ Share <= MaxCost /\ Planned \in Nat

VARIABLES
  spent,
  stopped,   \* reviewSignal.aborted
  refused    \* refusedReview

spendVars == <<spent, stopped, refused>>

Over(amount) == spent >= amount

SpendInit == spent = Planned /\ stopped = FALSE /\ refused = FALSE

\* What a review task or its plan call spent.
ChargeReview(cost) ==
  /\ spent' = spent + cost
  /\ stopped' = (stopped \/ spent' >= Share)
  /\ UNCHANGED refused

ChargeNothing(cost) == UNCHANGED spendVars   \* mutant: only review tasks are charged

\* What any other call spent: it stops no task.
Charge(cost) == spent' = spent + cost /\ UNCHANGED <<stopped, refused>>

\* Mutant: only the abort of running tasks is remembered.
RefuseQuietly == Over(Share) /\ UNCHANGED spendVars

\* mayStartReview, answering no.
RefuseReview == Over(Share) /\ refused' = TRUE /\ UNCHANGED <<spent, stopped>>

MayCall == ~Over(MaxCost)

\* What the report says of the limit.
Reached ==
  IF Over(MaxCost) THEN "total" ELSE IF stopped \/ refused THEN "review" ELSE "none"
================================================================================
