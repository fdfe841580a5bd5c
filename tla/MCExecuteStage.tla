----------------------------- MODULE MCExecuteStage -----------------------------
(* The execute stage for TLC.  Cells 1 and 2 are the two samples of one bundle, *)
(* cell 3 is a bundle of its own.                                               *)
EXTENDS ExecuteStage

CONSTANTS q1, q2, p1, p2

TwoBundles == [c \in Cells |-> IF c <= 2 THEN q1 ELSE q2]
OwnPlans == [c \in Cells |-> IF c <= 2 THEN p1 ELSE p2]
OnePlanKey == [c \in Cells |-> p1]   \* two bundles of one label
NothingEarlier == [q \in Questions |-> 0]
================================================================================
