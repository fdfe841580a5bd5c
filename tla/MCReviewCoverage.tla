---------------------------- MODULE MCReviewCoverage ----------------------------
(* Coverage for TLC, under --ultra.  Cells 1 and 2 are the two samples of       *)
(* reviewer x on f and g, cells 3 and 4 those of y on f, and cell 5 is z on g,  *)
(* whose second sample the task limit cut.  The resumed run answered x's        *)
(* question once and y's twice: cells 2 and 5 are left to run.                  *)
EXTENDS ReviewCoverage

CONSTANTS f, g, x, y, z

Samples == [c \in Cells |-> IF c <= 2 THEN x ELSE IF c <= 4 THEN y ELSE z]
Answered == [q \in Questions |-> IF q = x THEN 1 ELSE IF q = y THEN 2 ELSE 0]
Reading == [c \in Cells |-> IF c <= 2 THEN {f, g} ELSE IF c <= 4 THEN {f} ELSE {g}]
CutCells == {[reviewer |-> z, files |-> {g}]}
================================================================================
