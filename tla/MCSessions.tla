------------------------------ MODULE MCSessions ------------------------------
(***************************************************************************)
(* Calls that fail over along their models, where a finding goes, a review *)
(* that is resumed again and again, and the evaluation that runs such      *)
(* reviews.  They share no variable; a behaviour is one of them, while the *)
(* others stay where they began.                                           *)
(***************************************************************************)
EXTENDS MCFailback, Anchoring, Resumption, EvalRun, TLC

VARIABLE part    \* the one this behaviour is about

SessionsInit ==
  /\ part \in {"failback", "anchor", "resumption", "eval"}
  /\ Init /\ AnchorInit /\ ResumptionInit /\ EvalInit
SessionsNext ==
  /\ UNCHANGED part
  /\ \/ part = "failback" /\ Next /\ UNCHANGED <<anchorVars, resumptionVars, evalVars>>
     \/ part = "anchor" /\ AnchorNext /\ UNCHANGED <<vars, resumptionVars, evalVars>>
     \/ part = "resumption" /\ ResumptionNext /\ UNCHANGED <<vars, anchorVars, evalVars>>
     \/ part = "eval" /\ EvalNext /\ UNCHANGED <<vars, anchorVars, resumptionVars>>
SessionsSpec ==
  SessionsInit /\ [][SessionsNext]_<<part, vars, anchorVars, resumptionVars, evalVars>>

\* The evaluation treats the tasks of a review alike; the others do not know them.
AlikeTasks == Permutations(Tasks)

\* Two files: grouped together, apart, or with one of them repeated.
MCGroupings == {<<<<1, 2>>>>, <<<<1>>, <<2>>>>, <<<<2, 2>>, <<1>>>>}

-----------------------------------------------------------------------------
(* Files of two and three lines, of three texts, one of them blank, one a   *)
(* part of another; and a second file                                       *)

MCLines == [did : {"same", "context", "add", "delete"}, text : {"p", "pq"}]
             \cup [did : {"context", "add"}, text : {""}]
MCEdits == UNION {[1..n -> MCLines] : n \in 2..3}
MCOthers ==
  {<<[did |-> "add", text |-> "pq"]>>,
   <<[did |-> "context", text |-> "p"], [did |-> "delete", text |-> "pq"]>>}
MCPartOf == {<<"p", "pq">>, <<"s", "pq">>}
MCQuotes == {<<"p">>, <<"s">>, <<"pq">>, <<"p", "", "pq">>}
MCRelocations == {<<>>, <<"p">>, <<"pq", "p">>}

\* One instance again and again, two of them, and one in two repetitions.
MCSelections == {<<1, 1>>, <<2, 1>>, <<1, 2>>}
===============================================================================
