------------------------------- MODULE MCExecute -------------------------------
(* The execute stage for TLC, and what one attempt of its tasks is on either    *)
(* runtime.  They share no variable; a behaviour is one of them, while the      *)
(* others stay where they began.                                                *)
EXTENDS MCExecuteStage, OpencodeSession, DirectLoop

VARIABLE part    \* the one this behaviour is about

ExecuteInit ==
  /\ part \in {"stage", "session", "loop"}
  /\ Init /\ SessionInit /\ LoopInit
ExecuteNext ==
  /\ UNCHANGED part
  /\ \/ part = "stage" /\ Next /\ UNCHANGED <<sessionVars, loopVars>>
     \/ part = "session" /\ SessionNext /\ UNCHANGED <<vars, loopVars>>
     \/ part = "loop" /\ LoopNext /\ UNCHANGED <<vars, sessionVars>>
ExecuteSpec == ExecuteInit /\ [][ExecuteNext]_<<part, vars, sessionVars, loopVars>>
================================================================================
