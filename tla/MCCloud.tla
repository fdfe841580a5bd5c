------------------------------ MODULE MCCloud -------------------------------
(***************************************************************************)
(* FileLock, and CloudSession on what it promises, in one run.  They share *)
(* no variable; a behaviour is one of them, while the other stays where it *)
(* began.                                                                  *)
(***************************************************************************)
EXTENDS FileLock, CloudSession, TLC

VARIABLE part    \* the one this behaviour is about

CloudInit == part \in {"lock", "session"} /\ LockInit /\ Init
CloudNext ==
  /\ UNCHANGED part
  /\ \/ part = "lock" /\ LockNext /\ UNCHANGED vars
     \/ part = "session" /\ Next /\ UNCHANGED lockVars
CloudSpec == CloudInit /\ [][CloudNext]_<<part, lockVars, vars>>

CloudTypeOK == LockTypeOK /\ TurnsTypeOK /\ SessionTypeOK

\* The processes are alike.
Alike == Permutations(Procs)
=============================================================================
