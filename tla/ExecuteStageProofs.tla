--------------------------- MODULE ExecuteStageProofs ---------------------------
(***************************************************************************)
(* The execute stage keeps its order, stops its agents and makes each plan *)
(* call once, for every number of cells, of workers and of questions.      *)
(* An attempt on either runtime keeps the contract every runtime owes the  *)
(* failover (Attempt), for every step cap, every answer of the model and   *)
(* every failure between: DirectLoop and OpencodeSession implement it.     *)
(***************************************************************************)
EXTENDS ReviewCoverage, DirectLoop, OpencodeSession, DataFacts

AgentOver == {"anchoring", "relocating", "finished"}
Idle == {"waiting", "taken", "callers"}
Unsettled == Idle \cup {"planning", "sharing", "running"}

\* Where a cell is in its life, and what its outcome says by then.
CellInv(c) ==
  /\ phase[c] \in Unsettled <=> status[c] = "none"
  /\ phase[c] \in Idle => usage[c] = 0 /\ planOf[c] = 0
  /\ status[c] \in {"skipped", "refused"} => phase[c] = "finished" /\ usage[c] = 0
  /\ status[c] = "refused" => Over(Share)
  /\ status[c] = "cancelled" => cause = "run"
  /\ status[c] = "completed" => answered[c] \in Made
  /\ status[c] \in {"completed", "cut"} => phase[c] \in AgentOver
  /\ answered[c] = "reused" => phase[c] \in AgentOver

\* Cells leave the queue in plan order.
PlanOrder ==
  \A c, d \in Cells : phase[c] = "waiting" /\ c < d => phase[d] = "waiting"

\* A cell that passed its check came to it before those still waiting for theirs.
TakenOrder ==
  \A c, d \in Cells :
    c < d /\ phase[c] = "taken" /\ phase[d] \notin {"waiting", "taken"}
      => answered[d] = "reused" \/ status[d] = "skipped"

\* Who makes a plan call is noted under its key before the call is made.
PlanInv(c) ==
  /\ phase[c] = "planning" => PlanKey[c] # NoPlan /\ plans[PlanKey[c]] = c
  /\ planOf[c] = c => PlanKey[c] # NoPlan /\ plans[PlanKey[c]] = c
  /\ \A k \in PlanKeys : plans[k] = c => phase[c] \notin Idle

StageInv ==
  /\ StageTypeOK
  /\ StoppedRunsStop
  /\ PlanOrder
  /\ TakenOrder
  /\ \A c \in Cells : CellInv(c)
  /\ \A c \in Cells : PlanInv(c)
  /\ EarlierAnswersFirst
  /\ RefusedInPlanOrder

--------------------------------------------------------------------------------
(* The initial state, and the steps of one cell *)

LEMMA InitInv == Init => StageInv
<1> SUFFICES ASSUME Init PROVE StageInv
  OBVIOUS
<1> USE SpendAssumption, StageAssumption DEF Init, SpendInit
<1>1. StageTypeOK
  <2>1. spent \in Nat /\ stopped \in BOOLEAN /\ refused \in BOOLEAN /\ relocated \in Nat
    OBVIOUS
  <2>2. phase \in [Cells -> Phases] /\ status \in [Cells -> Statuses]
    BY DEF Phases, Statuses
  <2>3. /\ usage \in [Cells -> Nat] /\ reports \in [Cells -> 0..MaxReports]
        /\ relocations \in [Cells -> 0..MaxRelocations]
    OBVIOUS
  <2>4. QED BY <2>1, <2>2, <2>3 DEF StageTypeOK
<1>2. StoppedRunsStop /\ PlanOrder /\ TakenOrder
  BY DEF StoppedRunsStop, PlanOrder, TakenOrder
<1>3. \A c \in Cells : CellInv(c)
  BY DEF CellInv, Unsettled, Idle, AgentOver
<1>4. \A c \in Cells : PlanInv(c)
  BY DEF PlanInv, Cells
<1>5. EarlierAnswersFirst /\ RefusedInPlanOrder
  BY DEF EarlierAnswersFirst, RefusedInPlanOrder
<1>6. QED BY <1>1, <1>2, <1>3, <1>4, <1>5 DEF StageInv

LEMMA SkipKeepsInv ==
  ASSUME StageInv, NEW c \in Cells, Skip(c)
  PROVE  StageInv'
<1> USE StageAssumption DEF Skip, Move, Outcome, taskVars, spendVars, InTurn
<1>1. StageTypeOK' /\ StoppedRunsStop'
  BY DEF StageInv, StageTypeOK, StoppedRunsStop, Phases, Statuses
<1>2. PlanOrder' /\ TakenOrder'
  BY DEF StageInv, StageTypeOK, PlanOrder, TakenOrder, Cells
<1>3. \A d \in Cells : CellInv(d)'
  BY DEF StageInv, StageTypeOK, CellInv, Unsettled, Idle, AgentOver, Made, Over
<1>4. \A d \in Cells : PlanInv(d)'
  BY DEF StageInv, StageTypeOK, PlanInv, Idle
<1>5. EarlierAnswersFirst'
  BY DEF StageInv, StageTypeOK, EarlierAnswersFirst
<1>6. RefusedInPlanOrder'
  BY DEF StageInv, StageTypeOK, RefusedInPlanOrder, CellInv, Idle
<1>7. QED BY <1>1, <1>2, <1>3, <1>4, <1>5, <1>6 DEF StageInv

LEMMA ReuseKeepsInv ==
  ASSUME StageInv, NEW c \in Cells, Reuse(c)
  PROVE  StageInv'
<1> USE StageAssumption DEF Reuse, Reusable, Move, Outcome, spendVars, InTurn
<1>1. StageTypeOK' /\ StoppedRunsStop'
  <2>1. pool \in [Questions -> Nat] /\ Question[c] \in Questions
    BY DEF StageInv, StageTypeOK
  <2>2. pool[Question[c]] - 1 \in Nat
    BY <2>1
  <2>3. pool' \in [Questions -> Nat]
    BY <2>1, <2>2
  <2>4. QED BY <2>3 DEF StageInv, StageTypeOK, StoppedRunsStop, Phases, Statuses
<1>2. PlanOrder' /\ TakenOrder'
  BY DEF StageInv, StageTypeOK, PlanOrder, TakenOrder, Cells
<1>3. \A d \in Cells : CellInv(d)'
  BY DEF StageInv, StageTypeOK, CellInv, Unsettled, Idle, AgentOver, Made, Over
<1>4. \A d \in Cells : PlanInv(d)'
  BY DEF StageInv, StageTypeOK, PlanInv, Idle
<1>5. EarlierAnswersFirst'
  BY DEF StageInv, StageTypeOK, EarlierAnswersFirst
<1>6. RefusedInPlanOrder'
  BY DEF StageInv, StageTypeOK, RefusedInPlanOrder, CellInv
<1>7. QED BY <1>1, <1>2, <1>3, <1>4, <1>5, <1>6 DEF StageInv

\* A cell joins those whose workers wait for their check.
LEMMA MissKeepsInv ==
  ASSUME StageInv, NEW c \in Cells, Miss(c)
  PROVE  StageInv'
<1>1. /\ phase[c] = "waiting" /\ \A d \in Cells : d < c => phase[d] # "waiting"
      /\ phase' = [phase EXCEPT ![c] = "taken"]
      /\ UNCHANGED <<spent, stopped, refused, status, cancelled, cause, pool, plans, usage,
                     reports, relocations, relocated, answered, planOf>>
  BY DEF Miss, Move, taskVars, spendVars, InTurn
<1>2. pool[Question[c]] = 0
  <2>1. pool \in [Questions -> Nat] /\ Question[c] \in Questions
    BY StageAssumption DEF StageInv, StageTypeOK
  <2>2. QED BY <2>1 DEF Miss, Reusable
<1>3. StageTypeOK' /\ StoppedRunsStop'
  BY <1>1 DEF StageInv, StageTypeOK, StoppedRunsStop, Phases
<1>4. \A d \in Cells : c < d => phase'[d] = "waiting"
  <2>1. \A d \in Cells : c < d => d # c /\ phase[d] = "waiting"
    BY <1>1, StageAssumption DEF StageInv, PlanOrder, Cells
  <2>2. QED BY <1>1, <2>1 DEF StageInv, StageTypeOK
<1>5. PlanOrder' /\ TakenOrder'
  BY <1>1, <1>4 DEF StageInv, StageTypeOK, PlanOrder, TakenOrder, Cells
<1>6. \A d \in Cells : CellInv(d)'
  BY <1>1 DEF StageInv, StageTypeOK, CellInv, Unsettled, Idle, AgentOver, Over
<1>7. \A d \in Cells : PlanInv(d)'
  BY <1>1 DEF StageInv, StageTypeOK, PlanInv, Idle
<1>8. EarlierAnswersFirst'
  BY <1>1, <1>2 DEF StageInv, StageTypeOK, EarlierAnswersFirst
<1>9. RefusedInPlanOrder'
  BY <1>1 DEF StageInv, StageTypeOK, RefusedInPlanOrder
<1>10. QED BY <1>3, <1>5, <1>6, <1>7, <1>8, <1>9 DEF StageInv

\* The cells after a refused one are in the queue, wait for their own check, or
\* had an earlier answer.
LEMMA RefuseKeepsInv ==
  ASSUME StageInv, NEW c \in Cells, Refuse(c)
  PROVE  StageInv'
<1>1. /\ phase[c] = "taken" /\ \A d \in Cells : d < c => phase[d] # "taken"
      /\ phase' = [phase EXCEPT ![c] = "finished"] /\ status' = [status EXCEPT ![c] = "refused"]
      /\ UNCHANGED <<spent, stopped, cancelled, cause, pool, plans, usage, reports, relocations,
                     relocated, answered, planOf>>
      /\ refused' = TRUE /\ Over(Share)
  BY DEF Refuse, RefuseReview, Move, Outcome, taskVars, FirstTaken
<1>2. status[c] = "none" /\ usage[c] = 0 /\ planOf[c] = 0 /\ answered[c] # "reused"
  BY <1>1 DEF StageInv, CellInv, Unsettled, Idle, AgentOver
<1>3. pool[Question[c]] = 0
  BY <1>1, <1>2 DEF StageInv, EarlierAnswersFirst
<1>4. StageTypeOK' /\ StoppedRunsStop'
  BY <1>1 DEF StageInv, StageTypeOK, StoppedRunsStop, Phases, Statuses
<1>5. PlanOrder'
  BY <1>1 DEF StageInv, StageTypeOK, PlanOrder, Cells
<1>6. TakenOrder'
  BY <1>1 DEF StageInv, StageTypeOK, TakenOrder, Cells
<1>7. \A d \in Cells : CellInv(d)'
  BY <1>1, <1>2 DEF StageInv, StageTypeOK, CellInv, Unsettled, Idle, AgentOver, Over
<1>8. \A d \in Cells : PlanInv(d)'
  BY <1>1 DEF StageInv, StageTypeOK, PlanInv, Idle
<1>9. EarlierAnswersFirst'
  BY <1>1, <1>3 DEF StageInv, StageTypeOK, EarlierAnswersFirst
<1>10. RefusedInPlanOrder'
  <2>1. ASSUME NEW d \in Cells, c < d, phase'[d] \notin {"waiting", "taken"},
               answered'[d] # "reused"
        PROVE  status'[d] = "skipped" /\ usage'[d] = 0
    <3>1. d # c
      BY <2>1, StageAssumption DEF Cells
    <3>2. phase'[d] = phase[d] /\ status'[d] = status[d]
      BY <1>1, <3>1 DEF StageInv, StageTypeOK
    <3>3. status[d] = "skipped"
      BY <1>1, <2>1, <3>2 DEF StageInv, TakenOrder
    <3>4. QED BY <1>1, <3>2, <3>3 DEF StageInv, CellInv
  <2>2. ASSUME NEW d \in Cells, NEW e \in Cells, d < e, status'[d] = "refused",
               phase'[e] \notin {"waiting", "taken"}, answered'[e] # "reused"
        PROVE  status'[e] \in {"refused", "skipped"} /\ usage'[e] = 0
    <3>1. CASE d = c
      BY <2>1, <2>2, <3>1
    <3>2. CASE e = c
      BY <1>1, <1>2, <3>2 DEF StageInv, StageTypeOK
    <3>3. CASE d # c /\ e # c
      <4>1. /\ status[d] = "refused" /\ phase'[e] = phase[e]
            /\ status'[e] = status[e] /\ usage'[e] = usage[e] /\ answered'[e] = answered[e]
        BY <1>1, <2>2, <3>3 DEF StageInv, StageTypeOK
      <4>2. QED BY <2>2, <4>1 DEF StageInv, RefusedInPlanOrder
    <3>4. QED BY <3>1, <3>2, <3>3
  <2>3. QED BY <2>2 DEF RefusedInPlanOrder
<1>11. QED BY <1>4, <1>5, <1>6, <1>7, <1>8, <1>9, <1>10 DEF StageInv

LEMMA DoneKeepsInv ==
  ASSUME StageInv, NEW c \in Cells, NEW ending \in {"completed", "cut"}, Done(c, ending)
  PROVE  StageInv'
<1> USE StageAssumption DEF Done, Move, Outcome, spendVars
<1>1. StageTypeOK' /\ StoppedRunsStop'
  BY DEF StageInv, StageTypeOK, StoppedRunsStop, Phases, Statuses
<1>2. PlanOrder' /\ TakenOrder'
  BY DEF StageInv, StageTypeOK, PlanOrder, TakenOrder, CellInv, AgentOver, Cells
<1>3. \A d \in Cells : CellInv(d)'
  BY DEF StageInv, StageTypeOK, CellInv, Unsettled, Idle, AgentOver, Made, Over, Counts
<1>4. \A d \in Cells : PlanInv(d)'
  BY DEF StageInv, StageTypeOK, PlanInv, Idle
<1>5. EarlierAnswersFirst'
  BY DEF StageInv, StageTypeOK, EarlierAnswersFirst, CellInv, Unsettled, Idle, AgentOver
<1>6. RefusedInPlanOrder'
  BY DEF StageInv, StageTypeOK, RefusedInPlanOrder, CellInv, AgentOver
<1>7. QED BY <1>1, <1>2, <1>3, <1>4, <1>5, <1>6 DEF StageInv

\* A running agent that falls silent completes its task.
LEMMA EndKeepsInv ==
  ASSUME StageInv, NEW c \in Cells, EndSilently(c)
  PROVE  StageInv'
<1> USE StageAssumption DEF EndSilently, Move, Outcome, spendVars
<1>1. StageTypeOK' /\ StoppedRunsStop'
  BY DEF StageInv, StageTypeOK, StoppedRunsStop, Phases, Statuses
<1>2. PlanOrder'
  BY DEF StageInv, StageTypeOK, PlanOrder, Cells
<1>3. TakenOrder'
  <2>1. answered[c] # "reused" /\ status[c] # "skipped" /\ phase[c] \notin {"waiting", "taken"}
    BY DEF StageInv, CellInv, AgentOver
  <2>2. /\ phase'[c] \notin {"waiting", "taken"}
        /\ \A d \in Cells : d # c =>
             phase'[d] = phase[d] /\ status'[d] = status[d] /\ answered'[d] = answered[d]
    BY DEF StageInv, StageTypeOK
  <2>3. QED BY <2>1, <2>2 DEF StageInv, TakenOrder
<1>4. \A d \in Cells : CellInv(d)'
  BY DEF StageInv, StageTypeOK, CellInv, Unsettled, Idle, AgentOver, Made, Over
<1>5. \A d \in Cells : PlanInv(d)'
  BY DEF StageInv, StageTypeOK, PlanInv, Idle
<1>6. EarlierAnswersFirst'
  BY DEF StageInv, StageTypeOK, EarlierAnswersFirst, CellInv, Unsettled, Idle, AgentOver
<1>7. RefusedInPlanOrder'
  BY DEF StageInv, StageTypeOK, RefusedInPlanOrder, CellInv, AgentOver
<1>8. QED BY <1>1, <1>2, <1>3, <1>4, <1>5, <1>6, <1>7 DEF StageInv

\* The other steps that move one task on, and answer for no cell.
LEMMA TaskMovesKeepInv ==
  ASSUME StageInv, NEW c \in Cells,
         Fail(c) \/ TimeOut(c) \/ GraceOver(c) \/ Relocate(c) \/ RelocationEnds(c) \/ Finish(c)
  PROVE  StageInv'
<1>1. /\ phase[c] \notin Idle \cup {"planning", "sharing", "finished"}
      /\ phase' = [phase EXCEPT ![c] = phase'[c]] /\ status' = [status EXCEPT ![c] = status'[c]]
      /\ phase'[c] \in {"stopping"} \cup AgentOver
      /\ phase[c] \in AgentOver => phase'[c] \in AgentOver /\ status'[c] = status[c]
      /\ phase[c] = "running" => status'[c] \in {"failed", "timed_out"}
      /\ phase[c] # "running" => status'[c] = status[c]
      /\ UNCHANGED <<stopped, refused, cancelled, cause, pool, plans, usage, reports, answered,
                     planOf>>
  BY DEF Fail, TimeOut, GraceOver, Relocate, RelocationEnds, Finish, Move, Outcome, Charge,
         taskVars, spendVars, StageInv, StageTypeOK, AgentOver, Idle
<1>2. /\ spent' \in Nat /\ spent' >= spent
      /\ relocations' \in [Cells -> 0..MaxRelocations] /\ relocated' \in Nat
  BY StageAssumption
  DEF Fail, TimeOut, GraceOver, Relocate, RelocationEnds, Finish, Add, Charge, taskVars,
      spendVars, StageInv, StageTypeOK
<1> USE StageAssumption, <1>1, <1>2
<1>3. StageTypeOK' /\ StoppedRunsStop'
  <2>1. phase' \in [Cells -> Phases] /\ status' \in [Cells -> Statuses]
    BY DEF StageInv, StageTypeOK, Phases, Statuses, AgentOver
  <2>2. StageTypeOK'
    BY <2>1 DEF StageInv, StageTypeOK
  <2>3. QED BY <2>2 DEF StageInv, StageTypeOK, StoppedRunsStop, AgentOver
<1>4. PlanOrder' /\ TakenOrder'
  BY DEF StageInv, StageTypeOK, PlanOrder, TakenOrder, CellInv, AgentOver, Idle
<1>5. \A d \in Cells : CellInv(d)'
  BY SpendAssumption DEF StageInv, StageTypeOK, CellInv, Unsettled, Idle, AgentOver, Made, Over
<1>6. \A d \in Cells : PlanInv(d)'
  BY DEF StageInv, StageTypeOK, PlanInv, Idle, AgentOver
<1>7. EarlierAnswersFirst'
  BY DEF StageInv, StageTypeOK, EarlierAnswersFirst, CellInv, Unsettled, Idle
<1>8. RefusedInPlanOrder'
  BY DEF StageInv, StageTypeOK, RefusedInPlanOrder, CellInv, Idle
<1>9. QED BY <1>3, <1>4, <1>5, <1>6, <1>7, <1>8 DEF StageInv

--------------------------------------------------------------------------------
(* The steps that start or stop agents *)

\* The cells of `starting` and all running ones go on, or are stopped, together.
LEMMA ProceedEffect ==
  ASSUME StageInv, NEW starting \in SUBSET Cells, Proceed(starting),
         \A c \in starting : phase[c] \in Unsettled \ {"waiting"},
         cause' \in {"none", "limit", "run"}
  PROVE  /\ phase' \in [Cells -> Phases] /\ status' \in [Cells -> Statuses]
         /\ \A c \in Cells : c \notin starting /\ phase[c] # "running"
              => phase'[c] = phase[c] /\ status'[c] = status[c]
         /\ \A c \in Cells : c \in starting \/ phase[c] = "running" =>
              \/ cause' = "none" /\ phase'[c] = "running" /\ status'[c] = "none"
              \/ cause' = "limit" /\ phase'[c] = "stopping" /\ status'[c] = "stopped"
              \/ cause' = "run" /\ phase'[c] = "stopping" /\ status'[c] = "cancelled"
<1> DEFINE agents == starting \cup {c \in Cells : phase[c] = "running"}
<1>1. /\ phase' = [c \in Cells |->
           IF c \in agents THEN (IF cause' = "none" THEN "running" ELSE "stopping") ELSE phase[c]]
      /\ status' = [c \in Cells |->
           IF c \in agents /\ cause' # "none"
             THEN (IF cause' = "limit" THEN "stopped" ELSE "cancelled") ELSE status[c]]
  BY DEF Proceed
<1>2. \A c \in agents : status[c] = "none"
  BY DEF StageInv, CellInv, Unsettled, Idle
<1>3. phase' \in [Cells -> Phases] /\ status' \in [Cells -> Statuses]
  BY <1>1 DEF StageInv, StageTypeOK, Phases, Statuses
<1>4. \A c \in Cells : c \in agents <=> c \in starting \/ phase[c] = "running"
  OBVIOUS
<1> HIDE DEF agents
<1>5. QED BY <1>1, <1>2, <1>3, <1>4

\* A cell that passes its check is the first of those that wait for it.
Checked(c) == phase[c] = "taken" => FirstTaken(c) /\ ~Over(Share)

\* What such a step may do besides, and what it then preserves.
LEMMA ProceedKeepsOrder ==
  ASSUME StageInv, NEW starting \in SUBSET Cells, Proceed(starting),
         \A c \in starting : phase[c] \in Unsettled \ {"waiting"} /\ Checked(c),
         cause' \in {"none", "limit", "run"}, cause # "none" => cause' = cause,
         spent' \in Nat, spent' >= spent,
         \A c \in Cells : usage'[c] # usage[c] => phase[c] \in {"planning", "running", "stopping"},
         \A c \in Cells : planOf'[c] # planOf[c] => c \in starting,
         UNCHANGED <<pool, answered>>
  PROVE  /\ StoppedRunsStop' /\ PlanOrder' /\ TakenOrder' /\ \A c \in Cells : CellInv(c)'
         /\ EarlierAnswersFirst' /\ RefusedInPlanOrder'
<1> USE ProceedEffect
<1>1. StoppedRunsStop'
  BY DEF StageInv, StoppedRunsStop
<1>2. \A c \in Cells : phase'[c] = "waiting" <=> phase[c] = "waiting"
  OBVIOUS
<1>3. PlanOrder'
  BY <1>2 DEF StageInv, PlanOrder
<1>4. \A c \in Cells : phase'[c] = "taken" => phase[c] = "taken"
  OBVIOUS
<1>5. ASSUME NEW c \in Cells, phase[c] = "finished"
      PROVE  phase'[c] = phase[c] /\ status'[c] = status[c] /\ usage'[c] = usage[c]
  BY <1>5 DEF Unsettled, Idle
<1>6. TakenOrder'
  <2>1. ASSUME NEW c \in Cells, NEW d \in Cells, c < d, phase'[c] = "taken",
               phase'[d] \notin {"waiting", "taken"}
        PROVE  answered'[d] = "reused" \/ status'[d] = "skipped"
    <3>1. phase[c] = "taken" /\ phase[d] # "waiting"
      BY <1>2, <1>4, <2>1
    <3>2. phase[d] # "taken"
      <4>1. SUFFICES ASSUME phase[d] = "taken" PROVE FALSE
        OBVIOUS
      <4>2. d \in starting
        BY <2>1, <4>1
      <4>3. QED BY <2>1, <3>1, <4>1, <4>2 DEF Checked, FirstTaken
    <3>3. answered[d] = "reused" \/ status[d] = "skipped"
      BY <2>1, <3>1, <3>2 DEF StageInv, TakenOrder
    <3>4. CASE status[d] = "skipped"
      BY <1>5, <3>4 DEF StageInv, CellInv
    <3>5. QED BY <3>3, <3>4
  <2>2. QED BY <2>1 DEF TakenOrder
<1>7. ASSUME NEW c \in Cells PROVE CellInv(c)'
  <2>1. CellInv(c) /\ spent \in Nat /\ Share \in Nat
    BY SpendAssumption DEF StageInv, StageTypeOK
  <2>2. CASE c \in starting \/ phase[c] = "running"
    BY <2>1, <2>2 DEF CellInv, Unsettled, Idle, AgentOver
  <2>3. CASE c \notin starting /\ phase[c] # "running"
    <3>1. phase'[c] = phase[c] /\ status'[c] = status[c] /\ planOf'[c] = planOf[c]
      BY <2>3
    <3>2. phase[c] \in Idle \cup {"finished"} => usage'[c] = usage[c]
      BY DEF Idle
    <3>3. QED BY <2>1, <3>1, <3>2 DEF CellInv, Unsettled, AgentOver, Over
  <2>4. QED BY <2>2, <2>3
<1>8. EarlierAnswersFirst'
  <2>1. ASSUME NEW c \in Cells, phase'[c] # "waiting", answered'[c] # "reused",
               status'[c] # "skipped"
        PROVE  pool'[Question[c]] = 0
    <3>1. phase[c] # "waiting"
      BY <1>2, <2>1
    <3>2. status[c] # "skipped"
      BY <2>1 DEF StageInv, CellInv
    <3>3. QED BY <2>1, <3>1, <3>2 DEF StageInv, EarlierAnswersFirst
  <2>2. QED BY <2>1 DEF EarlierAnswersFirst
<1>9. RefusedInPlanOrder'
  <2>1. ASSUME NEW c \in Cells, NEW d \in Cells, c < d, status'[c] = "refused",
               phase'[d] \notin {"waiting", "taken"}, answered'[d] # "reused"
        PROVE  status'[d] \in {"refused", "skipped"} /\ usage'[d] = 0
    <3>1. status[c] = "refused" /\ Over(Share)
      BY <2>1 DEF StageInv, CellInv
    <3>2. phase[d] # "waiting"
      BY <1>2, <2>1
    <3>3. phase[d] # "taken"
      BY <2>1, <3>1 DEF Checked
    <3>4. status[d] \in {"refused", "skipped"} /\ usage[d] = 0
      BY <2>1, <3>1, <3>2, <3>3 DEF StageInv, RefusedInPlanOrder
    <3>5. phase[d] = "finished"
      BY <3>4 DEF StageInv, CellInv
    <3>6. QED BY <1>5, <3>4, <3>5
  <2>2. QED BY <2>1 DEF RefusedInPlanOrder
<1>10. QED BY <1>1, <1>3, <1>6, <1>7, <1>8, <1>9

\* A cell that waits: for the callers of what changed, or for a plan.
LEMMA WaitKeepsInv ==
  ASSUME StageInv, NEW c \in Cells, phase[c] \in {"taken", "callers"}, Checked(c),
         UNCHANGED <<spendVars, cancelled, cause, pool, taskVars, status>>,
         \/ Move(c, "callers") /\ UNCHANGED <<plans, planOf>>
         \/ /\ PlanKey[c] # NoPlan /\ plans[PlanKey[c]] = 0
            /\ plans' = [plans EXCEPT ![PlanKey[c]] = c]
            /\ Move(c, "planning") /\ UNCHANGED planOf
         \/ /\ PlanKey[c] # NoPlan /\ plans[PlanKey[c]] # 0
            /\ planOf' = [planOf EXCEPT ![c] = plans[PlanKey[c]]]
            /\ Move(c, "sharing") /\ UNCHANGED plans
  PROVE  StageInv'
<1>1. /\ status[c] = "none" /\ usage[c] = 0 /\ planOf[c] = 0 /\ answered[c] # "reused"
      /\ PlanKey[c] # NoPlan => PlanKey[c] \in PlanKeys
  BY StageAssumption DEF StageInv, CellInv, Unsettled, Idle, AgentOver
<1>2. /\ phase' = [phase EXCEPT ![c] = phase'[c]] /\ phase'[c] \in {"callers", "planning", "sharing"}
      /\ \A d \in Cells : d # c => phase'[d] = phase[d]
      /\ UNCHANGED <<spent, stopped, refused, cancelled, cause, pool, status, usage, reports,
                     relocations, relocated, answered>>
  BY DEF Move, taskVars, spendVars, StageInv, StageTypeOK
<1>3. plans' \in [PlanKeys -> Cells \cup {0}] /\ planOf' \in [Cells -> Cells \cup {0}]
  BY <1>1 DEF StageInv, StageTypeOK
<1>4. StageTypeOK' /\ StoppedRunsStop'
  <2>1. phase' \in [Cells -> Phases]
    BY <1>2 DEF StageInv, StageTypeOK, Phases
  <2>2. QED BY <1>2, <1>3, <2>1 DEF StageInv, StageTypeOK, StoppedRunsStop
<1>5. PlanOrder'
  BY <1>2, StageAssumption DEF StageInv, PlanOrder, Cells
<1>6. TakenOrder'
  <2>1. ASSUME NEW d \in Cells, NEW e \in Cells, d < e, phase'[d] = "taken",
               phase'[e] \notin {"waiting", "taken"}
        PROVE  answered'[e] = "reused" \/ status'[e] = "skipped"
    <3>1. d # c /\ phase[d] = "taken"
      BY <1>2, <2>1
    <3>2. CASE e = c /\ phase[c] = "taken"
      BY <2>1, <3>1, <3>2 DEF Checked, FirstTaken
    <3>3. CASE e = c /\ phase[c] = "callers"
      BY <1>2, <2>1, <3>1, <3>3 DEF StageInv, TakenOrder
    <3>4. CASE e # c
      BY <1>2, <2>1, <3>1, <3>4 DEF StageInv, TakenOrder
    <3>5. QED BY <3>2, <3>3, <3>4
  <2>2. QED BY <2>1 DEF TakenOrder
<1>7. \A d \in Cells : d # c => planOf'[d] = planOf[d]
  BY DEF StageInv, StageTypeOK
<1>8. ASSUME NEW d \in Cells PROVE CellInv(d)'
  <2>1. phase'[c] = "callers" => planOf'[c] = planOf[c]
    BY <1>2 DEF Move, StageInv, StageTypeOK
  <2>2. CASE d = c
    BY <1>1, <1>2, <2>1, <2>2 DEF StageInv, CellInv, Unsettled, Idle, AgentOver
  <2>3. CASE d # c
    BY <1>2, <1>7, <2>3 DEF StageInv, CellInv, Unsettled, Idle, AgentOver, Over
  <2>4. QED BY <2>2, <2>3
<1>9. ASSUME NEW d \in Cells PROVE PlanInv(d)'
  <2>1. /\ \A k \in PlanKeys :
             plans'[k] = plans[k] \/ (k = PlanKey[c] /\ plans[k] = 0 /\ plans'[k] = c)
        /\ phase'[c] \in Idle => plans' = plans
    BY <1>1, <1>2 DEF Move, Idle, StageInv, StageTypeOK
  <2>2. 0 \notin Cells
    BY StageAssumption DEF Cells
  <2>3. CASE d = c
    <3>1. \A k \in PlanKeys : plans[k] # c
      BY DEF StageInv, PlanInv, Idle
    <3>2. planOf'[c] # c
      BY <1>1, <2>2, <3>1 DEF StageInv, StageTypeOK
    <3>3. phase'[c] = "planning" => PlanKey[c] # NoPlan /\ plans'[PlanKey[c]] = c
      BY <1>1 DEF Move, StageInv, StageTypeOK
    <3>4. QED BY <1>2, <2>1, <2>3, <3>1, <3>2, <3>3 DEF PlanInv
  <2>4. CASE d # c
    <3>1. phase'[d] = phase[d] /\ planOf'[d] = planOf[d] /\ PlanInv(d)
      BY <1>2, <1>7, <2>4 DEF StageInv
    <3>2. PlanKey[d] # NoPlan => PlanKey[d] \in PlanKeys
      BY StageAssumption
    <3>3. QED BY <2>1, <2>2, <2>4, <3>1, <3>2 DEF PlanInv
  <2>5. QED BY <2>3, <2>4
<1>10. EarlierAnswersFirst'
  BY <1>1, <1>2 DEF StageInv, EarlierAnswersFirst
<1>11. RefusedInPlanOrder'
  <2>1. ASSUME NEW d \in Cells, NEW e \in Cells, d < e, status'[d] = "refused",
               phase'[e] \notin {"waiting", "taken"}, answered'[e] # "reused"
        PROVE  status'[e] \in {"refused", "skipped"} /\ usage'[e] = 0
    <3>1. status[d] = "refused" /\ Over(Share)
      BY <1>2, <2>1 DEF StageInv, CellInv
    <3>2. phase[e] \notin {"waiting", "taken"}
      BY <1>2, <2>1, <3>1 DEF Checked
    <3>3. QED BY <1>2, <2>1, <3>1, <3>2 DEF StageInv, RefusedInPlanOrder
  <2>2. QED BY <2>1 DEF RefusedInPlanOrder
<1>12. QED BY <1>4, <1>5, <1>6, <1>8, <1>9, <1>10, <1>11 DEF StageInv


LEMMA StartKeepsInv ==
  ASSUME StageInv, NEW c \in Cells, phase[c] \in {"taken", "callers"}, Checked(c), Start(c),
         UNCHANGED <<spendVars, cancelled, cause, pool, taskVars>>
  PROVE  StageInv'
<1>1. CASE PlanKey[c] # NoPlan /\ ~SharesPlan(c)
  BY <1>1, WaitKeepsInv DEF Start, SharesPlan
<1>2. CASE PlanKey[c] # NoPlan /\ SharesPlan(c) /\ phase[plans[PlanKey[c]]] = "planning"
  BY <1>2, WaitKeepsInv DEF Start, SharesPlan
<1>3. CASE PlanKey[c] = NoPlan \/ (SharesPlan(c) /\ phase[plans[PlanKey[c]]] # "planning")
  <2>1. /\ Proceed({c}) /\ UNCHANGED plans
        /\ \/ PlanKey[c] = NoPlan /\ UNCHANGED planOf
           \/ /\ PlanKey[c] # NoPlan /\ plans[PlanKey[c]] # 0
              /\ planOf' = [planOf EXCEPT ![c] = plans[PlanKey[c]]]
    BY <1>3 DEF Start, SharesPlan
  <2>2. phase[c] \in Unsettled \ {"waiting"} /\ phase[c] \in Idle
    BY DEF Unsettled, Idle
  <2>3. PlanKey[c] # NoPlan => PlanKey[c] \in PlanKeys
    BY StageAssumption
  <2>4. /\ planOf' \in [Cells -> Cells \cup {0}]
        /\ \A d \in Cells : d # c => planOf'[d] = planOf[d]
    BY <2>1, <2>3 DEF StageInv, StageTypeOK
  <2>5. /\ UNCHANGED <<spent, stopped, refused, cancelled, cause, pool, usage, reports,
                       relocations, relocated, answered>>
        /\ cause \in {"none", "limit", "run"} /\ spent \in Nat
    BY DEF spendVars, taskVars, StageInv, StageTypeOK
  <2>6. /\ StoppedRunsStop' /\ PlanOrder' /\ TakenOrder' /\ \A d \in Cells : CellInv(d)'
        /\ EarlierAnswersFirst' /\ RefusedInPlanOrder'
    BY <2>1, <2>2, <2>4, <2>5, ProceedKeepsOrder
  <2>7. /\ phase' \in [Cells -> Phases] /\ status' \in [Cells -> Statuses]
        /\ phase'[c] \notin Idle \cup {"planning"}
        /\ \A d \in Cells : d # c => phase'[d] = phase[d] \/ phase'[d] \in {"running", "stopping"}
    BY <2>1, <2>2, <2>5, ProceedEffect DEF Idle
  <2>8. StageTypeOK'
    BY <2>1, <2>4, <2>5, <2>7 DEF StageInv, StageTypeOK
  <2>9. ASSUME NEW d \in Cells PROVE PlanInv(d)'
    <3>1. PlanInv(d)
      BY DEF StageInv
    <3>2. CASE d = c
      <4>1. PlanKey[c] # NoPlan => plans[PlanKey[c]] # c
        BY <2>2, <2>3 DEF StageInv, PlanInv
      <4>2. planOf[c] = 0 /\ 0 \notin Cells
        BY <2>2, StageAssumption DEF StageInv, CellInv, Cells
      <4>3. planOf'[c] # c
        BY <2>1, <2>3, <4>1, <4>2 DEF StageInv, StageTypeOK
      <4>4. QED BY <2>7, <3>2, <4>3 DEF PlanInv
    <3>3. CASE d # c
      BY <2>1, <2>4, <2>7, <3>1, <3>3 DEF PlanInv, Idle
    <3>4. QED BY <3>2, <3>3
  <2>10. QED BY <2>6, <2>8, <2>9 DEF StageInv
<1>4. QED BY <1>1, <1>2, <1>3

\* The check agrees, or the search for callers ends.
LEMMA AdmitKeepsInv ==
  ASSUME StageInv, NEW c \in Cells, Admit(c) \/ CallersFound(c)
  PROVE  StageInv'
<1>1. /\ phase[c] \in {"taken", "callers"} /\ Checked(c)
      /\ UNCHANGED <<spendVars, cancelled, cause, pool, taskVars>>
  BY DEF Admit, CallersFound, FirstTaken, Checked
<1>2. CASE Start(c)
  BY <1>1, <1>2, StartKeepsInv
<1>3. CASE Move(c, "callers") /\ UNCHANGED <<status, plans, planOf>>
  BY <1>1, <1>3, WaitKeepsInv
<1>4. QED BY <1>2, <1>3 DEF Admit, CallersFound

\* The first abort settles the cause.
LEMMA CauseSettled ==
  ASSUME StageInv, SignalAfter
  PROVE  cause' \in {"none", "limit", "run"} /\ (cause # "none" => cause' = cause)
BY DEF SignalAfter, StageInv, StageTypeOK

LEMMA PlanEndsKeepsInv ==
  ASSUME StageInv, NEW c \in Cells, PlanEnds(c)
  PROVE  StageInv'
<1> DEFINE starting == {c} \cup {d \in Cells : phase[d] = "sharing" /\ PlanKey[d] = PlanKey[c]}
<1>1. /\ phase[c] = "planning" /\ planOf' = [planOf EXCEPT ![c] = c]
      /\ UNCHANGED <<cancelled, pool, plans, reports, relocations, relocated, answered>>
      /\ Proceed(starting) /\ SignalAfter
      /\ starting \in SUBSET Cells
      /\ \A d \in starting : phase[d] \in Unsettled \ {"waiting"} /\ Checked(d)
  BY DEF PlanEnds, Unsettled, Checked
<1>2. /\ spent' \in Nat /\ spent' >= spent /\ stopped' \in BOOLEAN /\ refused' \in BOOLEAN
      /\ usage' \in [Cells -> Nat]
      /\ \A d \in Cells : d # c => usage'[d] = usage[d]
  <2>1. CASE UNCHANGED <<spendVars, usage>>
    BY <2>1 DEF spendVars, StageInv, StageTypeOK
  <2>2. CASE \E cost \in Costs : ChargeReview(cost) /\ usage' = Add(usage, c, cost)
    BY <2>2, StageAssumption DEF ChargeReview, Add, StageInv, StageTypeOK
  <2>3. QED BY <2>1, <2>2 DEF PlanEnds
<1>3. /\ planOf' \in [Cells -> Cells \cup {0}] /\ planOf'[c] = c
      /\ \A d \in Cells : d # c => planOf'[d] = planOf[d]
  BY <1>1 DEF StageInv, StageTypeOK
<1>4. c \in starting
  OBVIOUS
<1> HIDE DEF starting
<1>5. /\ StoppedRunsStop' /\ PlanOrder' /\ TakenOrder' /\ \A d \in Cells : CellInv(d)'
      /\ EarlierAnswersFirst' /\ RefusedInPlanOrder'
  BY <1>1, <1>2, <1>3, <1>4, CauseSettled, ProceedKeepsOrder
<1>6. /\ phase' \in [Cells -> Phases] /\ status' \in [Cells -> Statuses]
      /\ \A d \in Cells : phase'[d] = phase[d] \/ phase'[d] \in {"running", "stopping"}
  BY <1>1, CauseSettled, ProceedEffect
<1>7. StageTypeOK'
  BY <1>1, <1>2, <1>3, <1>6, CauseSettled DEF StageInv, StageTypeOK
<1>8. ASSUME NEW d \in Cells PROVE PlanInv(d)'
  BY <1>1, <1>3, <1>6 DEF StageInv, PlanInv, Idle
<1>9. QED BY <1>5, <1>7, <1>8 DEF StageInv

LEMMA ReportKeepsInv ==
  ASSUME StageInv, NEW c \in Cells, Report(c)
  PROVE  StageInv'
<1>1. /\ phase[c] \in {"running", "stopping"}
      /\ UNCHANGED <<cancelled, pool, plans, relocations, relocated, answered, planOf>>
      /\ Proceed({}) /\ SignalAfter
  BY DEF Report
<1>2. /\ spent' \in Nat /\ spent' >= spent /\ stopped' \in BOOLEAN /\ refused' \in BOOLEAN
      /\ usage' \in [Cells -> Nat] /\ reports' \in [Cells -> 0..MaxReports]
      /\ \A d \in Cells : d # c => usage'[d] = usage[d]
  <2>1. spent' \in Nat /\ spent' >= spent /\ stopped' \in BOOLEAN /\ refused' \in BOOLEAN
    BY StageAssumption DEF Report, ChargeReview, StageInv, StageTypeOK
  <2>2. usage' \in [Cells -> Nat] /\ \A d \in Cells : d # c => usage'[d] = usage[d]
    BY StageAssumption DEF Report, Add, StageInv, StageTypeOK
  <2>3. reports' \in [Cells -> 0..MaxReports]
    BY StageAssumption DEF Report, Add, StageInv, StageTypeOK
  <2>4. QED BY <2>1, <2>2, <2>3
<1>3. /\ StoppedRunsStop' /\ PlanOrder' /\ TakenOrder' /\ \A d \in Cells : CellInv(d)'
      /\ EarlierAnswersFirst' /\ RefusedInPlanOrder'
  BY <1>1, <1>2, CauseSettled, ProceedKeepsOrder
<1>4. /\ phase' \in [Cells -> Phases] /\ status' \in [Cells -> Statuses]
      /\ \A d \in Cells : phase'[d] = phase[d] \/ phase'[d] \in {"running", "stopping"}
  BY <1>1, CauseSettled, ProceedEffect
<1>5. StageTypeOK'
  BY <1>1, <1>2, <1>4, CauseSettled DEF StageInv, StageTypeOK
<1>6. ASSUME NEW d \in Cells PROVE PlanInv(d)'
  BY <1>1, <1>4 DEF StageInv, PlanInv, Idle
<1>7. QED BY <1>3, <1>5, <1>6 DEF StageInv

LEMMA CancelKeepsInv ==
  ASSUME StageInv, Cancel
  PROVE  StageInv'
<1>1. /\ cancelled' = TRUE /\ Proceed({}) /\ SignalAfter
      /\ UNCHANGED <<spent, stopped, refused, pool, plans, usage, reports, relocations,
                     relocated, answered, planOf>>
      /\ spent \in Nat
  BY DEF Cancel, spendVars, taskVars, StageInv, StageTypeOK
<1>2. /\ StoppedRunsStop' /\ PlanOrder' /\ TakenOrder' /\ \A d \in Cells : CellInv(d)'
      /\ EarlierAnswersFirst' /\ RefusedInPlanOrder'
  BY <1>1, CauseSettled, ProceedKeepsOrder
<1>3. /\ phase' \in [Cells -> Phases] /\ status' \in [Cells -> Statuses]
      /\ \A d \in Cells : phase'[d] = phase[d] \/ phase'[d] \in {"running", "stopping"}
  BY <1>1, CauseSettled, ProceedEffect
<1>4. StageTypeOK'
  BY <1>1, <1>3, CauseSettled DEF StageInv, StageTypeOK
<1>5. ASSUME NEW d \in Cells PROVE PlanInv(d)'
  BY <1>1, <1>3 DEF StageInv, PlanInv, Idle
<1>6. QED BY <1>2, <1>4, <1>5 DEF StageInv

--------------------------------------------------------------------------------
(* The theorems *)

LEMMA NextKeepsInv == StageInv /\ [Next]_vars => StageInv'
<1> SUFFICES ASSUME StageInv, [Next]_vars PROVE StageInv'
  OBVIOUS
<1>1. ASSUME NEW c \in Cells, Take(c) PROVE StageInv'
  BY <1>1, SkipKeepsInv, ReuseKeepsInv, MissKeepsInv DEF Take
<1>2. ASSUME NEW c \in Cells, Begin(c) \/ PlanEnds(c) PROVE StageInv'
  BY <1>2, RefuseKeepsInv, AdmitKeepsInv, PlanEndsKeepsInv DEF Begin
<1>3. ASSUME NEW c \in Cells, AgentEvent(c) PROVE StageInv'
  BY <1>3, ReportKeepsInv, DoneKeepsInv, EndKeepsInv, TaskMovesKeepInv DEF AgentEvent
<1>4. ASSUME NEW c \in Cells,
             TimeOut(c) \/ GraceOver(c) \/ Relocate(c) \/ RelocationEnds(c) \/ Finish(c)
      PROVE  StageInv'
  BY <1>4, TaskMovesKeepInv
<1>5. CASE Cancel
  BY <1>5, CancelKeepsInv
<1>6. CASE UNCHANGED vars
  <2>1. UNCHANGED <<spent, stopped, refused, phase, status, cancelled, cause, pool, plans, usage,
                    reports, relocations, relocated, answered, planOf>>
    BY <1>6 DEF vars, spendVars, taskVars
  <2>2. StageTypeOK' /\ StoppedRunsStop' /\ PlanOrder' /\ TakenOrder'
    BY <2>1 DEF StageInv, StageTypeOK, StoppedRunsStop, PlanOrder, TakenOrder
  <2>3. \A c \in Cells : CellInv(c)' /\ PlanInv(c)'
    BY <2>1 DEF StageInv, CellInv, PlanInv, Over
  <2>4. EarlierAnswersFirst' /\ RefusedInPlanOrder'
    BY <2>1 DEF StageInv, EarlierAnswersFirst, RefusedInPlanOrder
  <2>5. QED BY <2>2, <2>3, <2>4 DEF StageInv
<1>7. QED BY <1>1, <1>2, <1>3, <1>4, <1>5, <1>6 DEF Next

\* The invariant the properties below rest on holds in every reachable state of the
\* execute stage.
THEOREM StageInvariant == Spec => []StageInv
<1>1. QED BY InitInv, NextKeepsInv, PTL DEF Spec

\* The stage's variables keep their types; no answer of the resumed run is used twice.
THEOREM StageTypeCorrect == Spec => []StageTypeOK
<1>1. StageInv => StageTypeOK
  BY DEF StageInv
<1>2. QED BY <1>1, StageInvariant, PTL

\* Once the run or its spend limit stopped it, no agent runs on, nor does one start.
THEOREM StoppedRunsStopAlways == Spec => []StoppedRunsStop
<1>1. StageInv => StoppedRunsStop
  BY DEF StageInv
<1>2. QED BY <1>1, StageInvariant, PTL

\* What the resumed run answered is used before anything is paid or refused.
THEOREM EarlierAnswersFirstAlways == Spec => []EarlierAnswersFirst
<1>1. StageInv => EarlierAnswersFirst
  BY DEF StageInv
<1>2. QED BY <1>1, StageInvariant, PTL

\* A refused cell is followed by no cell that may spend.
THEOREM RefusedInPlanOrderAlways == Spec => []RefusedInPlanOrder
<1>1. StageInv => RefusedInPlanOrder
  BY DEF StageInv
<1>2. QED BY <1>1, StageInvariant, PTL

\* Money goes by the plan: earlier answers first, and nothing after a refusal.
THEOREM PlanOrderKeptAlways == Spec => []PlanOrderKept
<1>1. EarlierAnswersFirst /\ RefusedInPlanOrder => PlanOrderKept
  BY DEF PlanOrderKept
<1>2. QED BY <1>1, EarlierAnswersFirstAlways, RefusedInPlanOrderAlways, PTL

\* Of the cells with one plan key, one at most makes the plan call.
THEOREM OnePlanCallAlways == Spec => []OnePlanCall
<1>1. StageInv => OnePlanCall
  <2>1. SUFFICES ASSUME StageInv, NEW c \in Cells, NEW d \in Cells, c # d,
                        PlanKey[c] = PlanKey[d], planOf[c] = c, planOf[d] = d
                 PROVE  FALSE
    BY DEF OnePlanCall
  <2>2. plans[PlanKey[c]] = c /\ plans[PlanKey[d]] = d
    BY <2>1 DEF StageInv, PlanInv
  <2>3. QED BY <2>1, <2>2
<1>2. QED BY <1>1, StageInvariant, PTL

\* The steps that end or stop a task; a cancelled one has had its end.
LEMMA CancelledKept ==
  ASSUME StageInv, NEW c \in Cells, status[c] = "cancelled", [Next]_vars
  PROVE  status'[c] = "cancelled"
<1>1. /\ phase[c] \notin Unsettled /\ cause = "run" /\ status \in [Cells -> Statuses]
      /\ phase[c] \notin Idle \cup {"planning", "sharing", "running"}
  BY DEF StageInv, StageTypeOK, CellInv, Unsettled
<1>2. ASSUME NEW d \in Cells, Take(d) \/ Refuse(d)
      PROVE  status'[c] = status[c]
  BY <1>1, <1>2 DEF Take, Skip, Reuse, Miss, Refuse, InTurn, FirstTaken, Outcome, Idle
<1>3. ASSUME NEW starting \in SUBSET Cells, Proceed(starting), c \notin starting
      PROVE  status'[c] = status[c]
  BY <1>1, <1>3 DEF Proceed
<1>4. ASSUME NEW d \in Cells, Admit(d) \/ CallersFound(d) PROVE status'[c] = status[c]
  <2>1. c # d
    BY <1>1, <1>4 DEF Admit, CallersFound, FirstTaken, Idle
  <2>2. Proceed({d}) \/ UNCHANGED status
    BY <1>4 DEF Admit, CallersFound, Start
  <2>3. QED BY <1>3, <2>1, <2>2
<1>5. ASSUME NEW d \in Cells, PlanEnds(d) PROVE status'[c] = status[c]
  <2>1. c \notin {d} \cup {e \in Cells : phase[e] = "sharing" /\ PlanKey[e] = PlanKey[d]}
    BY <1>1, <1>5 DEF PlanEnds
  <2>2. QED BY <1>3, <1>5, <2>1 DEF PlanEnds
<1>6. ASSUME NEW d \in Cells, NEW ending, Done(d, ending) PROVE status'[c] = status[c]
  <2>1. CASE d = c
    BY <1>1, <1>6, <2>1 DEF Done, Outcome, Counts
  <2>2. CASE d # c
    BY <1>1, <1>6, <2>2 DEF Done, Outcome
  <2>3. QED BY <2>1, <2>2
<1>7. ASSUME NEW d \in Cells,
             Fail(d) \/ TimeOut(d) \/ GraceOver(d) \/ Relocate(d) \/ RelocationEnds(d) \/ Finish(d)
      PROVE  status'[c] = status[c]
  <2>1. CASE Fail(d) \/ TimeOut(d)
    BY <1>1, <2>1 DEF Fail, TimeOut, Outcome
  <2>2. CASE GraceOver(d) \/ Relocate(d) \/ RelocationEnds(d) \/ Finish(d)
    BY <2>2 DEF GraceOver, Relocate, RelocationEnds, Finish
  <2>3. QED BY <1>7, <2>1, <2>2
<1>8. ASSUME NEW d \in Cells, AgentEvent(d) PROVE status'[c] = status[c]
  <2>1. Report(d) => status'[c] = status[c]
    BY <1>3 DEF Report
  <2>2. EndSilently(d) => status'[c] = status[c]
    BY <1>1 DEF EndSilently, Outcome
  <2>3. QED BY <1>6, <1>7, <1>8, <2>1, <2>2 DEF AgentEvent
<1>9. Cancel => status'[c] = status[c]
  BY <1>3 DEF Cancel
<1>10. UNCHANGED vars => status'[c] = status[c]
  BY DEF vars
<1>11. QED BY <1>2, <1>4, <1>5, <1>7, <1>8, <1>9, <1>10 DEF Next, Begin

\* Once the run or its limit has stopped the stage no agent runs, and what the
\* run cut off stays cut off (task.ts:40-120).
THEOREM StopIsFinalAlways == Spec => StopIsFinal
<1>1. StageInv /\ StageInv' /\ [Next]_vars
        => [/\ StoppedRunsStop'
            /\ \A c \in Cells : status[c] = "cancelled" => status'[c] = "cancelled"]_vars
  BY CancelledKept DEF StageInv
<1>2. QED BY <1>1, StageInvariant, PTL DEF Spec, StopIsFinal

--------------------------------------------------------------------------------
(* The report names the limit *)

\* The limit has left its mark wherever a task was stopped or refused for it.
LimitInv ==
  /\ cause = "limit" => stopped
  /\ \A c \in Cells : status[c] = "stopped" => stopped
  /\ \A c \in Cells : status[c] = "refused" => refused

LEMMA LimitProceed ==
  ASSUME StageTypeOK, LimitInv, NEW starting \in SUBSET Cells, Proceed(starting),
         stopped => stopped', refused => refused', cause' = "limit" => stopped'
  PROVE  LimitInv'
<1>1. ASSUME NEW c \in Cells
      PROVE  \/ status'[c] = status[c]
             \/ status'[c] = IF cause' = "limit" THEN "stopped" ELSE "cancelled"
  BY <1>1 DEF Proceed
<1>2. ASSUME NEW c \in Cells, status'[c] = "stopped" PROVE stopped'
  BY <1>1, <1>2 DEF LimitInv
<1>3. ASSUME NEW c \in Cells, status'[c] = "refused" PROVE refused'
  BY <1>1, <1>3 DEF LimitInv
<1>4. QED BY <1>2, <1>3 DEF LimitInv

LEMMA LimitStep == StageInv /\ LimitInv /\ [Next]_vars => LimitInv'
<1> SUFFICES ASSUME StageInv, LimitInv, [Next]_vars PROVE LimitInv'
  OBVIOUS
<1>1. StageTypeOK /\ status \in [Cells -> Statuses]
  BY DEF StageInv, StageTypeOK
<1>2. ASSUME SignalAfter, stopped => stopped' PROVE cause' = "limit" => stopped'
  BY <1>2 DEF SignalAfter, LimitInv
<1>3. ASSUME NEW cost, ChargeReview(cost) PROVE (stopped => stopped') /\ (refused => refused')
  BY <1>3 DEF ChargeReview
<1>4. ASSUME NEW c \in Cells, Take(c) PROVE LimitInv'
  BY <1>1, <1>4 DEF Take, Skip, Reuse, Miss, Outcome, spendVars, LimitInv
<1>5. ASSUME NEW c \in Cells, Refuse(c) PROVE LimitInv'
  BY <1>1, <1>5 DEF Refuse, RefuseReview, Outcome, LimitInv
<1>6. ASSUME NEW c \in Cells, Admit(c) \/ CallersFound(c) PROVE LimitInv'
  <2>1. UNCHANGED <<stopped, refused, cause>>
    BY <1>6 DEF Admit, CallersFound, spendVars
  <2>2. CASE Proceed({c})
    BY <1>1, <2>1, <2>2, LimitProceed DEF LimitInv
  <2>3. CASE UNCHANGED status
    BY <2>1, <2>3 DEF LimitInv
  <2>4. QED BY <1>6, <2>2, <2>3 DEF Admit, CallersFound, Start
<1>7. ASSUME NEW c \in Cells, PlanEnds(c) PROVE LimitInv'
  <2>1. (stopped => stopped') /\ (refused => refused')
    BY <1>3, <1>7 DEF PlanEnds, spendVars
  <2>2. cause' = "limit" => stopped'
    BY <1>2, <1>7, <2>1 DEF PlanEnds
  <2>3. QED BY <1>1, <1>7, <2>1, <2>2, LimitProceed DEF PlanEnds
<1>8. ASSUME NEW c \in Cells, Report(c) PROVE LimitInv'
  <2>1. (stopped => stopped') /\ (refused => refused')
    BY <1>3, <1>8 DEF Report
  <2>2. cause' = "limit" => stopped'
    BY <1>2, <1>8, <2>1 DEF Report
  <2>3. QED BY <1>1, <1>8, <2>1, <2>2, LimitProceed DEF Report
<1>9. ASSUME NEW c \in Cells, NEW ending \in {"completed", "cut"}, Done(c, ending) PROVE LimitInv'
  <2>1. UNCHANGED <<stopped, refused, cause>>
    BY <1>9 DEF Done, spendVars
  <2>2. ASSUME NEW d \in Cells PROVE status'[d] = status[d] \/ status'[d] \in {"completed", "cut"}
    BY <1>1, <1>9 DEF Done, Outcome
  <2>3. QED BY <2>1, <2>2 DEF LimitInv
<1>10. ASSUME NEW c \in Cells, EndSilently(c) \/ Fail(c) \/ TimeOut(c) PROVE LimitInv'
  <2>1. UNCHANGED <<stopped, refused, cause>>
    BY <1>10 DEF EndSilently, Fail, TimeOut, spendVars
  <2>2. ASSUME NEW d \in Cells
        PROVE  status'[d] = status[d] \/ status'[d] \in {"completed", "failed", "timed_out"}
    BY <1>1, <1>10 DEF EndSilently, Fail, TimeOut, Outcome
  <2>3. QED BY <2>1, <2>2 DEF LimitInv
<1>11. ASSUME NEW c \in Cells, GraceOver(c) \/ Relocate(c) \/ RelocationEnds(c) \/ Finish(c) PROVE LimitInv'
  BY <1>11 DEF GraceOver, Relocate, RelocationEnds, Charge, Finish, spendVars, LimitInv
<1>12. ASSUME Cancel PROVE LimitInv'
  <2>1. UNCHANGED <<stopped, refused>>
    BY <1>12 DEF Cancel, spendVars
  <2>2. cause' = "limit" => stopped'
    BY <1>2, <1>12, <2>1 DEF Cancel
  <2>3. QED BY <1>1, <1>12, <2>1, <2>2, LimitProceed DEF Cancel
<1>13. ASSUME UNCHANGED vars PROVE LimitInv'
  BY <1>13 DEF vars, spendVars, LimitInv
<1>14. QED
  BY <1>4, <1>5, <1>6, <1>7, <1>8, <1>9, <1>10, <1>11, <1>12, <1>13 DEF Next, Begin, AgentEvent

\* Wherever the limit stopped a task, or kept one from starting, the report says
\* which limit it was (spend-limit.ts:38-42, 68-76).
THEOREM LimitExplainedAlways == Spec => []LimitExplained
<1>1. Init => LimitInv
  BY DEF Init, SpendInit, LimitInv
<1>2. LimitInv => LimitExplained
  BY DEF LimitInv, LimitExplained, Reached
<1>3. QED BY <1>1, <1>2, LimitStep, StageInvariant, PTL DEF Spec

--------------------------------------------------------------------------------
(* What the outcomes say was spent *)

LEMMA CellsFinite == IsFiniteSet(Cells)
BY StageAssumption, FS_Interval DEF Cells

LEMMA UsageAdds ==
  ASSUME StageTypeOK, NEW c \in Cells, NEW cost \in Nat, usage' = Add(usage, c, cost)
  PROVE  SumFunction(usage') = SumFunction(usage) + cost
<1>1. usage \in [Cells -> Nat] /\ DOMAIN usage = Cells /\ DOMAIN usage' = Cells
  BY DEF StageTypeOK, Add
<1>2. SumFunctionOnSet(usage', Cells) = SumFunctionOnSet(usage, Cells) + cost
  <2>1. SumFunctionOnSet([usage EXCEPT ![c] = usage[c] + cost], Cells) = SumFunctionOnSet(usage, Cells) + cost
    BY <1>1, CellsFinite, SumAdds, ZenonT(60)
  <2>2. QED BY <2>1 DEF Add
<1>3. QED BY <1>1, <1>2 DEF SumFunction

LEMMA UsageType == StageTypeOK => SumFunction(usage) \in Nat
<1>1. SUFFICES ASSUME StageTypeOK PROVE SumFunction(usage) \in Nat
  OBVIOUS
<1>2. usage \in [Cells -> Nat] /\ DOMAIN usage = Cells
  BY <1>1 DEF StageTypeOK
<1>3. \A c \in Cells : usage[c] \in Nat
  BY <1>2
<1>4. SumFunctionOnSet(usage, Cells) \in Nat
  BY <1>3, CellsFinite, SumType
<1>5. QED BY <1>2, <1>4 DEF SumFunction

LEMMA SpendStep == StageTypeOK /\ SpendAccounted /\ [Next]_vars => SpendAccounted'
<1> SUFFICES ASSUME StageTypeOK, SpendAccounted, [Next]_vars PROVE SpendAccounted'
  OBVIOUS
<1> USE SpendAssumption, StageAssumption
<1>1. /\ Planned \in Nat /\ relocated \in Nat /\ SumFunction(usage) \in Nat
      /\ spent = Planned + relocated + SumFunction(usage)
  BY UsageType DEF StageTypeOK, SpendAccounted
<1>2. ASSUME UNCHANGED <<spent, relocated, usage>> PROVE SpendAccounted'
  BY <1>2 DEF SpendAccounted
<1>3. ASSUME NEW c \in Cells, NEW cost \in Costs, ChargeReview(cost),
             usage' = Add(usage, c, cost), UNCHANGED relocated
      PROVE  SpendAccounted'
  <2>1. cost \in Nat /\ spent' = spent + cost
    BY <1>3 DEF ChargeReview
  <2>2. SumFunction(usage') = SumFunction(usage) + cost
    BY <1>3, <2>1, UsageAdds
  <2>3. spent' = Planned + relocated' + SumFunction(usage')
    BY <1>1, <1>3, <2>1, <2>2
  <2>4. QED BY <2>3 DEF SpendAccounted
<1>4. ASSUME NEW c \in Cells, Take(c) \/ Begin(c) PROVE SpendAccounted'
  <2>1. UNCHANGED <<spent, relocated, usage>>
    BY <1>4 DEF Take, Skip, Reuse, Miss, Begin, Refuse, RefuseReview, Admit, CallersFound,
             taskVars, spendVars
  <2>2. QED BY <1>2, <2>1
<1>5. ASSUME NEW c \in Cells, PlanEnds(c) PROVE SpendAccounted'
  <2>1. CASE UNCHANGED <<spendVars, usage>>
    BY <1>2, <1>5, <2>1 DEF PlanEnds, spendVars
  <2>2. CASE \E cost \in Costs : ChargeReview(cost) /\ usage' = Add(usage, c, cost)
    BY <1>3, <1>5, <2>2 DEF PlanEnds
  <2>3. QED BY <1>5, <2>1, <2>2 DEF PlanEnds
<1>6. ASSUME NEW c \in Cells, Report(c) PROVE SpendAccounted'
  BY <1>3, <1>6 DEF Report
<1>7. ASSUME NEW c \in Cells, RelocationEnds(c) PROVE SpendAccounted'
  <2>1. PICK cost \in Costs \cup {0} : Charge(cost) /\ relocated' = relocated + cost
    BY <1>7 DEF RelocationEnds
  <2>2. cost \in Nat /\ spent' = spent + cost /\ usage' = usage
    BY <1>7, <2>1 DEF Charge, RelocationEnds
  <2>3. spent' = Planned + relocated' + SumFunction(usage)
    BY <1>1, <2>1, <2>2
  <2>4. QED BY <2>2, <2>3 DEF SpendAccounted
<1>8. ASSUME NEW c \in Cells,
             \/ Done(c, "completed") \/ Done(c, "cut") \/ EndSilently(c) \/ Fail(c) \/ TimeOut(c)
             \/ GraceOver(c) \/ Relocate(c) \/ Finish(c)
      PROVE  SpendAccounted'
  <2>1. UNCHANGED <<spent, relocated, usage>>
    BY <1>8 DEF Done, EndSilently, Fail, TimeOut, GraceOver, Relocate, Finish, taskVars, spendVars
  <2>2. QED BY <1>2, <2>1
<1>9. ASSUME Cancel \/ UNCHANGED vars PROVE SpendAccounted'
  <2>1. UNCHANGED <<spent, relocated, usage>>
    BY <1>9 DEF Cancel, vars, taskVars, spendVars
  <2>2. QED BY <1>2, <2>1
<1>10. QED BY <1>4, <1>5, <1>6, <1>7, <1>8, <1>9 DEF Next, AgentEvent

\* The report's sum is what the limit counted: a shared plan is paid once, what a
\* stopped task still reports is in both, and a reused task is in neither
\* (execute-stage.ts:106-109, 126, 97; execute.ts:219-222; task.ts:144-147).
THEOREM SpendAccountedAlways == Spec => []SpendAccounted
<1>1. Init => SpendAccounted
  <2>1. SUFFICES ASSUME Init PROVE SpendAccounted
    OBVIOUS
  <2>2. DOMAIN usage = Cells /\ \A c \in Cells : usage[c] = 0
    BY <2>1 DEF Init
  <2>3. SumFunctionOnSet(usage, Cells) = 0
    BY <2>2, CellsFinite, SumZero
  <2>4. spent = Planned /\ relocated = 0
    BY <2>1 DEF Init, SpendInit
  <2>5. QED BY <2>2, <2>3, <2>4, SpendAssumption DEF SpendAccounted, SumFunction
<1>2. QED BY <1>1, SpendStep, StageTypeCorrect, PTL DEF Spec

--------------------------------------------------------------------------------
(* What the report says of a file is true of the agents' answers, for every     *)
(* matrix, task limit, spend limit and resumed run.                             *)

\* The coverage of a file with a planned reviewer is the worst of its reviewers'.
LEMMA WorstStatus ==
  ASSUME NEW file \in Files, NEW r \in Assigned(file)
  PROVE  /\ Coverage(file) = "reviewed" => FileStatus(r, file) = "reviewed"
         /\ Coverage(file) = "unreviewed" => FileStatus(r, file) \in {"reviewed", "unreviewed"}
BY DEF Coverage, FileStatus

\* A cell's outcome says "completed" only when its agent, or the resumed run's, did,
\* or when its agent fell silent.
LEMMA CompletedMeansDone ==
  ASSUME StageInv, NEW file \in Files, NEW r \in Assigned(file),
         Coverage(file) = "reviewed"
  PROVE  \E d \in CellsOf(r, file) : answered[d] \in Made
<1>1. Progress(r, file) = "done"
  BY WorstStatus DEF FileStatus
<1>2. PICK d \in CellsOf(r, file) : status[d] = "completed"
  BY <1>1 DEF Progress, Ended
<1>3. QED BY <1>2 DEF StageInv, CellInv, CellsOf

\* A file is reported reviewed only if each reviewer planned for it has a task on it
\* whose agent said it was done, or fell silent unasked.
THEOREM ReviewedMeansDoneAlways == Spec => []ReviewedMeansDone
<1>1. StageInv => ReviewedMeansDone
  <2>1. SUFFICES ASSUME StageInv, NEW file \in Files, Coverage(file) = "reviewed"
                 PROVE  /\ \A c \in Cells : file \in FilesOf[c] =>
                             \E d \in CellsOf(ReviewerOf[c], file) :
                               answered[d] \in Made
                        /\ \A l \in Limited : file \in l.files =>
                             \E d \in CellsOf(l.reviewer, file) :
                               answered[d] \in Made
    BY DEF ReviewedMeansDone
  <2>2. ASSUME NEW c \in Cells, file \in FilesOf[c]
        PROVE  ReviewerOf[c] \in Assigned(file)
    BY <2>2, CoverageAssumption DEF Assigned, CellsOf
  <2>3. ASSUME NEW l \in Limited, file \in l.files
        PROVE  l.reviewer \in Assigned(file)
    BY <2>3, CoverageAssumption DEF Assigned
  <2>4. QED BY <2>1, <2>2, <2>3, CompletedMeansDone
<1>2. QED BY <1>1, StageInvariant, PTL

\* A file is failed only when a task on it began; where one began in vain and the file
\* is merely unreviewed, another task of the same reviewer was completed.
THEOREM NeverStartedIsNotFailedAlways == Spec => []NeverStartedIsNotFailed
<1>1. StageInv => NeverStartedIsNotFailed
  <2>1. SUFFICES ASSUME StageInv, StageOver, NEW file \in Files
                 PROVE  /\ Coverage(file) = "failed" =>
                             \E c \in Cells : file \in FilesOf[c] /\ BegunInVain(c)
                        /\ Coverage(file) = "unreviewed" =>
                             \A c \in Cells : file \in FilesOf[c] /\ BegunInVain(c) =>
                               \E d \in CellsOf(ReviewerOf[c], file) : status[d] = "completed"
    BY DEF NeverStartedIsNotFailed
  <2>2. \A c \in Cells : status[c] \in Statuses \ {"none"}
    BY <2>1 DEF StageInv, StageTypeOK, CellInv, StageOver, Unsettled, Idle
  <2>3. ASSUME Coverage(file) = "failed"
        PROVE  \E c \in Cells : file \in FilesOf[c] /\ BegunInVain(c)
    <3>1. PICK r \in Assigned(file) : FileStatus(r, file) = "failed"
      BY <2>3 DEF Coverage
    <3>2. Progress(r, file) = "none" /\ Ran(r, file)
      BY <3>1 DEF FileStatus, Progress
    <3>3. PICK c \in CellsOf(r, file) : c \notin NotStarted
      BY <3>2 DEF Ran
    <3>4. c \in Cells /\ file \in FilesOf[c] /\ status[c] \notin {"completed", "cut"}
      BY <3>2 DEF Progress, Ended, CellsOf
    <3>5. status[c] \notin {"skipped", "refused"}
      BY <3>3, <3>4 DEF NotStarted
    <3>6. BegunInVain(c)
      BY <2>2, <3>4, <3>5 DEF BegunInVain, Statuses
    <3>7. QED BY <3>4, <3>6
  <2>4. ASSUME Coverage(file) = "unreviewed", NEW c \in Cells, file \in FilesOf[c],
               BegunInVain(c)
        PROVE  \E d \in CellsOf(ReviewerOf[c], file) : status[d] = "completed"
    <3> DEFINE r == ReviewerOf[c]
    <3>1. c \in CellsOf(r, file) /\ r \in Assigned(file)
      BY <2>4, CoverageAssumption DEF Assigned, CellsOf
    <3>2. Ran(r, file)
      BY <2>4, <3>1 DEF Ran, NotStarted, BegunInVain
    <3>3. FileStatus(r, file) \in {"reviewed", "unreviewed"}
      BY <2>4, <3>1, WorstStatus
    <3>4. Progress(r, file) = "done"
      BY <3>2, <3>3 DEF FileStatus
    <3>5. QED BY <3>4 DEF Progress, Ended
  <2>5. QED BY <2>3, <2>4
<1>2. QED BY <1>1, StageInvariant, PTL

\* What the report says of a file is true, whichever status it gives it.
THEOREM CoverageTrueAlways == Spec => []CoverageTrue
<1>1. ReviewedMeansDone /\ NeverStartedIsNotFailed => CoverageTrue
  BY DEF CoverageTrue
<1>2. QED BY <1>1, ReviewedMeansDoneAlways, NeverStartedIsNotFailedAlways, PTL

-----------------------------------------------------------------------------
(* An attempt on the direct runtime *)


Loops == [steps : Nat, resumed : BOOLEAN, text : BOOLEAN, done : BOOLEAN]

\* While the attempt runs, its agent has not called task_done and has given no
\* outcome; it is asked only while it has steps left.
LoopInv ==
  /\ at \in {"ask", "wait", "again", "got", "tools", "ended"}
  /\ loop \in Loops
  /\ reported \in Nat /\ timedOut \in BOOLEAN
  /\ answer.text \in BOOLEAN
  /\ failure \in Failures \cup {"none"}
  /\ at # "ended" => ~loop.done /\ cameTo = LoopAttempt!NoOutcome
  /\ at = "tools" => failure = "none"
  /\ loop.steps <= LoopSteps
  /\ at \in {"ask", "wait", "again", "got"} => loop.steps < LoopSteps

LEMMA LoopWith ==
  ASSUME NEW l \in Loops, NEW b \in BOOLEAN, NEW m, m = [l EXCEPT !.done = b]
  PROVE  m \in Loops /\ m.steps = l.steps
BY DEF Loops

LEMMA LoopFirst == LoopInit => LoopInv
<1> SUFFICES ASSUME LoopInit PROVE LoopInv
  OBVIOUS
<1>1. /\ loop = [steps |-> 0, resumed |-> FALSE, text |-> FALSE, done |-> FALSE]
      /\ at = "ask" /\ failure = "none" /\ answer = [text |-> FALSE, calls |-> {}]
      /\ reported = 0 /\ timedOut = FALSE /\ cameTo = LoopAttempt!NoOutcome
  BY DEF LoopInit, Nothing
<1>2. answer.text = FALSE /\ loop.steps = 0 /\ loop.done = FALSE
  BY <1>1
<1>3. loop \in Loops
  BY <1>1 DEF Loops
<1>4. QED
  <2>1. reported \in Nat /\ timedOut \in BOOLEAN /\ failure \in Failures \cup {"none"}
    BY <1>1
  <2>2. loop.steps < LoopSteps /\ loop.steps <= LoopSteps
    BY <1>2, LoopAssumption
  <2>3. answer.text \in BOOLEAN
    BY <1>2
  <2>4. at # "ended" => ~loop.done /\ cameTo = LoopAttempt!NoOutcome
    BY <1>1, <1>2
  <2>5. QED BY <1>1, <1>3, <2>1, <2>2, <2>3, <2>4 DEF LoopInv

\* What one more request leaves of the loop's state.
LEMMA StepTaken ==
  ASSUME LoopInv, at = "got"
  PROVE  /\ Stepped \in Loops
         /\ Stepped.steps = loop.steps + 1 /\ Stepped.steps <= LoopSteps /\ ~Stepped.done
<1> DEFINE written == loop.text \/ answer.text
<1>1. written \in BOOLEAN
  BY Zenon
<1>2. Stepped = [loop EXCEPT !.steps = loop.steps + 1, !.text = written]
  BY Zenon DEF Stepped
<1>3. loop \in Loops /\ loop.steps < LoopSteps /\ ~loop.done
  BY DEF LoopInv, Loops
<1> HIDE DEF written
<1>4. Stepped \in Loops /\ Stepped.steps = loop.steps + 1 /\ Stepped.done = loop.done
  <2>1. loop.steps + 1 \in Nat
    BY <1>3 DEF Loops
  <2> DEFINE n == loop.steps + 1
  <2>2. n \in Nat /\ Stepped = [loop EXCEPT !.steps = n, !.text = written]
    BY <1>2, <2>1
  <2> HIDE DEF n
  <2>3. Stepped \in Loops /\ Stepped.steps = n /\ Stepped.done = loop.done
    <3>1. loop \in Loops /\ written \in BOOLEAN
      BY <1>1, <1>3
    <3>2. ASSUME NEW m, m = [loop EXCEPT !.steps = n, !.text = written]
          PROVE  m \in Loops /\ m.steps = n /\ m.done = loop.done
      BY <3>1, <3>2, <2>2 DEF Loops
    <3>3. QED BY <2>2, <3>2
  <2>4. QED BY <2>3 DEF n
<1>5. Stepped.steps <= LoopSteps
  BY <1>3, <1>4, LoopAssumption DEF Loops
<1>6. QED
  BY <1>3, <1>4, <1>5

\* The agent is done if it was, or has now called task_done.
LEMMA ToolsRun ==
  ASSUME LoopInv, RunTools
  PROVE  /\ at = "tools" /\ loop' \in Loops /\ loop'.steps = loop.steps
         /\ reported' \in Nat /\ reported <= reported'
         /\ UNCHANGED <<failure, answer, timedOut>> /\ ~loop.done
         /\ \/ at' = "ask" /\ ~loop'.done /\ loop'.steps < LoopSteps /\ UNCHANGED cameTo
            \/ Finishes(loop', reported') /\ (loop'.done \/ loop'.steps >= LoopSteps)
<1> DEFINE isDone == loop.done \/ "done" \in answer.calls
<1>1. isDone \in BOOLEAN
  BY Zenon
<1>2. loop' = [loop EXCEPT !.done = isDone]
  BY Zenon DEF RunTools
<1>3. loop \in Loops /\ reported \in Nat /\ at = "tools" /\ ~loop.done
  BY DEF LoopInv, Loops, RunTools
<1> HIDE DEF isDone
<1>4. loop' \in Loops /\ loop'.steps = loop.steps
  BY <1>1, <1>2, <1>3, LoopWith
<1>5. reported' \in Nat /\ reported <= reported'
  BY <1>3 DEF RunTools
<1>6. \/ at' = "ask" /\ ~loop'.done /\ loop'.steps < LoopSteps /\ UNCHANGED cameTo
      \/ Finishes(loop', reported') /\ ~(~loop'.done /\ loop'.steps < LoopSteps)
  BY Zenon DEF RunTools, Continues
<1>7. loop'.steps < LoopSteps \/ loop'.steps >= LoopSteps
  BY <1>4, LoopAssumption DEF Loops
<1>8. QED
  BY <1>3, <1>4, <1>5, <1>6, <1>7 DEF RunTools

LEMMA LoopStep ==
  ASSUME LoopInv, [LoopNext]_loopVars
  PROVE  LoopInv'
<1> USE LoopAssumption DEF LoopInv
<1>1. ASSUME OutOfTime \/ CancelLoop \/ UNCHANGED loopVars PROVE LoopInv'
  BY <1>1 DEF OutOfTime, CancelLoop, loopVars
<1>2. ASSUME NEW a, a.text \in BOOLEAN, NEW f \in Failures \cup {"none"}, Gets(a, f),
             at \in {"ask", "wait", "again"}, UNCHANGED <<loop, reported, timedOut, cameTo>>
      PROVE  LoopInv'
  BY <1>2 DEF Gets
<1>3. ASSUME Answered PROVE LoopInv'
  <2>1. PICK a \in Answers : Gets(a, "none")
    BY <1>3 DEF Answered
  <2>2. a.text \in BOOLEAN
    BY <2>1 DEF Answers
  <2>3. QED BY <1>2, <1>3, <2>1, <2>2 DEF Answered
<1>4. Nothing.text = FALSE
  BY DEF Nothing
<1>5. ASSUME Retry PROVE LoopInv'
  <2>1. CASE Aborted
    <3>1. at = "wait" /\ Gets(Nothing, failure) /\ UNCHANGED <<loop, reported, timedOut, cameTo>>
      BY <1>5, <2>1 DEF Retry
    <3>2. failure \in Failures \cup {"none"}
      OBVIOUS
    <3>3. QED BY <1>4, <3>1, <3>2 DEF Gets
  <2>2. CASE ~Aborted
    BY <1>5, <2>2 DEF Retry
  <2>3. QED BY <2>1, <2>2
<1>6. ASSUME Fails PROVE LoopInv'
  <2>1. PICK f \in Failures :
          CASE f = "effort" ->
                 at' = "ask" /\ effort' = "dropped" /\ UNCHANGED <<answer, failure>>
            [] f = "transient" /\ at = "ask" ->
                 at' = "wait" /\ failure' = f /\ UNCHANGED <<answer, effort>>
            [] OTHER -> Gets(Nothing, f) /\ UNCHANGED effort
    BY <1>6 DEF Fails
  <2>2. at \in {"ask", "again"} /\ UNCHANGED <<loop, reported, timedOut, calledOff, cameTo>>
    BY <1>6 DEF Fails
  <2>3. CASE f = "effort"
    BY <2>1, <2>2, <2>3
  <2>4. CASE f = "transient" /\ at = "ask"
    BY <2>1, <2>2, <2>4
  <2>5. CASE f # "effort" /\ ~(f = "transient" /\ at = "ask")
    <3>1. Gets(Nothing, f)
      BY <2>1, <2>5
    <3>2. QED BY <1>4, <2>2, <3>1 DEF Gets
  <2>6. QED BY <2>3, <2>4, <2>5
<1>7. ASSUME RequestFailed PROVE LoopInv'
  <2> DEFINE l == [loop EXCEPT !.steps = @ + 1]
  <2>1. l \in Loops /\ l.steps = loop.steps + 1
    BY DEF Loops
  <2> HIDE DEF l
  <2>2. /\ at = "got" /\ at' = "ended" /\ loop' = l
        /\ UNCHANGED <<failure, answer, reported, timedOut>>
    BY <1>7 DEF RequestFailed, l
  <2>3. loop'.steps <= LoopSteps
    BY <2>1, <2>2 DEF Loops
  <2>4. QED BY <2>1, <2>2, <2>3
<1>8. ASSUME NoCalls PROVE LoopInv'
  <2>1. /\ at = "got" /\ Stepped \in Loops /\ Stepped.steps <= LoopSteps /\ ~Stepped.done
    BY <1>8, StepTaken DEF NoCalls
  <2>2. CASE ~loop.resumed /\ ~Stepped.text /\ Stepped.steps < LoopSteps
    <3>1. /\ at' = "ask" /\ loop' = [Stepped EXCEPT !.resumed = TRUE]
          /\ UNCHANGED <<failure, answer, reported, timedOut, cameTo>>
      BY <1>8, <2>2 DEF NoCalls
    <3> HIDE DEF LoopInv
    <3>2. loop' \in Loops /\ loop'.steps = Stepped.steps /\ ~loop'.done
      BY <2>1, <3>1 DEF Loops
    <3> USE DEF LoopInv
    <3>3. QED BY <2>1, <2>2, <3>1, <3>2 DEF Loops
  <2>3. CASE ~(~loop.resumed /\ ~Stepped.text /\ Stepped.steps < LoopSteps)
    <3>1. loop' = Stepped /\ at' = "ended" /\ UNCHANGED <<failure, answer, reported, timedOut>>
      BY <1>8, <2>3 DEF NoCalls, Finishes
    <3>2. QED BY <2>1, <3>1 DEF Loops
  <2>4. QED BY <2>2, <2>3
<1>9. ASSUME ToolCalls PROVE LoopInv'
  <2>1. /\ at = "got" /\ Stepped \in Loops /\ Stepped.steps <= LoopSteps /\ ~Stepped.done
        /\ loop' = Stepped /\ at' = "tools" /\ failure = "none"
        /\ UNCHANGED <<failure, answer, reported, timedOut, cameTo>>
    BY <1>9, StepTaken DEF ToolCalls
  <2>2. QED BY <2>1 DEF Loops
<1>10. ASSUME RunTools PROVE LoopInv'
  BY <1>10, ToolsRun DEF Finishes, Loops
<1>11. QED
  BY <1>1, <1>3, <1>5, <1>6, <1>7, <1>8, <1>9, <1>10 DEF LoopNext

THEOREM LoopInvariant == LoopSpec => []LoopInv
BY LoopFirst, LoopStep, PTL DEF LoopSpec

-----------------------------------------------------------------------------
LEMMA AttemptBegins == LoopInit => LoopAttempt!Init
<1> SUFFICES ASSUME LoopInit PROVE LoopAttempt!Init
  OBVIOUS
<1>1. /\ loop.steps = 0 /\ loop.done = FALSE /\ reported = 0 /\ at = "ask"
      /\ cameTo = LoopAttempt!NoOutcome
  BY DEF LoopInit
<1>2. LoopAgent = [turn |-> 0, findings |-> 0, done |-> FALSE, failed |-> FALSE, answered |-> FALSE]
  BY <1>1 DEF LoopAgent
<1>3. QED
  BY <1>1, <1>2 DEF LoopAttempt!Init

\* The agent as it is told of in the contract.
AgentIs ==
  /\ LoopAgent \in LoopAttempt!Agents
  /\ LoopAgent.turn = loop.steps /\ LoopAgent.findings = reported
  /\ LoopAgent.done = loop.done /\ LoopAgent.failed = FALSE
  /\ LoopAgent.answered <=> loop.done \/ (at = "ended" /\ failure = "none")

LEMMA AgentOf == LoopInv => AgentIs
<1> SUFFICES ASSUME LoopInv PROVE AgentIs
  OBVIOUS
<1> DEFINE given == loop.done \/ (at = "ended" /\ failure = "none")
<1>1. given \in BOOLEAN
  BY Zenon
<1>2. LoopAgent = [turn |-> loop.steps, findings |-> reported, done |-> loop.done,
                   failed |-> FALSE, answered |-> given]
  BY Zenon DEF LoopAgent
<1>3. loop.steps \in Nat /\ loop.done \in BOOLEAN /\ reported \in Nat
  BY DEF LoopInv, Loops
<1> HIDE DEF given
<1>4. /\ LoopAgent \in LoopAttempt!Agents
      /\ LoopAgent.turn = loop.steps /\ LoopAgent.findings = reported
      /\ LoopAgent.done = loop.done /\ LoopAgent.failed = FALSE /\ LoopAgent.answered = given
  BY <1>1, <1>2, <1>3 DEF LoopAttempt!Agents
<1>5. QED
  BY <1>4, Zenon DEF given, AgentIs

\* A step of a running attempt takes nothing back that its agent did.
LEMMA AgentGoes ==
  ASSUME LoopInv, LoopInv', at # "ended", reported <= reported'
  PROVE  LoopAttempt!Goes
<1>1. /\ LoopAgent' \in LoopAttempt!Agents /\ LoopAgent'.findings = reported'
  <2>1. AgentIs'
    BY AgentOf, PTL
  <2>2. QED BY <2>1 DEF AgentIs
<1>2. LoopAgent.findings = reported /\ LoopAgent.done = loop.done /\ LoopAgent.failed = FALSE
  BY AgentOf DEF AgentIs
<1>3. ~loop.done /\ reported \in Nat /\ reported' \in Nat
  BY DEF LoopInv
<1>4. QED
  BY <1>1, <1>2, <1>3 DEF LoopAttempt!Goes

\* An attempt that ends is told of truly.
LEMMA EndsTruly ==
  ASSUME LoopInv, LoopInv', at # "ended", reported <= reported',
         LoopAttempt!Owed(cameTo', LoopAgent')
  PROVE  LoopAttempt!Ends
BY AgentGoes DEF LoopAttempt!Ends, LoopInv

LEMMA FinishedTruly ==
  ASSUME LoopInv, LoopInv', at # "ended", reported <= reported', Finishes(loop', reported'),
         loop'.done \/ loop'.steps <= LoopSteps
  PROVE  LoopAttempt!Ends
<1>1. /\ LoopAgent'.turn = loop'.steps /\ LoopAgent'.findings = reported'
      /\ LoopAgent'.done = loop'.done
  <2>1. AgentIs'
    BY AgentOf, PTL
  <2>2. QED BY <2>1 DEF AgentIs
<1>2. loop'.steps \in Nat /\ loop'.done \in BOOLEAN /\ reported' \in Nat
  BY DEF LoopInv, Loops
<1> DEFINE e == LoopEnding(loop')
<1>3. /\ e \in {"done", "step_cap", "stopped_early"}
      /\ e = "done" => loop'.done
      /\ e # "done" => ~loop'.done
      /\ e = "step_cap" => loop'.steps >= LoopSteps
  BY <1>2, LoopAssumption DEF LoopEnding
<1>4. cameTo' = [ending |-> e, retryable |-> FALSE, findings |-> reported', read |-> "all"]
  BY DEF Finishes
<1> HIDE DEF e
<1>5. cameTo' \in LoopAttempt!Outcomes
  BY <1>2, <1>3, <1>4 DEF LoopAttempt!Outcomes
<1>6. /\ cameTo'.ending = e /\ cameTo'.retryable = FALSE
      /\ cameTo'.findings = reported' /\ cameTo'.read = "all"
  BY <1>4
<1>7. LoopAttempt!Owed(cameTo', LoopAgent')
  BY <1>1, <1>2, <1>3, <1>5, <1>6 DEF LoopAttempt!Owed
<1>8. QED BY <1>7, EndsTruly

\* Every step is one of the agent's work, or the one that ends the attempt.
LEMMA AttemptGoesOn ==
  ASSUME LoopInv, LoopInv', [LoopNext]_loopVars
  PROVE  [LoopAttempt!Works \/ LoopAttempt!Ends]_<<LoopAgent, cameTo>>
<1>1. ASSUME OutOfTime \/ CancelLoop \/ UNCHANGED loopVars
      PROVE  UNCHANGED <<LoopAgent, cameTo>>
  BY <1>1 DEF OutOfTime, CancelLoop, loopVars, LoopAgent
<1>2. ASSUME Answered \/ Fails \/ Retry
      PROVE  UNCHANGED <<LoopAgent, cameTo>>
  <2>1. at # "ended" /\ at' # "ended" /\ UNCHANGED <<loop, reported, cameTo>>
    BY <1>2 DEF Answered, Fails, Retry, Gets
  <2>2. QED BY <2>1 DEF LoopAgent
<1>3. ASSUME RequestFailed PROVE LoopAttempt!Ends
  <2>1. /\ at = "got" /\ at' = "ended" /\ failure # "none" /\ failure' = failure
        /\ reported' = reported /\ reported \in Nat /\ loop'.done = loop.done /\ ~loop.done
    BY <1>3 DEF RequestFailed, LoopInv, Loops
  <2> DEFINE again == timedOut \/ failure \in {"transient", "quota"}
  <2>2. again \in BOOLEAN
    BY Zenon
  <2>3. cameTo' = [ending |-> "error", findings |-> reported, read |-> "all", retryable |-> again]
    BY <1>3, Zenon DEF RequestFailed
  <2> HIDE DEF again
  <2>4. /\ cameTo' \in LoopAttempt!Outcomes /\ cameTo'.ending = "error"
        /\ cameTo'.findings = reported /\ cameTo'.read = "all"
    BY <2>1, <2>2, <2>3 DEF LoopAttempt!Outcomes
  <2>5. /\ LoopAgent'.findings = reported'
        /\ LoopAgent'.answered <=> loop'.done \/ (at' = "ended" /\ failure' = "none")
    <3>1. AgentIs'
      BY AgentOf, PTL
    <3>2. QED BY <3>1 DEF AgentIs
  <2>6. LoopAttempt!Owed(cameTo', LoopAgent')
    BY <2>1, <2>4, <2>5 DEF LoopAttempt!Owed
  <2>7. QED BY <2>1, <2>6, EndsTruly
<1>4. ASSUME NoCalls PROVE LoopAttempt!Works \/ LoopAttempt!Ends
  <2>1. /\ at = "got" /\ reported' = reported /\ reported \in Nat
        /\ \/ UNCHANGED cameTo
           \/ loop' = Stepped /\ Finishes(Stepped, reported)
    BY <1>4 DEF NoCalls, LoopInv
  <2>2. loop'.steps <= LoopSteps
    BY DEF LoopInv
  <2>3. CASE UNCHANGED cameTo
    BY <2>1, <2>3, AgentGoes DEF LoopAttempt!Works
  <2>4. CASE loop' = Stepped /\ Finishes(Stepped, reported)
    <3>1. Finishes(loop', reported')
      BY <2>1, <2>4
    <3>2. QED BY <2>1, <2>2, <3>1, FinishedTruly
  <2>5. QED BY <2>1, <2>3, <2>4
<1>5. ASSUME ToolCalls PROVE LoopAttempt!Works
  <2>1. at = "got" /\ reported' = reported /\ reported \in Nat /\ UNCHANGED cameTo
    BY <1>5 DEF ToolCalls, LoopInv
  <2>2. QED BY <2>1, AgentGoes DEF LoopAttempt!Works
<1>6. ASSUME RunTools PROVE LoopAttempt!Works \/ LoopAttempt!Ends
  <2>1. /\ at = "tools" /\ reported <= reported'
        /\ UNCHANGED cameTo \/ Finishes(loop', reported')
    BY <1>6, ToolsRun
  <2>2. loop'.steps <= LoopSteps
    BY DEF LoopInv
  <2>3. CASE UNCHANGED cameTo
    BY <2>1, <2>3, AgentGoes DEF LoopAttempt!Works
  <2>4. CASE Finishes(loop', reported')
    BY <2>1, <2>2, <2>4, FinishedTruly
  <2>5. QED BY <2>1, <2>3, <2>4
<1>7. QED
  BY <1>1, <1>2, <1>3, <1>4, <1>5, <1>6, Zenon DEF LoopNext

\* What the direct runtime says of an attempt is true of it, whenever its
\* timeout or the task's cancellation arrive (runLoop, chat): DirectLoop
\* implements Attempt.
THEOREM LoopTellsTrueAlways == LoopSpec => LoopTellsTrue
<1>1. LoopInit => LoopAttempt!Init
  BY AttemptBegins
<1>2. LoopInv /\ LoopInv' /\ [LoopNext]_loopVars
        => [LoopAttempt!Works \/ LoopAttempt!Ends]_<<LoopAgent, cameTo>>
  BY AttemptGoesOn
<1>3. QED
  BY <1>1, <1>2, LoopInvariant, PTL DEF LoopSpec, LoopTellsTrue, LoopAttempt!Spec

-----------------------------------------------------------------------------
(* An attempt on OpenCode *)

\* What was read before the last turn began; a turn that is still awaited has
\* not been answered; an attempt comes out once.
KnownBefore == {i \in 1..start : session[i].readable}
AttemptInv ==
  /\ doing \in {"create", "prompt", "read", "again", "harvest", "ended"}
  /\ doing = "create" => session = <<>> /\ ~running
  /\ session \in Seq(Messages) /\ start \in 0..Len(session)
  /\ before = Steps(KnownBefore)
  /\ replied \in BOOLEAN
  /\ doing # "ended" => cameOut = Attempt!NoOutcome
  /\ doing \in {"create", "prompt", "read"} => start = 0
  /\ doing \in {"create", "prompt", "again"} => ~replied
  /\ doing = "harvest" => why \in {"final", "cut", "resumed"}
  /\ doing = "harvest" /\ why = "cut" => ~replied

LEMMA MessagesCounted ==
  ASSUME session \in Seq(Messages), NEW a \in SUBSET All, NEW b \in SUBSET a, NEW kinds
  PROVE  /\ IsFiniteSet({i \in a : session[i].what \in kinds})
         /\ Count(a, kinds) \in Nat /\ Count(b, kinds) \in Nat
         /\ Count(b, kinds) <= Count(a, kinds)
<1> DEFINE A == {i \in a : session[i].what \in kinds}
           B == {i \in b : session[i].what \in kinds}
<1>1. IsFiniteSet(All)
  <2>1. All = 1..Len(session) /\ Len(session) \in Nat
    BY DEF All
  <2>2. QED BY <2>1, FS_Interval
<1>2. A \in SUBSET All /\ B \in SUBSET A
  OBVIOUS
<1>3. Count(a, kinds) = Cardinality(A) /\ Count(b, kinds) = Cardinality(B)
  BY DEF Count
<1> HIDE DEF A, B
<1>4. IsFiniteSet(A) /\ IsFiniteSet(B) /\ Cardinality(B) <= Cardinality(A)
  BY <1>1, <1>2, FS_Subset
<1>5. QED BY <1>3, <1>4, FS_CardinalityType DEF A

\* Apart, they add up.
LEMMA MessagesApart ==
  ASSUME session \in Seq(Messages), NEW a \in SUBSET All, NEW b \in SUBSET All, a \cap b = {}, NEW kinds
  PROVE  Count(a \cup b, kinds) = Count(a, kinds) + Count(b, kinds)
<1> DEFINE A == {i \in a : session[i].what \in kinds}
           B == {i \in b : session[i].what \in kinds}
<1>1. A \cap B = {} /\ {i \in a \cup b : session[i].what \in kinds} = A \cup B
  OBVIOUS
<1>2. IsFiniteSet(A) /\ IsFiniteSet(B)
  BY MessagesCounted
<1>3. Count(a \cup b, kinds) = Cardinality(A \cup B) /\ Count(a, kinds) = Cardinality(A) /\ Count(b, kinds) = Cardinality(B)
  BY <1>1 DEF Count
<1> HIDE DEF A, B
<1>4. Cardinality(A \cup B) = Cardinality(A) + Cardinality(B) - Cardinality(A \cap B)
  BY <1>2, FS_Union
<1>5. Cardinality(A \cap B) = 0 /\ Cardinality(A) \in Nat /\ Cardinality(B) \in Nat
  BY <1>1, <1>2, FS_EmptySet, FS_CardinalityType
<1>6. QED BY <1>3, <1>4, <1>5

LEMMA AttemptFirst == SessionInit => AttemptInv
<1> SUFFICES ASSUME SessionInit PROVE AttemptInv
  OBVIOUS
<1>1. session = <<>> /\ start = 0 /\ before = 0 /\ doing = "create" /\ replied = FALSE
      /\ running = FALSE /\ cameOut = Attempt!NoOutcome
  BY DEF SessionInit
<1>2. {i \in KnownBefore : session[i].what \in {"step", "finding", "done", "text"}} = {}
  BY <1>1 DEF KnownBefore
<1>3. before = Steps(KnownBefore)
  BY <1>1, <1>2, FS_EmptySet DEF Steps, Count
<1>4. session \in Seq(Messages) /\ start \in 0..Len(session)
  BY <1>1
<1>5. QED BY <1>1, <1>3, <1>4 DEF AttemptInv

\* The agent's messages come after those there are.
LEMMA MessagesStay ==
  ASSUME AttemptInv, AgentStep
  PROVE  /\ session' \in Seq(Messages) /\ Len(session') = Len(session) + 1
         /\ All \subseteq All' /\ \A i \in All : session'[i] = session[i]
         /\ UNCHANGED <<doing, why, start, before, replied, cameOut>>
<1>1. PICK m \in Messages : session' = Append(session, m)
  BY DEF AgentStep
<1>2. session \in Seq(Messages)
  BY DEF AttemptInv
<1>3. QED BY <1>1, <1>2 DEF AgentStep, All

LEMMA AttemptStep ==
  ASSUME AttemptInv, [SessionNext]_sessionVars
  PROVE  AttemptInv'
<1>1. CASE AgentStep
  <2>1. KnownBefore' = KnownBefore /\ Steps(KnownBefore)' = Steps(KnownBefore)
    <3>1. KnownBefore' = KnownBefore
      BY <1>1, MessagesStay DEF AttemptInv, KnownBefore, All
    <3>2. KnownBefore \subseteq All
      BY DEF AttemptInv, KnownBefore, All
    <3>3. {i \in KnownBefore : session'[i].what \in {"step", "finding", "done", "text"}}
            = {i \in KnownBefore : session[i].what \in {"step", "finding", "done", "text"}}
      BY <1>1, <3>2, MessagesStay
    <3>4. QED BY <3>1, <3>3 DEF Steps, Count
  <2>2. start' \in 0..Len(session')
    BY <1>1, MessagesStay DEF AttemptInv
  <2>3. doing # "create"
    BY <1>1 DEF AgentStep, AttemptInv
  <2>4. QED BY <1>1, <2>1, <2>2, <2>3, MessagesStay DEF AttemptInv
<1>2. CASE TurnDies \/ Abort \/ Poll \/ UNCHANGED sessionVars
  <2>1. UNCHANGED <<doing, why, session, start, before, replied, cameOut>>
    BY <1>2 DEF TurnDies, Abort, Poll, sessionVars
  <2>2. doing = "create" => ~running'
    BY <1>2 DEF TurnDies, Abort, Poll, sessionVars, AttemptInv
  <2>3. QED BY <2>1, <2>2 DEF AttemptInv, KnownBefore, Steps, Count
<1>3. CASE Create \/ CreateFails
  <2>1. /\ UNCHANGED <<session, start, before, replied>> /\ doing' \in {"prompt", "ended"}
        /\ doing' # "ended" => UNCHANGED cameOut
        /\ doing = "create"
    BY <1>3 DEF Create, CreateFails, Ends
  <2>2. Steps(KnownBefore)' = Steps(KnownBefore)
    BY <2>1 DEF KnownBefore, Steps, Count
  <2>3. QED BY <2>1, <2>2 DEF AttemptInv
<1>4. CASE PromptAnswers \/ PromptRefused \/ PromptCut \/ ReadFails
  <2>1. UNCHANGED <<session, start, before, cameOut>>
    BY <1>4 DEF PromptAnswers, PromptRefused, PromptCut, ReadFails
  <2>2. Steps(KnownBefore)' = Steps(KnownBefore)
    BY <2>1 DEF KnownBefore, Steps, Count
  <2>3. /\ doing # "ended" /\ replied' \in BOOLEAN
        /\ doing' \in {"read", "harvest"} /\ (doing' = "read" => doing = "prompt")
        /\ doing' = "harvest" => why' \in {"final", "cut", "resumed"}
        /\ doing' = "harvest" /\ why' = "cut" => doing \in {"prompt", "again"} /\ replied' = replied
    BY <1>4 DEF AttemptInv, PromptAnswers, PromptRefused, PromptCut, ReadFails
  <2>4. QED BY <2>1, <2>2, <2>3 DEF AttemptInv
<1>5. CASE ReadFinished
  <2>1. CASE StoppedEarly(Read)
    <3>1. /\ doing' = "again" /\ replied' = FALSE /\ start' = Len(session) /\ before' = Read.steps
          /\ UNCHANGED <<session, why, cameOut>>
      BY <1>5, <2>1 DEF ReadFinished
    <3>2. doing # "ended" /\ Len(session) \in Nat
      BY <1>5 DEF ReadFinished, AttemptInv
    <3>3. KnownBefore' = Known
      BY <3>1 DEF KnownBefore, Known, All, AttemptInv
    <3>4. Steps(KnownBefore)' = Read.steps
      BY <3>1, <3>3 DEF Read, Steps, Count
    <3>5. start' \in 0..Len(session') /\ session' \in Seq(Messages)
      BY <3>1, <3>2 DEF AttemptInv
    <3>6. cameOut' = Attempt!NoOutcome
      BY <3>1, <3>2 DEF AttemptInv
    <3>7. QED BY <3>1, <3>4, <3>5, <3>6 DEF AttemptInv
  <2>2. CASE ~StoppedEarly(Read)
    <3>1. doing' = "ended" /\ UNCHANGED <<session, start, before, replied, why>>
      BY <1>5, <2>2 DEF ReadFinished, Ends
    <3>2. Steps(KnownBefore)' = Steps(KnownBefore)
      BY <3>1 DEF KnownBefore, Steps, Count
    <3>3. QED BY <3>1, <3>2 DEF AttemptInv
  <2>3. QED BY <2>1, <2>2
<1>6. CASE Harvest
  <2>1. doing' = "ended" /\ UNCHANGED <<session, start, before, replied, why>>
    BY <1>6 DEF Harvest, Ends, AttemptInv
  <2>2. Steps(KnownBefore)' = Steps(KnownBefore)
    BY <2>1 DEF KnownBefore, Steps, Count
  <2>3. QED BY <2>1, <2>2 DEF AttemptInv
<1>7. QED BY <1>1, <1>2, <1>3, <1>4, <1>5, <1>6 DEF SessionNext

THEOREM AttemptInvariant == SessionSpec => []AttemptInv
BY AttemptFirst, AttemptStep, PTL DEF SessionSpec

-----------------------------------------------------------------------------
LEMMA AgentBegins == SessionInit => Attempt!Init
<1> SUFFICES ASSUME SessionInit PROVE Attempt!Init
  OBVIOUS
<1>1. session = <<>> /\ start = 0 /\ replied = FALSE /\ cameOut = Attempt!NoOutcome
  BY DEF SessionInit
<1>2. All = {} /\ Turn = {}
  BY <1>1 DEF All, Turn
<1>3. \A kinds : Count(All, kinds) = 0 /\ Count(Turn, kinds) = 0
  BY <1>2, FS_EmptySet DEF Count
<1>4. ~(0 > 0)
  OBVIOUS
<1>5. Agent = [turn |-> 0, findings |-> 0, done |-> FALSE, failed |-> FALSE, answered |-> FALSE]
  <2>1. /\ Steps(Turn) = 0 /\ Count(All, {"finding"}) = 0
        /\ (Count(All, {"done"}) > 0) = FALSE /\ (Count(All, Errors) > 0) = FALSE
    BY <1>3, <1>4 DEF Steps
  <2>2. QED BY <1>1, <2>1, Zenon DEF Agent
<1>6. QED BY <1>1, <1>5 DEF Attempt!Init

\* The agent as the contract is told of it.
AgentIsTold ==
  /\ Agent \in Attempt!Agents
  /\ Agent.turn = Steps(Turn) /\ Agent.findings = Count(All, {"finding"})
  /\ Agent.done <=> Count(All, {"done"}) > 0
  /\ Agent.failed <=> Count(All, Errors) > 0
  /\ Agent.answered = replied

LEMMA AgentTold == AttemptInv => AgentIsTold
<1> SUFFICES ASSUME AttemptInv PROVE AgentIsTold
  OBVIOUS
<1> DEFINE done == Count(All, {"done"}) > 0
           failed == Count(All, Errors) > 0
<1>1. session \in Seq(Messages) /\ Turn \in SUBSET All /\ All \in SUBSET All /\ replied \in BOOLEAN
  BY DEF AttemptInv, Turn, All
<1>2. Steps(Turn) \in Nat /\ Count(All, {"finding"}) \in Nat
  BY <1>1, MessagesCounted DEF Steps
<1>3. done \in BOOLEAN /\ failed \in BOOLEAN
  OBVIOUS
<1>4. Agent = [turn |-> Steps(Turn), findings |-> Count(All, {"finding"}), done |-> done,
               failed |-> failed, answered |-> replied]
  BY Zenon DEF Agent
<1> HIDE DEF done, failed
<1>5. /\ Agent \in Attempt!Agents
      /\ Agent.turn = Steps(Turn) /\ Agent.findings = Count(All, {"finding"})
      /\ Agent.done = done /\ Agent.failed = failed /\ Agent.answered = replied
  BY <1>1, <1>2, <1>3, <1>4 DEF Attempt!Agents
<1>6. QED BY <1>5, Zenon DEF AgentIsTold, done, failed

LEMMA AgentGoesOn ==
  ASSUME AttemptInv, [SessionNext]_sessionVars
  PROVE  Attempt!Goes
<1>1. AttemptInv'
  BY AttemptStep
<1>2. AgentIsTold /\ AgentIsTold'
  BY <1>1, AgentTold, PTL
<1>3. ASSUME NEW kinds
      PROVE  /\ Cardinality({i \in All : session[i].what \in kinds}) \in Nat
             /\ Cardinality({i \in All' : session'[i].what \in kinds}) \in Nat
             /\ Cardinality({i \in All : session[i].what \in kinds})
                  <= Cardinality({i \in All' : session'[i].what \in kinds})
  <2> DEFINE A == {i \in All : session[i].what \in kinds}
             B == {i \in All' : session'[i].what \in kinds}
  <2>1. A \subseteq B
    <3>1. All \subseteq All' /\ \A i \in All : session'[i] = session[i]
      <4>1. CASE AgentStep
        BY <4>1, MessagesStay
      <4>2. CASE ~AgentStep
        <5>1. session' = session
          BY <4>2 DEF SessionNext, TurnDies, Abort, Poll, Create, CreateFails, PromptAnswers, PromptRefused, PromptCut,
             ReadFinished, ReadFails, Harvest, sessionVars
        <5>2. QED BY <5>1 DEF All
      <4>3. QED BY <4>1, <4>2
    <3>2. QED BY <3>1
  <2>2. IsFiniteSet(B)
    <3>1. IsFiniteSet(All')
      <4>1. All' = 1..Len(session') /\ Len(session') \in Nat
        BY <1>1 DEF AttemptInv, All
      <4>2. QED BY <4>1, FS_Interval
    <3>2. B \in SUBSET All'
      OBVIOUS
    <3> HIDE DEF B
    <3>3. QED BY <3>1, <3>2, FS_Subset
  <2> HIDE DEF A, B
  <2>3. IsFiniteSet(A) /\ Cardinality(A) <= Cardinality(B)
    BY <2>1, <2>2, FS_Subset
  <2>4. Cardinality(A) \in Nat /\ Cardinality(B) \in Nat
    BY <2>2, <2>3, FS_CardinalityType
  <2>5. QED BY <2>3, <2>4 DEF A, B
<1>4. \A kinds : /\ Count(All, kinds) \in Nat /\ Count(All, kinds)' \in Nat
                 /\ Count(All, kinds) <= Count(All, kinds)'
  BY <1>3 DEF Count
<1>5. Agent' \in Attempt!Agents /\ Agent'.findings >= Agent.findings
  BY <1>2, <1>4 DEF AgentIsTold
<1>6. Agent.done => Agent'.done
  <2>1. Count(All, {"done"}) > 0 => Count(All, {"done"})' > 0
    BY <1>4
  <2>2. QED BY <1>2, <2>1, Zenon DEF AgentIsTold
<1>7. Agent.failed => Agent'.failed
  <2>1. Errors' = Errors
    BY DEF Errors
  <2>2. Count(All, Errors) > 0 => Count(All, Errors)' > 0
    BY <1>4, <2>1
  <2>3. QED BY <1>2, <2>2, Zenon DEF AgentIsTold
<1>8. QED BY <1>5, <1>6, <1>7 DEF Attempt!Goes

-----------------------------------------------------------------------------
\* What was read of the session is true of the agent, and all of it when all
\* could be read.
ReadIsTrue(r) ==
  /\ r.steps \in Nat /\ r.findings \in Nat /\ r.read \in {"all", "some", "none"}
  /\ r.done \in BOOLEAN /\ r.failed \in BOOLEAN /\ r.retryable \in BOOLEAN
  /\ r.findings <= Count(All, {"finding"})
  /\ r.read = "all" => r.findings = Count(All, {"finding"})
  /\ r.done => Count(All, {"done"}) > 0 /\ r.read # "none"
  /\ r.read = "all" /\ ~r.done => ~(Count(All, {"done"}) > 0)
  /\ r.failed => Count(All, Errors) > 0
  /\ r.steps = 0 \/ r.steps = Steps(Known)

LEMMA ReadTrue == session \in Seq(Messages) => ReadIsTrue(Read) /\ ReadIsTrue(NothingRead)
<1> SUFFICES ASSUME session \in Seq(Messages) PROVE ReadIsTrue(Read) /\ ReadIsTrue(NothingRead)
  OBVIOUS
<1>1. Known \in SUBSET All /\ All \in SUBSET All
  BY DEF Known
<1>2. \A kinds : /\ Count(All, kinds) \in Nat /\ Count(Known, kinds) \in Nat
                 /\ Count(Known, kinds) <= Count(All, kinds)
  BY <1>1, MessagesCounted
<1> DEFINE done == Count(Known, {"done"}) > 0
           text == Count(Known, {"text"}) > 0
           failed == Count(Known, Errors) > 0
           known == Count(Known, {"auth"}) = 0
           read == IF Known = All THEN "all" ELSE "some"
<1>3. Read = [steps |-> Steps(Known), findings |-> Count(Known, {"finding"}), done |-> done,
              text |-> text, failed |-> failed, retryable |-> known, read |-> read]
  BY Zenon DEF Read
<1>4. done \in BOOLEAN /\ failed \in BOOLEAN /\ known \in BOOLEAN
  OBVIOUS
<1>5. /\ done => Count(All, {"done"}) > 0
      /\ failed => Count(All, Errors) > 0
      /\ read = "all" => Known = All
      /\ read \in {"all", "some"}
  BY <1>2
<1>6. read = "all" /\ ~done => ~(Count(All, {"done"}) > 0)
  BY <1>5
<1>7. read = "all" => Count(Known, {"finding"}) = Count(All, {"finding"})
  BY <1>5
<1>8. Steps(Known) \in Nat
  BY <1>2 DEF Steps
<1> HIDE DEF done, text, failed, known, read
<1>9. /\ Read.steps = Steps(Known) /\ Read.findings = Count(Known, {"finding"}) /\ Read.done = done
      /\ Read.failed = failed /\ Read.retryable = known /\ Read.read = read
  BY <1>3
<1>10. ReadIsTrue(Read)
  BY <1>2, <1>4, <1>5, <1>6, <1>7, <1>8, <1>9 DEF ReadIsTrue
<1>11. /\ NothingRead.steps = 0 /\ NothingRead.findings = 0 /\ NothingRead.done = FALSE
       /\ NothingRead.failed = FALSE /\ NothingRead.retryable = FALSE /\ NothingRead.read = "none"
  BY DEF NothingRead
<1>12. ReadIsTrue(NothingRead)
  <2>1. NothingRead.findings <= Count(All, {"finding"})
    BY <1>2, <1>11
  <2>2. ~NothingRead.done /\ ~NothingRead.failed /\ NothingRead.read # "all"
    BY <1>11
  <2>3. /\ NothingRead.steps \in Nat /\ NothingRead.findings \in Nat
        /\ NothingRead.read \in {"all", "some", "none"}
    BY <1>11
  <2>4. /\ NothingRead.done \in BOOLEAN /\ NothingRead.failed \in BOOLEAN
        /\ NothingRead.retryable \in BOOLEAN
    BY <1>11, Zenon
  <2>5. QED BY <1>11, <2>1, <2>2, <2>3, <2>4, Zenon DEF ReadIsTrue
<1>13. QED BY <1>10, <1>12

\* The steps of the last turn that could be read: those of the whole session
\* without those read before.
LEMMA LastTurnCounted ==
  ASSUME AttemptInv
  PROVE  /\ Steps(Known) \in Nat /\ before \in Nat /\ Steps(Turn) \in Nat
         /\ Steps(Known) - before <= Steps(Turn)
         /\ start = 0 => Steps(Known) <= Steps(Turn)
<1> DEFINE late == Known \cap Turn
           kinds == {"step", "finding", "done", "text"}
<1>1. /\ session \in Seq(Messages) /\ start \in 0..Len(session) /\ Len(session) \in Nat
      /\ All = 1..Len(session) /\ before = Steps(KnownBefore)
  BY DEF AttemptInv, All
<1>2. /\ KnownBefore \in SUBSET All /\ Turn \in SUBSET All /\ Known \in SUBSET All
      /\ late \in SUBSET All /\ late \in SUBSET Turn
      /\ KnownBefore \cap late = {} /\ Known = KnownBefore \cup late
  BY <1>1 DEF KnownBefore, Turn, Known, All
<1>3. start = 0 => Turn = All
  BY <1>1 DEF Turn
<1> HIDE DEF late
<1>4. Count(Known, kinds) = Count(KnownBefore, kinds) + Count(late, kinds)
  BY <1>1, <1>2, MessagesApart
<1>5. /\ Count(Known, kinds) \in Nat /\ Count(KnownBefore, kinds) \in Nat
      /\ Count(late, kinds) \in Nat /\ Count(Turn, kinds) \in Nat
      /\ Count(late, kinds) <= Count(Turn, kinds)
      /\ Count(Known, kinds) <= Count(All, kinds)
  <2>1. Count(late, kinds) \in Nat /\ Count(Turn, kinds) \in Nat /\ Count(late, kinds) <= Count(Turn, kinds)
    BY <1>1, <1>2, MessagesCounted
  <2>2. Count(Known, kinds) \in Nat /\ Count(Known, kinds) <= Count(All, kinds)
    BY <1>1, <1>2, MessagesCounted
  <2>3. Count(KnownBefore, kinds) \in Nat
    BY <1>1, <1>2, MessagesCounted
  <2>4. QED BY <2>1, <2>2, <2>3
<1>6. start = 0 => Count(Turn, kinds) = Count(All, kinds)
  BY <1>3
<1>7. QED BY <1>1, <1>4, <1>5, <1>6 DEF Steps

\* An ending made of a true reading is owed.
LEMMA EndingIsOwed ==
  ASSUME NEW r, ReadIsTrue(r), NEW steps \in Int, AgentIsTold,
         steps >= MaxSteps => Steps(Turn) >= MaxSteps,
         NEW ending, NEW again \in BOOLEAN, NEW o,
         o = [ending |-> ending, retryable |-> again, findings |-> r.findings, read |-> r.read],
         \/ ending = "error" /\ (again => ~replied)
         \/ ending = Ending(r, steps) /\ again = (r.failed /\ r.retryable)
  PROVE  Attempt!Owed(o, Agent)
<1>1. o.ending = ending /\ o.retryable = again /\ o.findings = r.findings /\ o.read = r.read
  OBVIOUS
<1>2. /\ r.findings \in Nat /\ r.read \in {"all", "some", "none"}
      /\ r.findings <= Agent.findings /\ (r.read = "all" => r.findings = Agent.findings)
  BY DEF ReadIsTrue, AgentIsTold
<1>3. /\ r.done => Agent.done /\ r.read # "none"
      /\ r.read = "all" /\ ~r.done => ~Agent.done
      /\ r.failed => Agent.failed
      /\ r.done \in BOOLEAN /\ r.failed \in BOOLEAN /\ r.retryable \in BOOLEAN
  <2>1. (Agent.done <=> Count(All, {"done"}) > 0) /\ (Agent.failed <=> Count(All, Errors) > 0)
    BY Zenon DEF AgentIsTold
  <2>2. QED BY <2>1, Zenon DEF ReadIsTrue
<1>4. Agent.answered = replied /\ Agent.turn = Steps(Turn)
  BY DEF AgentIsTold
<1>5. CASE ending = "error" /\ (again => ~replied)
  <2>1. o \in Attempt!Outcomes
    BY <1>2, <1>5 DEF Attempt!Outcomes
  <2>2. again => ~Agent.answered
    BY <1>4, <1>5
  <2>3. QED BY <1>1, <1>2, <1>5, <2>1, <2>2 DEF Attempt!Owed
<1>6. CASE ending = Ending(r, steps) /\ again = (r.failed /\ r.retryable)
  <2>1. /\ ending \in {"error", "done", "step_cap", "stopped_early"}
        /\ ending = "error" <=> r.failed
        /\ ending = "done" => r.done
        /\ ending \in {"step_cap", "stopped_early"} => ~r.done
        /\ ending = "step_cap" => steps >= MaxSteps
    BY <1>3, <1>6 DEF Ending
  <2>2. o \in Attempt!Outcomes
    BY <1>2, <2>1 DEF Attempt!Outcomes
  <2>3. again => r.failed
    BY <1>3, <1>6
  <2>4. ending = "done" => Agent.done /\ r.read # "none"
    BY <1>3, <2>1
  <2>5. ending \in {"step_cap", "stopped_early"} => ~Agent.done \/ r.read # "all"
    BY <1>3, <2>1
  <2>6. again => ending = "error" /\ Agent.failed
    BY <1>3, <2>1, <2>3
  <2>7. ending = "step_cap" => Agent.turn >= MaxSteps
    BY <1>4, <2>1
  <2>8. QED BY <1>1, <1>2, <2>2, <2>4, <2>5, <2>6, <2>7 DEF Attempt!Owed
<1>7. QED BY <1>5, <1>6

\* An attempt that ends tells the truth.
LEMMA EndTold ==
  ASSUME AttemptInv, (ReadFinished /\ ~StoppedEarly(Read)) \/ Harvest
  PROVE  /\ cameOut = Attempt!NoOutcome
         /\ UNCHANGED <<session, start, replied>>
         /\ Attempt!Owed(cameOut', Agent)
<1>1. cameOut = Attempt!NoOutcome
  BY DEF AttemptInv, ReadFinished, Harvest
<1>2. AgentIsTold
  BY AgentTold
<1>3. ReadIsTrue(Read) /\ ReadIsTrue(NothingRead)
  BY ReadTrue DEF AttemptInv
<1>4. MaxSteps \in Nat \ {0}
  BY SessionAssumption
<1>5. CASE ReadFinished /\ ~StoppedEarly(Read)
  <2> DEFINE again == Read.failed /\ Read.retryable
             ending == Ending(Read, Read.steps)
  <2>1. /\ UNCHANGED <<session, start, replied>>
        /\ cameOut' = [ending |-> ending, retryable |-> again, findings |-> Read.findings, read |-> Read.read]
    BY <1>5 DEF ReadFinished, Ends
  <2>2. start = 0
    BY <1>5 DEF ReadFinished, AttemptInv
  <2>3. Read.steps \in Int /\ (Read.steps >= MaxSteps => Steps(Turn) >= MaxSteps)
    BY <1>3, <1>4, <2>2, LastTurnCounted DEF ReadIsTrue
  <2>4. again \in BOOLEAN
    BY <1>3 DEF ReadIsTrue
  <2>5. ending = Ending(Read, Read.steps) /\ again = (Read.failed /\ Read.retryable)
    OBVIOUS
  <2> HIDE DEF again, ending
  <2>6. Attempt!Owed(cameOut', Agent)
    BY <1>2, <1>3, <2>1, <2>3, <2>4, <2>5, EndingIsOwed
  <2>7. QED BY <1>1, <2>1, <2>6
<1>6. CASE Harvest
  <2>1. doing = "harvest" /\ why \in {"final", "cut", "resumed"} /\ (why = "cut" => ~replied)
    BY <1>6 DEF Harvest, AttemptInv
  <2>2. UNCHANGED <<session, start, replied>>
    BY <1>6 DEF Harvest
  <2>3. PICK r \in {Read, NothingRead} :
          CASE why = "final" -> Ends("error", FALSE, r)
            [] why = "cut" -> Ends("error", ~aborted, r)
            [] why = "resumed" -> Ends(Ending(r, LastTurn(r, before)), r.failed /\ r.retryable, r)
    BY <1>6 DEF Harvest
  <2>4. ReadIsTrue(r)
    BY <1>3
  <2>5. CASE why = "final"
    <3>1. cameOut' = [ending |-> "error", retryable |-> FALSE, findings |-> r.findings, read |-> r.read]
      BY <2>3, <2>5 DEF Ends
    <3>2. 0 \in Int /\ (0 >= MaxSteps => Steps(Turn) >= MaxSteps) /\ FALSE \in BOOLEAN
      BY <1>4
    <3>3. QED BY <1>1, <1>2, <2>2, <2>4, <3>1, <3>2, EndingIsOwed
  <2>6. CASE why = "cut"
    <3> DEFINE again == ~aborted
    <3>1. cameOut' = [ending |-> "error", retryable |-> again, findings |-> r.findings, read |-> r.read]
      BY <2>3, <2>6 DEF Ends
    <3>2. 0 \in Int /\ (0 >= MaxSteps => Steps(Turn) >= MaxSteps) /\ again \in BOOLEAN
      BY <1>4
    <3> HIDE DEF again
    <3>3. again => ~replied
      BY <2>1, <2>6
    <3>4. QED BY <1>1, <1>2, <2>2, <2>4, <3>1, <3>2, <3>3, EndingIsOwed
  <2>7. CASE why = "resumed"
    <3> DEFINE again == r.failed /\ r.retryable
               steps == LastTurn(r, before)
               ending == Ending(r, steps)
    <3>1. cameOut' = [ending |-> ending, retryable |-> again, findings |-> r.findings, read |-> r.read]
      BY <2>3, <2>7 DEF Ends
    <3>2. steps \in Int /\ (steps >= MaxSteps => Steps(Turn) >= MaxSteps)
      <4>1. r.steps \in Nat /\ (r.steps = 0 \/ r.steps = Steps(Known))
        BY <2>4 DEF ReadIsTrue
      <4>2. QED BY <1>4, <4>1, LastTurnCounted DEF LastTurn
    <3>3. again \in BOOLEAN
      BY <2>4 DEF ReadIsTrue
    <3>4. ending = Ending(r, steps) /\ again = (r.failed /\ r.retryable)
      OBVIOUS
    <3> HIDE DEF again, steps, ending
    <3>5. QED BY <1>1, <1>2, <2>2, <2>4, <3>1, <3>2, <3>3, <3>4, EndingIsOwed
  <2>8. QED BY <2>1, <2>5, <2>6, <2>7
<1>7. QED BY <1>5, <1>6

\* Without a session there was no agent.
LEMMA NoSessionTold ==
  ASSUME AttemptInv, CreateFails
  PROVE  /\ cameOut = Attempt!NoOutcome /\ Attempt!Owed(cameOut', Agent)
         /\ UNCHANGED <<session, start, replied>>
<1>1. /\ doing = "create" /\ UNCHANGED <<session, start, replied>>
      /\ cameOut' = [ending |-> "error", retryable |-> FALSE, findings |-> 0, read |-> "all"]
  BY DEF CreateFails, Ends
<1>2. session = <<>> /\ cameOut = Attempt!NoOutcome
  BY <1>1 DEF AttemptInv
<1>3. {i \in All : session[i].what \in {"finding"}} = {}
  BY <1>2 DEF All
<1>4. Agent.findings = 0
  BY <1>3, FS_EmptySet DEF Agent, Count
<1>5. QED BY <1>1, <1>2, <1>4 DEF Attempt!Owed, Attempt!Outcomes

\* Every step is one of the contract's.
LEMMA StepsAreAttempts ==
  ASSUME AttemptInv, [SessionNext]_sessionVars
  PROVE  Attempt!Works \/ Attempt!Ends
<1>1. Attempt!Goes
  BY AgentGoesOn
<1>2. CASE (ReadFinished /\ ~StoppedEarly(Read)) \/ Harvest \/ CreateFails
  <2>1. /\ cameOut = Attempt!NoOutcome /\ Attempt!Owed(cameOut', Agent)
        /\ UNCHANGED <<session, start, replied>>
    BY <1>2, EndTold, NoSessionTold
  <2>2. Agent' = Agent
    BY <2>1 DEF Agent, Steps, Count, All, Turn, Errors
  <2>3. QED BY <1>1, <2>1, <2>2 DEF Attempt!Ends
<1>3. CASE ~((ReadFinished /\ ~StoppedEarly(Read)) \/ Harvest \/ CreateFails)
  <2>1. UNCHANGED cameOut
    BY <1>3 DEF SessionNext, AgentStep, TurnDies, Abort, Poll, Create, PromptAnswers, PromptRefused, PromptCut,
       ReadFinished, ReadFails, sessionVars
  <2>2. QED BY <1>1, <2>1 DEF Attempt!Works
<1>4. QED BY <1>2, <1>3

\* On OpenCode an attempt keeps the contract, whatever fails between ocra and the
\* server (session-prompt.ts promptSession, session-outcome.ts summarizeSession).
THEOREM TellsTrueAlways == SessionSpec => TellsTrue
<1>1. AttemptInv /\ [SessionNext]_sessionVars => [Attempt!Works \/ Attempt!Ends]_<<Agent, cameOut>>
  BY StepsAreAttempts
<1>2. QED BY <1>1, AgentBegins, AttemptInvariant, PTL DEF SessionSpec, TellsTrue, Attempt!Spec

=============================================================================
