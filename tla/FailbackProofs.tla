----------------------------- MODULE FailbackProofs -----------------------------
(***************************************************************************)
(* What a run knows of its models' health (ModelHealth), for every set of  *)
(* models and every setting of the limits; and that Failback treats the    *)
(* health as ModelHealth says it may change and loses no model of a chain, *)
(* for every set of calls and chains.                                      *)
(***************************************************************************)
EXTENDS Failback, SequenceTheorems, TLAPS

(* The models' health *)

\* The inductive invariant: an open circuit's remaining cooldown never exceeds
\* the cooldown its next opening would take, and the failures counted towards
\* the threshold are the whole streak until the circuit first opens.
CircuitInv ==
  \A m \in Models :
    /\ circuit[m].open <= circuit[m].cooldown
    /\ ~circuit[m].tripped => circuit[m].failures = streak[m]
    /\ circuit[m].tripped => streak[m] = Threshold

HealthInv == HealthTypeOK /\ CircuitInv

\* A wait that is recorded is a time within the limit.
LEMMA WaitInRange ==
  ASSUME HealthTypeOK, NEW m \in Models, NEW q \in QuotaErrors, ~RunsOut(m, q)
  PROVE  /\ WaitFor(m, q) \in 0..MaxQuotaWait
         /\ CountedWaits(m) \in 0..QuotaRetries
<1>1. CountedWaits(m) \in 0..QuotaRetries
  BY HealthAssumption DEF HealthTypeOK, RunsOut, CountedWaits
<1>2. quota[m].waits \in Nat /\ (~Joins(m) => CountedWaits(m) \in 1..(QuotaRetries + 1))
  BY <1>1, HealthAssumption DEF HealthTypeOK, CountedWaits
<1>3. WaitFor(m, q) \in Nat
  <2>1. CASE q.retryAfter # Unstated
    BY <2>1, HealthAssumption DEF WaitFor, QuotaErrors
  <2>2. CASE q.retryAfter = Unstated /\ Joins(m)
    BY <2>2 DEF WaitFor
  <2>3. CASE q.retryAfter = Unstated /\ ~Joins(m)
    BY <2>3, <1>2, HealthAssumption DEF WaitFor
  <2>4. QED BY <2>1, <2>2, <2>3
<1>4. WaitFor(m, q) <= MaxQuotaWait
  BY <1>3, HealthAssumption DEF RunsOut
<1>5. QED BY <1>1, <1>3, <1>4, HealthAssumption

LEMMA HealthInvInit == HealthInit => HealthInv
  BY HealthAssumption
  DEF HealthInit, HealthInv, HealthTypeOK, CircuitInv, NewCircuit, NewQuota

LEMMA FailureKeepsInv ==
  ASSUME HealthInv, NEW m \in Models, RecordFailure(m)
  PROVE  HealthInv'
<1> USE HealthAssumption DEF HealthInv, HealthTypeOK, CircuitInv, RecordFailure
<1>1. circuit'[m] = IF Opens(m) THEN Tripped(circuit[m]) ELSE Counted(circuit[m])
  OBVIOUS
<1>2. \A n \in Models \ {m} : circuit'[n] = circuit[n] /\ streak'[n] = streak[n]
  OBVIOUS
<1>3. streak'[m] = Smaller(streak[m] + 1, Threshold) /\ streak'[m] \in 0..Threshold
  BY DEF Smaller
<1>4. circuit'[m] \in [failures : 0..(Threshold - 1), tripped : BOOLEAN,
                       open : 0..MaxCooldown, cooldown : 1..MaxCooldown]
  <2>1. CASE Opens(m)
    BY <2>1, <1>1 DEF Tripped, Smaller
  <2>2. CASE ~Opens(m)
    BY <2>2, <1>1 DEF Counted, Opens
  <2>3. QED BY <2>1, <2>2
<1>5. /\ circuit'[m].open <= circuit'[m].cooldown
      /\ ~circuit'[m].tripped => circuit'[m].failures = streak'[m]
      /\ circuit'[m].tripped => streak'[m] = Threshold
  <2>1. CASE Opens(m)
    <3>1. streak[m] + 1 >= Threshold
      <4>1. CASE circuit[m].tripped
        BY <4>1
      <4>2. CASE ~circuit[m].tripped
        BY <4>2, <2>1 DEF Opens, CircuitState
      <4>3. QED BY <4>1, <4>2
    <3>2. streak[m] \in Nat /\ Threshold \in Nat
      OBVIOUS
    <3>3. streak'[m] = Threshold
      <4> HIDE DEF HealthInv, HealthTypeOK, CircuitInv, RecordFailure
      <4>1. QED BY <3>1, <3>2, <1>3 DEF Smaller
    <3>4. QED BY <3>3, <2>1, <1>1 DEF Tripped, Smaller
  <2>2. CASE ~Opens(m)
    BY <2>2, <1>1, <1>3 DEF Smaller, Counted, Opens
  <2>3. QED BY <2>1, <2>2
<1>6. HealthTypeOK'
  BY <1>2, <1>3, <1>4
<1>7. CircuitInv'
  BY <1>2, <1>5
<1>8. QED BY <1>6, <1>7

LEMMA SuccessKeepsInv ==
  ASSUME HealthInv, NEW m \in Models, RecordSuccess(m)
  PROVE  HealthInv'
BY HealthAssumption
DEF HealthInv, HealthTypeOK, CircuitInv, RecordSuccess, NewCircuit, NewQuota

LEMMA QuotaKeepsInv ==
  ASSUME HealthInv, NEW m \in Models, NEW q \in QuotaErrors, RecordQuota(m, q)
  PROVE  HealthInv'
<1>1. CASE RunsOut(m, q)
  BY <1>1 DEF RecordQuota, HealthInv, HealthTypeOK, CircuitInv
<1>2. CASE ~RunsOut(m, q)
  <2>1. WaitFor(m, q) \in 0..MaxQuotaWait /\ CountedWaits(m) \in 0..QuotaRetries
    BY <1>2, WaitInRange DEF HealthInv
  <2>2. /\ quota' = [quota EXCEPT ![m] =
             [waits |-> CountedWaits(m), pause |-> Larger(quota[m].pause, WaitFor(m, q))]]
        /\ UNCHANGED <<circuit, streak, outOfQuota>>
    BY <1>2 DEF RecordQuota
  <2>3. Larger(quota[m].pause, WaitFor(m, q)) \in 0..MaxQuotaWait
    BY <2>1, HealthAssumption DEF HealthInv, HealthTypeOK, Larger
  <2>4. quota' \in [Models -> [waits : 0..QuotaRetries, pause : 0..MaxQuotaWait]]
    BY <2>1, <2>2, <2>3 DEF HealthInv, HealthTypeOK
  <2>5. QED BY <2>2, <2>4 DEF HealthInv, HealthTypeOK, CircuitInv
<1>3. QED BY <1>1, <1>2

LEMMA ElapseKeepsInv ==
  ASSUME HealthInv, Elapse
  PROVE  HealthInv'
<1> USE HealthAssumption DEF HealthInv, HealthTypeOK, CircuitInv, Elapse, Left
<1>1. \A m \in Models :
        /\ circuit'[m] = [circuit[m] EXCEPT !.open = Left(circuit[m].open)]
        /\ quota'[m] = [quota[m] EXCEPT !.pause = Left(quota[m].pause)]
  OBVIOUS
<1>2. circuit' \in [Models -> [failures : 0..(Threshold - 1), tripped : BOOLEAN,
                               open : 0..MaxCooldown, cooldown : 1..MaxCooldown]]
  <2>1. \A m \in Models : Left(circuit[m].open) \in 0..MaxCooldown
    OBVIOUS
  <2>2. QED BY <2>1
<1>3. quota' \in [Models -> [waits : 0..QuotaRetries, pause : 0..MaxQuotaWait]]
  <2>1. \A m \in Models : quota'[m] \in [waits : 0..QuotaRetries, pause : 0..MaxQuotaWait]
    <3>1. \A m \in Models : Left(quota[m].pause) \in 0..MaxQuotaWait
      OBVIOUS
    <3>2. QED BY <1>1, <3>1
  <2>2. quota' = [m \in Models |-> quota'[m]]
    OBVIOUS
  <2>3. QED BY <2>1, <2>2
<1>4. ASSUME NEW m \in Models
      PROVE  /\ circuit'[m].open <= circuit'[m].cooldown
             /\ ~circuit'[m].tripped => circuit'[m].failures = streak'[m]
             /\ circuit'[m].tripped => streak'[m] = Threshold
  <2>1. /\ circuit'[m].open = Left(circuit[m].open)
        /\ circuit'[m].cooldown = circuit[m].cooldown
        /\ circuit'[m].tripped = circuit[m].tripped
        /\ circuit'[m].failures = circuit[m].failures
        /\ streak' = streak
    OBVIOUS
  <2>2. circuit[m].open \in Nat /\ circuit[m].cooldown \in Nat
    OBVIOUS
  <2>3. QED BY <2>1, <2>2
<1>5. QED BY <1>2, <1>3, <1>4

LEMMA HealthInvNext == HealthInv /\ [HealthNext]_healthVars => HealthInv'
<1> SUFFICES ASSUME HealthInv, [HealthNext]_healthVars PROVE HealthInv'
  OBVIOUS
<1>1. CASE \E m \in Models : RecordFailure(m)
  BY <1>1, FailureKeepsInv
<1>2. CASE \E m \in Models : RecordSuccess(m)
  BY <1>2, SuccessKeepsInv
<1>3. CASE \E m \in Models, q \in QuotaErrors : RecordQuota(m, q)
  BY <1>3, QuotaKeepsInv
<1>4. CASE Elapse
  BY <1>4, ElapseKeepsInv
<1>5. CASE UNCHANGED healthVars
  BY <1>5 DEF healthVars, HealthInv, HealthTypeOK, CircuitInv
<1>6. QED BY <1>1, <1>2, <1>3, <1>4, <1>5 DEF HealthNext

LEMMA HealthInvAlways == HealthSpec => []HealthInv
  BY HealthInvInit, HealthInvNext, PTL DEF HealthSpec

\* The records of the health keep their types and its timers their limits
\* (models.ts:45-54, 131-143).
THEOREM HealthTypeCorrect == HealthSpec => []HealthTypeOK
<1>1. HealthInv => HealthTypeOK
  BY DEF HealthInv
<1>2. QED BY <1>1, HealthInvAlways, PTL

\* A circuit is closed exactly below the threshold of failures in a row
\* (models.ts:92-113).
THEOREM ClosedBelowThresholdAlways == HealthSpec => []ClosedBelowThreshold
<1>1. HealthInv => ClosedBelowThreshold
  BY HealthAssumption
  DEF HealthInv, HealthTypeOK, CircuitInv, ClosedBelowThreshold, CircuitState
<1>2. QED BY <1>1, HealthInvAlways, PTL

\* No step but one of the model's own success, or of time, brings the end of its
\* cooldown nearer (models.ts:98-113).
THEOREM CooldownNotCutShortAlways == HealthSpec => CooldownNotCutShort
<1>1. ASSUME HealthInv, [HealthNext]_healthVars, NEW m \in Models,
             circuit'[m].open < circuit[m].open
      PROVE  Elapse \/ RecordSuccess(m)
  <2> USE DEF HealthInv, HealthTypeOK
  <2>1. CASE \E n \in Models : RecordFailure(n)
    <3>1. PICK n \in Models : RecordFailure(n)
      BY <2>1
    <3>2. circuit'[m].open >= circuit[m].open
      <4>1. CASE n = m /\ Opens(m)
        BY <4>1, <3>1, <1>1, HealthAssumption DEF RecordFailure, Tripped, CircuitInv
      <4>2. CASE n = m /\ ~Opens(m)
        BY <4>2, <3>1, <1>1, HealthAssumption DEF RecordFailure, Counted
      <4>3. CASE n # m
        BY <4>3, <3>1, <1>1, HealthAssumption DEF RecordFailure
      <4>4. QED BY <4>1, <4>2, <4>3
    <3>3. circuit[m].open \in Nat /\ circuit'[m].open \in Nat
      BY <1>1, HealthInvNext, HealthAssumption
    <3>4. QED BY <1>1, <3>2, <3>3
  <2>2. CASE \E n \in Models : RecordSuccess(n)
    <3>1. PICK n \in Models : RecordSuccess(n)
      BY <2>2
    <3>2. CASE n = m
      BY <3>1, <3>2
    <3>3. CASE n # m
      <4>1. circuit'[m] = circuit[m]
        BY <3>1, <3>3, <1>1 DEF RecordSuccess
      <4>2. QED BY <4>1, <1>1, HealthAssumption
    <3>4. QED BY <3>2, <3>3
  <2>3. CASE UNCHANGED circuit
    BY <2>3, <1>1, HealthAssumption
  <2>4. QED BY <1>1, <2>1, <2>2, <2>3 DEF HealthNext, RecordQuota, healthVars
<1>2. HealthInv /\ [HealthNext]_healthVars
        => [\A m \in Models :
              circuit'[m].open < circuit[m].open => Elapse \/ RecordSuccess(m)]_healthVars
  BY <1>1
<1>3. QED BY <1>2, HealthInvAlways, PTL DEF HealthSpec, CooldownNotCutShort

\* Nor the end of its shared rate-limit pause, which costs the refusals that join
\* it no retry (models.ts:110-113, 131-143).
THEOREM PauseSharedAlways == HealthSpec => PauseShared
<1>1. ASSUME HealthInv, [HealthNext]_healthVars, NEW m \in Models,
             quota'[m].pause < quota[m].pause
      PROVE  Elapse \/ RecordSuccess(m)
  <2> USE DEF HealthInv, HealthTypeOK
  <2>1. CASE \E n \in Models, q \in QuotaErrors : RecordQuota(n, q)
    <3>1. PICK n \in Models, q \in QuotaErrors : RecordQuota(n, q)
      BY <2>1
    <3>2. CASE n = m /\ ~RunsOut(m, q)
      <4>1. quota'[m].pause = Larger(quota[m].pause, WaitFor(m, q))
        BY <3>1, <3>2, <1>1 DEF RecordQuota
      <4>2. WaitFor(m, q) \in Nat /\ quota[m].pause \in Nat
        BY <3>2, WaitInRange, <1>1, HealthAssumption
      <4>3. QED BY <4>1, <4>2, <1>1 DEF Larger
    <3>3. CASE n # m \/ RunsOut(m, q)
      <4>1. quota'[m] = quota[m]
        BY <3>1, <3>3, <1>1 DEF RecordQuota
      <4>2. QED BY <4>1, <1>1, HealthAssumption
    <3>4. QED BY <3>2, <3>3
  <2>2. CASE \E n \in Models : RecordSuccess(n)
    <3>1. PICK n \in Models : RecordSuccess(n)
      BY <2>2
    <3>2. CASE n = m
      BY <3>1, <3>2
    <3>3. CASE n # m
      <4>1. quota'[m] = quota[m]
        BY <3>1, <3>3, <1>1 DEF RecordSuccess
      <4>2. QED BY <4>1, <1>1, HealthAssumption
    <3>4. QED BY <3>2, <3>3
  <2>3. CASE UNCHANGED quota
    BY <2>3, <1>1, HealthAssumption
  <2>4. QED BY <1>1, <2>1, <2>2, <2>3 DEF HealthNext, RecordFailure, healthVars
<1>2. ASSUME HealthInv, [HealthNext]_healthVars, NEW m \in Models,
             quota[m].pause > 0, quota'[m].pause >= quota[m].pause
      PROVE  quota'[m].waits = quota[m].waits
  <2> USE DEF HealthInv, HealthTypeOK
  <2>1. quota[m].pause \in Nat \ {0} /\ quota[m].waits \in Nat
    BY <1>2, HealthAssumption
  <2>2. CASE \E n \in Models, q \in QuotaErrors : RecordQuota(n, q)
    <3>1. PICK n \in Models, q \in QuotaErrors : RecordQuota(n, q)
      BY <2>2
    <3>2. CountedWaits(m) = quota[m].waits
      BY <2>1 DEF CountedWaits, Joins
    <3>3. QED BY <3>1, <3>2, <1>2 DEF RecordQuota
  <2>3. CASE \E n \in Models : RecordSuccess(n)
    <3>1. PICK n \in Models : RecordSuccess(n)
      BY <2>3
    <3>2. n = m => quota'[m].pause = 0
      BY <3>1, <1>2 DEF RecordSuccess, NewQuota
    <3>3. n # m
      BY <3>2, <2>1, <1>2
    <3>4. QED BY <3>1, <3>3, <1>2 DEF RecordSuccess
  <2>4. CASE Elapse
    <3>1. quota'[m].pause = quota[m].pause - 1
      BY <2>4, <2>1, <1>2 DEF Elapse, Left
    <3>2. QED BY <3>1, <2>1, <1>2
  <2>5. CASE UNCHANGED quota
    BY <2>5
  <2>6. QED BY <1>2, <2>2, <2>3, <2>4, <2>5 DEF HealthNext, RecordFailure, healthVars
<1>3. HealthInv /\ [HealthNext]_healthVars
        => [\A m \in Models :
              /\ quota'[m].pause < quota[m].pause => Elapse \/ RecordSuccess(m)
              /\ quota[m].pause > 0 /\ quota'[m].pause >= quota[m].pause
                   => quota'[m].waits = quota[m].waits]_healthVars
  BY <1>1, <1>2
<1>4. QED BY <1>3, HealthInvAlways, PTL DEF HealthSpec, PauseShared

\* The two together: nothing but a model's own success, or time, shortens what
\* the model must wait for, and a shared pause costs one retry (models.ts:98-143).
THEOREM WaitsNotCutShortAlways == HealthSpec => WaitsNotCutShort
<1>1. QED BY CooldownNotCutShortAlways, PauseSharedAlways DEF WaitsNotCutShort

--------------------------------------------------------------------------------
(* Calls with a chain of models *)

\* Everything a call that was not refused was given is still to try, failed, out
\* of quota or left out when the call began; a call that works on a model has one.
CallInv(c) ==
  /\ pc[c] \in AtModel => rest[c] # <<>>
  /\ pc[c] = "reporting" => outcome[c] \in Outcomes
  /\ pc[c] = "exhausted" => rest[c] = <<>>
  /\ pc[c] \notin {"idle", "fatal"} => Range(Chain[c]) \subseteq
       Range(rest[c]) \cup tried[c] \cup outOfQuota \cup passed[c]

Inv == TypeOK /\ CircuitInv /\ \A c \in Calls : CallInv(c)

--------------------------------------------------------------------------------
(* Sequences *)

LEMMA RangeInModels ==
  ASSUME NEW s \in Seq(Models)
  PROVE  Range(s) \subseteq Models /\ \A i \in DOMAIN s : s[i] \in Models
BY DEF Range

LEMMA HeadAndTail ==
  ASSUME NEW s \in Seq(Models), s # <<>>
  PROVE  /\ Head(s) \in Models
         /\ Tail(s) \in Seq(Models)
         /\ Range(s) = Range(Tail(s)) \cup {Head(s)}
<1>1. /\ Head(s) = s[1] /\ Len(s) \in Nat \ {0} /\ DOMAIN s = 1..Len(s)
      /\ Head(s) \in Models /\ Tail(s) \in Seq(Models)
      /\ Len(Tail(s)) = Len(s) - 1 /\ DOMAIN Tail(s) = 1..(Len(s) - 1)
      /\ \A i \in 1..(Len(s) - 1) : Tail(s)[i] = s[i + 1]
  OBVIOUS
<1>2. ASSUME NEW i \in DOMAIN s PROVE s[i] \in Range(Tail(s)) \cup {Head(s)}
  <2>1. CASE i = 1
    BY <2>1, <1>1
  <2>2. CASE i # 1
    <3>1. i - 1 \in DOMAIN Tail(s) /\ Tail(s)[i - 1] = s[i]
      BY <2>2, <1>1
    <3>2. QED BY <3>1 DEF Range
  <2>3. QED BY <2>1, <2>2
<1>3. ASSUME NEW i \in DOMAIN Tail(s) PROVE Tail(s)[i] \in Range(s)
  <2>1. i + 1 \in DOMAIN s /\ Tail(s)[i] = s[i + 1]
    BY <1>1
  <2>2. QED BY <2>1 DEF Range
<1>4. Head(s) \in Range(s)
  BY <1>1 DEF Range
<1>5. Range(s) \subseteq Range(Tail(s)) \cup {Head(s)}
  BY <1>2 DEF Range
<1>6. Range(Tail(s)) \subseteq Range(s)
  BY <1>3 DEF Range
<1>7. QED BY <1>1, <1>4, <1>5, <1>6

\* What dropping the first i - 1 elements of a sequence loses.
LEMMA RangeOfSuffix ==
  ASSUME NEW s \in Seq(Models), NEW i \in DOMAIN s
  PROVE  /\ SubSeq(s, i, Len(s)) \in Seq(Models) /\ SubSeq(s, i, Len(s)) # <<>>
         /\ \A j \in DOMAIN s : j >= i => s[j] \in Range(SubSeq(s, i, Len(s)))
<1> DEFINE t == SubSeq(s, i, Len(s))
<1>1. /\ Len(s) \in Nat /\ DOMAIN s = 1..Len(s) /\ i \in 1..Len(s)
      /\ t \in Seq(Models) /\ Len(t) = Len(s) - i + 1 /\ DOMAIN t = 1..(Len(s) - i + 1)
      /\ \A k \in 1..(Len(s) - i + 1) : t[k] = s[i + k - 1]
  BY SubSeqProperties
<1>2. ASSUME NEW j \in DOMAIN s, j >= i PROVE s[j] \in Range(t)
  <2>1. j - i + 1 \in DOMAIN t /\ t[j - i + 1] = s[j]
    BY <1>1, <1>2
  <2>2. QED BY <2>1 DEF Range
<1>3. t # <<>>
  BY <1>1
<1>4. QED BY <1>1, <1>2, <1>3

LEMMA OrdersInModels ==
  ASSUME NEW chain \in Seq(Models), NEW s \in Orders(chain)
  PROVE  s \in Seq(Models) /\ Range(s) = Candidates(Range(chain))
<1>1. Candidates(Range(chain)) \subseteq Models
  BY RangeInModels DEF Candidates, Available, Usable
<1>2. PICK n \in 0..Len(chain) : s \in [1..n -> Candidates(Range(chain))]
  BY DEF Orders
<1>3. Range(s) = Candidates(Range(chain))
  BY DEF Orders
<1>4. s \in [1..n -> Models] /\ n \in Nat
  BY <1>1, <1>2
<1>5. QED BY <1>3, <1>4

--------------------------------------------------------------------------------
(* The health *)

LEMMA AtModelHead ==
  ASSUME Inv, NEW c \in Calls, pc[c] \in AtModel
  PROVE  Head(rest[c]) \in Models
BY HeadAndTail DEF Inv, TypeOK, CallInv

LEMMA ConcludeHealth ==
  ASSUME Inv, NEW c \in Calls, pc[c] \in AtModel, NEW o \in Outcomes, Conclude(c, o)
  PROVE  HealthNext \/ UNCHANGED healthVars
<1>1. Head(rest[c]) \in Models
  BY AtModelHead
<1>2. o.kind = "limit" => o.quota \in QuotaErrors
  BY DEF Outcomes
<1>3. QED BY <1>1, <1>2 DEF Conclude, HealthNext

\* A step of the calls is a step of the health, or leaves it alone.
LEMMA NextIsHealthNext == Inv /\ [Next]_vars => [HealthNext]_healthVars
<1> SUFFICES ASSUME Inv, [Next]_vars PROVE [HealthNext]_healthVars
  OBVIOUS
<1>1. ASSUME NEW c \in Calls, NEW o \in Outcomes, Answer(c, o) PROVE [HealthNext]_healthVars
  <2>1. CASE c \in Reviews /\ UNCHANGED healthVars
    BY <2>1
  <2>2. CASE c \in Completions /\ Conclude(c, o)
    <3>1. pc[c] \in AtModel
      BY <1>1 DEF Answer, AtModel
    <3>2. QED BY <2>2, <3>1, ConcludeHealth
  <2>3. QED BY <1>1, <2>1, <2>2 DEF Answer
<1>2. ASSUME NEW c \in Calls, ConcludeReview(c) PROVE [HealthNext]_healthVars
  <2>1. pc[c] \in AtModel /\ outcome[c] \in Outcomes /\ Conclude(c, outcome[c])
    BY <1>2 DEF ConcludeReview, AtModel, Inv, CallInv
  <2>2. QED BY <2>1, ConcludeHealth
<1>3. ASSUME NEW c \in Calls,
             Begin(c) \/ Refuse(c) \/ TryNext(c) \/ EnterPause(c) \/ Wake(c)
               \/ AfterPause(c) \/ StartReview(c) \/ Abort(c) \/ Abandon(c)
      PROVE  UNCHANGED healthVars
  BY <1>3 DEF Begin, Refuse, TryNext, EnterPause, Wake, AfterPause, StartReview, Abort, Abandon
<1>4. CASE Tick
  BY <1>4 DEF Tick, HealthNext
<1>5. CASE UNCHANGED vars
  BY <1>5 DEF vars
<1>6. QED BY <1>1, <1>2, <1>3, <1>4, <1>5 DEF Next, Step

\* What the calls' invariant needs to know of the health's step.
LEMMA HealthAfter ==
  ASSUME Inv, [Next]_vars
  PROVE  HealthTypeOK' /\ CircuitInv' /\ outOfQuota \subseteq outOfQuota'
<1>1. [HealthNext]_healthVars
  BY NextIsHealthNext
<1>2. HealthInv'
  BY <1>1, HealthInvNext DEF Inv, TypeOK, HealthInv
<1>3. outOfQuota \subseteq outOfQuota'
  BY <1>1 DEF HealthNext, healthVars, RecordFailure, RecordSuccess, RecordQuota, Elapse
<1>4. QED BY <1>2, <1>3 DEF HealthInv

--------------------------------------------------------------------------------
(* The calls *)

CallTypes ==
  /\ pc \in [Calls -> Ended \cup AtModel \cup {"idle", "top"}]
  /\ rest \in [Calls -> Seq(Models)]
  /\ sleep \in [Calls -> 0..MaxQuotaWait]
  /\ aborted \in [Calls -> BOOLEAN]
  /\ outcome \in [Calls -> Outcomes \cup {NoOutcome}]
  /\ tried \in [Calls -> SUBSET Models]
  /\ passed \in [Calls -> SUBSET Models]
  /\ began \in [Calls -> {"never", "closed", "open", "half-open"}]

\* Where the loops' head leaves a call with the models s still to try.
Settled(c, s) ==
  /\ \E label \in AtModel \cup {"exhausted", "cancelled"} : Goto(c, label)
  /\ \E models \in Seq(Models) : Keep(c, models)
  /\ sleep' \in [Calls -> 0..MaxQuotaWait]
  /\ pc'[c] \in AtModel => rest'[c] # <<>>
  /\ pc'[c] = "exhausted" => rest'[c] = <<>>
  /\ pc'[c] # "reporting"
  /\ Range(s) \subseteq Range(rest'[c]) \cup outOfQuota'

LEMMA PauseOverSettles ==
  ASSUME CallTypes, HealthTypeOK', NEW c \in Calls, NEW m \in Models, PauseOver(c, m)
  PROVE  /\ \E label \in {"asleep", "woken"} : Goto(c, label)
         /\ sleep' \in [Calls -> 0..MaxQuotaWait]
<1>1. quota'[m].pause \in 0..MaxQuotaWait
  BY DEF HealthTypeOK
<1>2. QED BY <1>1 DEF PauseOver, CallTypes

LEMMA GoOnSettles ==
  ASSUME CallTypes, HealthTypeOK', NEW c \in Calls, NEW s \in Seq(Models), GoOn(c, s)
  PROVE  Settled(c, s)
<1> USE DEF Settled, Goto, Keep, AtModel, CallTypes
<1>1. CASE c \in Reviews /\ ReviewNext(c, s)
  <2>1. CASE aborted[c] /\ s # <<>> /\ Goto(c, "cancelled") /\ Keep(c, s) /\ UNCHANGED sleep
    BY <2>1
  <2>2. CASE /\ \A i \in DOMAIN s : PassedOver(s[i])
             /\ Goto(c, "exhausted") /\ Keep(c, <<>>) /\ UNCHANGED sleep
    <3>1. Range(s) \subseteq outOfQuota'
      BY <2>2 DEF Range, PassedOver
    <3>2. <<>> \in Seq(Models)
      OBVIOUS
    <3>3. QED BY <2>2, <3>1, <3>2
  <2>3. ASSUME NEW i \in DOMAIN s,
               \A j \in 1..(i - 1) : PassedOver(s[j]),
               Keep(c, SubSeq(s, i, Len(s))),
               Goto(c, IF quota'[s[i]].pause > 0 THEN "limited" ELSE "announced"),
               UNCHANGED sleep
        PROVE  Settled(c, s)
    <3>1. rest'[c] = SubSeq(s, i, Len(s)) /\ rest'[c] \in Seq(Models) /\ rest'[c] # <<>>
      BY <2>3, RangeOfSuffix
    <3>2. ASSUME NEW j \in DOMAIN s PROVE s[j] \in Range(rest'[c]) \cup outOfQuota'
      <4>0. DOMAIN s = 1..Len(s) /\ Len(s) \in Nat
        OBVIOUS
      <4>1. CASE j >= i
        BY <4>1, <3>1, RangeOfSuffix
      <4>2. CASE j < i
        BY <4>0, <4>2, <2>3 DEF PassedOver
      <4>3. QED BY <4>0, <4>1, <4>2
    <3>3. Range(s) \subseteq Range(rest'[c]) \cup outOfQuota'
      BY <3>2 DEF Range
    <3>4. \E label \in {"limited", "announced"} : Goto(c, label)
      BY <2>3
    <3>5. QED BY <2>3, <3>1, <3>3, <3>4
  <2>4. QED BY <1>1, <2>1, <2>2, <2>3 DEF ReviewNext
<1>2. CASE c \in Completions /\ CompletionNext(c, s)
  <2>1. CASE s = <<>>
    BY <1>2, <2>1 DEF CompletionNext
  <2>2. CASE s # <<>>
    <3>1. Head(s) \in Models
      BY <2>2, HeadAndTail
    <3>2. /\ \E label \in {"asleep", "woken"} : Goto(c, label)
          /\ sleep' \in [Calls -> 0..MaxQuotaWait]
      BY <1>2, <2>2, <3>1, PauseOverSettles DEF CompletionNext
    <3>3. Keep(c, s)
      BY <1>2 DEF CompletionNext
    <3>4. QED BY <2>2, <3>2, <3>3
  <2>3. QED BY <2>1, <2>2
<1>3. QED BY <1>1, <1>2 DEF GoOn

CallsInv == CallTypes /\ \A c \in Calls : CallInv(c)

LEMMA InvParts == Inv <=> HealthTypeOK /\ CircuitInv /\ CallsInv
BY DEF Inv, TypeOK, CallsInv, CallTypes

\* A step of c that leaves the other calls alone keeps their invariant.
Alone(c) ==
  \A d \in Calls \ {c} :
    /\ pc'[d] = pc[d] /\ rest'[d] = rest[d] /\ outcome'[d] = outcome[d]
    /\ tried'[d] = tried[d] /\ passed'[d] = passed[d]

LEMMA AloneKeeps ==
  ASSUME CallsInv, NEW c \in Calls, Alone(c), CallInv(c)', outOfQuota \subseteq outOfQuota'
  PROVE  \A d \in Calls : CallInv(d)'
BY DEF CallsInv, Alone, CallInv

\* What a step of c does to the rest of the calls' data, whatever it does to pc.
Around(c) ==
  /\ aborted' \in [Calls -> BOOLEAN]
  /\ outcome' \in [Calls -> Outcomes \cup {NoOutcome}]
  /\ tried' \in [Calls -> SUBSET Models] /\ passed' \in [Calls -> SUBSET Models]
  /\ began' \in [Calls -> {"never", "closed", "open", "half-open"}]
  /\ \A d \in Calls \ {c} :
       outcome'[d] = outcome[d] /\ tried'[d] = tried[d] /\ passed'[d] = passed[d]
  /\ outOfQuota \subseteq outOfQuota'

\* A step that settles c, its models being those it had or all it may use.
LEMMA SettledKeeps ==
  ASSUME CallsInv, NEW c \in Calls, NEW s, Settled(c, s), Around(c),
         Range(Chain[c]) \subseteq Range(s) \cup tried'[c] \cup outOfQuota' \cup passed'[c]
  PROVE  CallsInv'
<1>1. CallTypes'
  <2>1. pc' \in [Calls -> Ended \cup AtModel \cup {"idle", "top"}]
    BY DEF CallsInv, CallTypes, Settled, Goto, Ended
  <2>2. rest' \in [Calls -> Seq(Models)]
    BY DEF CallsInv, CallTypes, Settled, Keep
  <2>3. QED BY <2>1, <2>2 DEF CallTypes, Settled, Around
<1>2. Alone(c)
  BY DEF Alone, CallsInv, CallTypes, Settled, Goto, Keep, Around
<1>3. CallInv(c)'
  BY DEF CallInv, Settled
<1>4. QED BY <1>1, <1>2, <1>3, AloneKeeps DEF CallsInv, Around

LEMMA BeginKeeps ==
  ASSUME CallsInv, HealthTypeOK', outOfQuota \subseteq outOfQuota', NEW c \in Calls, Begin(c)
  PROVE  CallsInv'
<1>1. PICK s \in Orders(Chain[c]) : GoOn(c, s)
  BY DEF Begin
<1>2. Chain[c] \in Seq(Models)
  BY CallsAssumption
<1>3. s \in Seq(Models) /\ Range(s) = Candidates(Range(Chain[c]))
  BY <1>2, OrdersInModels
<1>4. Settled(c, s)
  BY <1>1, <1>3, GoOnSettles DEF CallsInv
<1>5. /\ passed'[c] = Usable(Range(Chain[c])) \ Candidates(Range(Chain[c]))
      /\ Around(c)
  BY <1>2, RangeInModels DEF Begin, CallsInv, CallTypes, Usable, Around
<1>6. Range(Chain[c]) \subseteq Range(s) \cup tried'[c] \cup outOfQuota' \cup passed'[c]
  BY <1>3, <1>5 DEF Usable
<1>7. QED BY <1>4, <1>5, <1>6, SettledKeeps

\* A step that goes on with the models c had, or with all but a head that failed
\* or is out of quota.
LEMMA GoingOnKeeps ==
  ASSUME CallsInv, HealthTypeOK', NEW c \in Calls, pc[c] \notin {"idle", "fatal"}, Around(c),
         NEW s \in Seq(Models), GoOn(c, s),
         UNCHANGED passed, tried[c] \subseteq tried'[c],
         Range(rest[c]) \subseteq Range(s) \cup outOfQuota' \cup tried'[c]
  PROVE  CallsInv'
<1>1. Settled(c, s)
  BY GoOnSettles DEF CallsInv
<1>2. Range(Chain[c]) \subseteq Range(rest[c]) \cup tried[c] \cup outOfQuota \cup passed[c]
  BY DEF CallsInv, CallInv
<1>3. Range(Chain[c]) \subseteq Range(s) \cup tried'[c] \cup outOfQuota' \cup passed'[c]
  BY <1>2 DEF Around
<1>4. QED BY <1>1, <1>3, SettledKeeps

\* A step that only moves c on, to a label other than "exhausted".
LEMMA MovingKeeps ==
  ASSUME CallsInv, NEW c \in Calls, pc[c] \notin {"idle", "fatal"}, Around(c),
         NEW label \in (Ended \ {"exhausted"}) \cup AtModel, Goto(c, label),
         label \in AtModel => rest[c] # <<>>,
         label = "reporting" => outcome'[c] \in Outcomes,
         UNCHANGED <<rest, tried, passed>>, sleep' \in [Calls -> 0..MaxQuotaWait]
  PROVE  CallsInv'
<1>1. CallTypes'
  <2>1. pc' \in [Calls -> Ended \cup AtModel \cup {"idle", "top"}]
    BY DEF CallsInv, CallTypes, Goto
  <2>2. rest' \in [Calls -> Seq(Models)]
    BY DEF CallsInv, CallTypes
  <2>3. QED BY <2>1, <2>2 DEF CallTypes, Around
<1>2. pc'[c] = label /\ \A d \in Calls \ {c} : pc'[d] = pc[d]
  BY DEF CallsInv, CallTypes, Goto
<1>3. Alone(c)
  BY <1>2 DEF Alone, Around
<1>4. CallInv(c)'
  <2>1. label # "exhausted"
    BY DEF AtModel
  <2>2. CallInv(c)
    BY DEF CallsInv
  <2>3. Range(Chain[c]) \subseteq Range(rest'[c]) \cup tried'[c] \cup outOfQuota' \cup passed'[c]
    BY <2>2 DEF CallInv, Around
  <2>4. QED BY <1>2, <2>1, <2>3 DEF CallInv
<1>5. QED BY <1>1, <1>3, <1>4, AloneKeeps DEF CallsInv, Around

\* A review drops its failed model and goes back to its loop's head.
LEMMA ReviewGivesUp ==
  ASSUME CallsInv, NEW c \in Calls, pc[c] \in AtModel, Around(c),
         Goto(c, "top"), Keep(c, Tail(rest[c])), UNCHANGED <<sleep, passed>>,
         tried'[c] = tried[c] \cup {Head(rest[c])}
  PROVE  CallsInv'
<1>1. rest[c] \in Seq(Models) /\ rest[c] # <<>> /\ CallInv(c) /\ pc[c] \notin {"idle", "fatal"}
  BY DEF CallsInv, CallTypes, CallInv, AtModel
<1>2. /\ Tail(rest[c]) \in Seq(Models)
      /\ Range(rest[c]) = Range(Tail(rest[c])) \cup {Head(rest[c])}
  BY <1>1, HeadAndTail
<1>3. CallTypes'
  <2>1. pc' \in [Calls -> Ended \cup AtModel \cup {"idle", "top"}]
    BY DEF CallsInv, CallTypes, Goto
  <2>2. rest' \in [Calls -> Seq(Models)]
    BY <1>2 DEF CallsInv, CallTypes, Keep
  <2>3. sleep' \in [Calls -> 0..MaxQuotaWait]
    BY DEF CallsInv, CallTypes
  <2>4. QED BY <2>1, <2>2, <2>3 DEF CallTypes, Around
<1>4. Alone(c)
  BY DEF CallsInv, CallTypes, Goto, Keep, Alone, Around
<1>5. pc'[c] = "top" /\ rest'[c] = Tail(rest[c])
  BY DEF CallsInv, CallTypes, Goto, Keep
<1>6. CallInv(c)'
  BY <1>1, <1>2, <1>5 DEF CallInv, AtModel, Around
<1>7. QED BY <1>3, <1>4, <1>6, AloneKeeps DEF CallsInv, Around

\* The steps that read the chain's next model without touching the health.
LEMMA LoopKeeps ==
  ASSUME CallsInv, HealthTypeOK', outOfQuota \subseteq outOfQuota', NEW c \in Calls,
         TryNext(c) \/ EnterPause(c) \/ Wake(c) \/ AfterPause(c) \/ StartReview(c)
  PROVE  CallsInv'
<1>1. /\ rest[c] \in Seq(Models) /\ (pc[c] \in AtModel => rest[c] # <<>>)
      /\ sleep \in [Calls -> 0..MaxQuotaWait]
  BY DEF CallsInv, CallTypes, CallInv
<1>2. pc[c] \in AtModel =>
        /\ Head(rest[c]) \in Models /\ Tail(rest[c]) \in Seq(Models)
        /\ Range(rest[c]) = Range(Tail(rest[c])) \cup {Head(rest[c])}
  BY <1>1, HeadAndTail
<1>3. CASE TryNext(c)
  <2>1. Around(c) /\ pc[c] \notin {"idle", "fatal"} /\ GoOn(c, rest[c]) /\ UNCHANGED <<passed, tried>>
    BY <1>3 DEF TryNext, Around, CallsInv, CallTypes
  <2>2. QED BY <1>1, <2>1, GoingOnKeeps
<1>4. CASE EnterPause(c) \/ Wake(c)
  <2>1. /\ Around(c) /\ pc[c] \in AtModel /\ PauseOver(c, Head(rest[c]))
        /\ UNCHANGED <<rest, tried, passed>>
    BY <1>4 DEF EnterPause, Wake, Around, CallsInv, CallTypes, AtModel
  <2>2. PICK label \in {"asleep", "woken"} : Goto(c, label)
    BY <1>2, <2>1, PauseOverSettles DEF CallsInv
  <2>3. sleep' \in [Calls -> 0..MaxQuotaWait]
    BY <1>2, <2>1, PauseOverSettles DEF CallsInv
  <2>4. label \in AtModel /\ label # "reporting" /\ pc[c] \notin {"idle", "fatal"}
    BY <2>1 DEF AtModel
  <2>5. QED BY <1>1, <2>1, <2>2, <2>3, <2>4, MovingKeeps
<1>5. ASSUME Around(c), pc[c] \in AtModel, UNCHANGED <<rest, sleep, tried, passed>>,
             NEW label \in {"cancelled", "announced", "attempting"}, Goto(c, label)
      PROVE  CallsInv'
  <2>1. label \in (Ended \ {"exhausted"}) \cup AtModel /\ label # "reporting" /\ pc[c] \notin {"idle", "fatal"}
    BY <1>5 DEF Ended, AtModel
  <2>2. QED BY <1>1, <1>5, <2>1, MovingKeeps
<1>6. Head(rest[c]) \in Models => CircuitState(Head(rest[c])) \in {"closed", "open", "half-open"}
  BY DEF CircuitState
<1>7. CASE AfterPause(c)
  <2>1. Around(c) /\ pc[c] \in AtModel /\ UNCHANGED <<tried, passed>>
    BY <1>2, <1>6, <1>7 DEF AfterPause, StartAttempt, Around, CallsInv, CallTypes, AtModel
  <2>2. CASE Head(rest[c]) \in outOfQuota /\ GoOn(c, Tail(rest[c]))
    <3>1. Range(rest[c]) \subseteq Range(Tail(rest[c])) \cup outOfQuota' \cup tried'[c]
      BY <1>2, <2>1, <2>2
    <3>2. pc[c] \notin {"idle", "fatal"} /\ tried[c] \subseteq tried'[c]
      BY <2>1 DEF AtModel
    <3>3. QED BY <1>2, <2>1, <2>2, <3>1, <3>2, GoingOnKeeps
  <2>3. CASE \E label \in {"cancelled", "announced", "attempting"} :
               Goto(c, label) /\ UNCHANGED <<rest, sleep>>
    BY <1>5, <2>1, <2>3
  <2>4. QED BY <1>7, <2>2, <2>3 DEF AfterPause, StartAttempt
<1>8. CASE StartReview(c)
  <2>1. /\ Around(c) /\ pc[c] \in AtModel /\ UNCHANGED <<rest, sleep, tried, passed>>
        /\ Goto(c, "attempting")
    BY <1>2, <1>6, <1>8 DEF StartReview, StartAttempt, Around, CallsInv, CallTypes, AtModel
  <2>2. QED BY <1>5, <2>1
<1>9. QED BY <1>3, <1>4, <1>7, <1>8

\* What an attempt concludes with.
LEMMA ConcludeKeeps ==
  ASSUME CallsInv, HealthTypeOK', outOfQuota \subseteq outOfQuota', NEW c \in Calls,
         pc[c] \in AtModel, NEW o \in Outcomes, Conclude(c, o),
         UNCHANGED <<aborted, passed, began>>,
         outcome' \in [Calls -> Outcomes \cup {NoOutcome}],
         \A d \in Calls \ {c} : outcome'[d] = outcome[d]
  PROVE  CallsInv'
<1>1. rest[c] \in Seq(Models) /\ rest[c] # <<>> /\ pc[c] \notin {"idle", "fatal"}
  BY DEF CallsInv, CallTypes, CallInv, AtModel
<1>2. /\ Head(rest[c]) \in Models /\ Tail(rest[c]) \in Seq(Models)
      /\ Range(rest[c]) = Range(Tail(rest[c])) \cup {Head(rest[c])}
  BY <1>1, HeadAndTail
<1>3. ASSUME tried' \in [Calls -> SUBSET Models],
             \A d \in Calls \ {c} : tried'[d] = tried[d]
      PROVE  Around(c)
  BY <1>3 DEF Around, CallsInv, CallTypes
<1>4. CASE UNCHANGED tried
  <2>1. Around(c)
    BY <1>3, <1>4 DEF CallsInv, CallTypes
  <2>2. ASSUME NEW label \in {"done", "cancelled", "fatal"}, Goto(c, label),
               UNCHANGED <<rest, sleep>>
        PROVE  CallsInv'
    <3>1. label \in Ended \ {"exhausted"} /\ label \notin AtModel
      BY DEF Ended, AtModel
    <3>2. sleep' \in [Calls -> 0..MaxQuotaWait]
      BY <2>2 DEF CallsInv, CallTypes
    <3>3. QED BY <1>1, <1>4, <2>1, <2>2, <3>1, <3>2, MovingKeeps DEF AtModel
  <2>3. CASE GoOn(c, rest[c])
    BY <1>1, <1>4, <2>1, <2>3, GoingOnKeeps
  <2>4. CASE \E label \in {"done", "cancelled", "fatal"} :
               Goto(c, label) /\ UNCHANGED <<rest, sleep>>
    BY <2>2, <2>4
  <2>5. CASE GiveUp(c)
    BY <1>1, <1>2, <1>4, <2>1, <2>5, ReviewGivesUp, GoingOnKeeps
    DEF GiveUp, CallsInv, CallTypes
  <2>6. QED BY <2>3, <2>4, <2>5 DEF Conclude
<1>5. CASE GiveUp(c)
  <2>1. tried'[c] = tried[c] \cup {Head(rest[c])} /\ Around(c)
    <3>1. tried \in [Calls -> SUBSET Models]
      BY DEF CallsInv, CallTypes
    <3>2. QED BY <1>2, <1>3, <1>5, <3>1 DEF GiveUp
  <2>2. CASE Goto(c, "top") /\ Keep(c, Tail(rest[c])) /\ UNCHANGED sleep
    BY <2>1, <2>2, ReviewGivesUp
  <2>3. CASE GoOn(c, Tail(rest[c]))
    <3>1. Range(rest[c]) \subseteq Range(Tail(rest[c])) \cup outOfQuota' \cup tried'[c]
      BY <1>2, <2>1
    <3>2. QED BY <1>1, <1>2, <2>1, <2>3, <3>1, GoingOnKeeps
  <2>4. QED BY <1>5, <2>2, <2>3 DEF GiveUp
<1>6. QED BY <1>4, <1>5 DEF Conclude

LEMMA AnswerKeeps ==
  ASSUME CallsInv, HealthTypeOK', outOfQuota \subseteq outOfQuota', NEW c \in Calls,
         NEW o \in Outcomes, Answer(c, o)
  PROVE  CallsInv'
<1>1. pc[c] \in AtModel /\ pc[c] \notin {"idle", "fatal"} /\ rest[c] # <<>>
  BY DEF Answer, AtModel, CallsInv, CallInv
<1>2. CASE /\ Goto(c, "reporting") /\ outcome' = [outcome EXCEPT ![c] = o]
           /\ UNCHANGED <<rest, sleep, tried>>
  <2>1. Around(c) /\ outcome'[c] \in Outcomes /\ sleep' \in [Calls -> 0..MaxQuotaWait]
    BY <1>2 DEF Answer, Around, CallsInv, CallTypes
  <2>2. "reporting" \in AtModel
    BY DEF AtModel
  <2>3. UNCHANGED passed
    BY DEF Answer
  <2>4. QED BY <1>1, <1>2, <2>1, <2>2, <2>3, MovingKeeps
<1>3. CASE Conclude(c, o) /\ UNCHANGED outcome
  BY <1>1, <1>3, ConcludeKeeps DEF Answer, CallsInv, CallTypes
<1>4. QED BY <1>2, <1>3 DEF Answer

LEMMA ConcludeReviewKeeps ==
  ASSUME CallsInv, HealthTypeOK', outOfQuota \subseteq outOfQuota', NEW c \in Calls,
         ConcludeReview(c)
  PROVE  CallsInv'
<1>1. pc[c] \in AtModel /\ outcome[c] \in Outcomes
  BY DEF ConcludeReview, AtModel, CallsInv, CallInv
<1>2. /\ outcome' \in [Calls -> Outcomes \cup {NoOutcome}]
      /\ \A d \in Calls \ {c} : outcome'[d] = outcome[d]
  BY DEF ConcludeReview, CallsInv, CallTypes
<1>3. QED BY <1>1, <1>2, ConcludeKeeps DEF ConcludeReview

\* The steps that leave every call's models where they are.
LEMMA OtherStepsKeep ==
  ASSUME CallsInv, outOfQuota \subseteq outOfQuota',
         \/ \E c \in Calls : Refuse(c) \/ Abort(c) \/ Abandon(c)
         \/ Tick \/ UNCHANGED vars
  PROVE  CallsInv'
<1>1. ASSUME NEW c \in Calls, Refuse(c) PROVE CallsInv'
  <2>1. CallTypes' /\ Alone(c) /\ pc'[c] = "fatal"
    BY <1>1 DEF Refuse, Goto, CallsInv, CallTypes, Alone, Ended
  <2>2. CallInv(c)'
    BY <2>1 DEF CallInv, AtModel
  <2>3. QED BY <2>1, <2>2, AloneKeeps DEF CallsInv
<1>2. ASSUME NEW c \in Calls, Abandon(c) PROVE CallsInv'
  <2>1. Around(c) /\ sleep' \in [Calls -> 0..MaxQuotaWait]
    BY <1>2 DEF Abandon, Around, CallsInv, CallTypes
  <2>2. /\ pc[c] \notin {"idle", "fatal"} /\ Goto(c, "cancelled") /\ UNCHANGED <<rest, tried, passed>>
        /\ "cancelled" \in Ended \ {"exhausted"} /\ "cancelled" \notin AtModel
    BY <1>2 DEF Abandon, Ended, AtModel
  <2>3. QED BY <2>1, <2>2, MovingKeeps
<1>3. CASE (\E c \in Calls : Abort(c)) \/ Tick \/ UNCHANGED vars
  <2>1. UNCHANGED <<pc, rest, outcome, tried, passed, began>>
    BY <1>3 DEF Abort, Tick, vars, callVars
  <2>2. sleep' \in [Calls -> 0..MaxQuotaWait]
    <3>1. \A n \in 0..MaxQuotaWait : Left(n) \in 0..MaxQuotaWait
      BY HealthAssumption DEF Left
    <3>2. QED BY <1>3, <3>1 DEF Abort, Tick, vars, callVars, CallsInv, CallTypes
  <2>3. aborted' \in [Calls -> BOOLEAN]
    BY <1>3 DEF Abort, Tick, vars, callVars, CallsInv, CallTypes
  <2>4. QED BY <2>1, <2>2, <2>3 DEF CallsInv, CallTypes, CallInv
<1>4. QED BY <1>1, <1>2, <1>3

LEMMA InvInit == Init => Inv
<1> SUFFICES ASSUME Init PROVE Inv
  OBVIOUS
<1>1. HealthTypeOK /\ CircuitInv
  BY HealthInvInit DEF Init, HealthInv
<1>2. CallTypes
  BY HealthAssumption DEF Init, CallTypes
<1>3. \A c \in Calls : CallInv(c)
  BY DEF Init, CallInv, AtModel
<1>4. QED BY <1>1, <1>2, <1>3, InvParts DEF CallsInv

LEMMA InvNext == Inv /\ [Next]_vars => Inv'
<1> SUFFICES ASSUME Inv, [Next]_vars PROVE Inv'
  OBVIOUS
<1>1. CallsInv
  BY InvParts
<1>2. HealthTypeOK' /\ CircuitInv' /\ outOfQuota \subseteq outOfQuota'
  BY HealthAfter
<1>3. CallsInv'
  <2>1. ASSUME NEW c \in Calls, Step(c) PROVE CallsInv'
    BY <1>1, <1>2, <2>1, BeginKeeps, LoopKeeps, AnswerKeeps, ConcludeReviewKeeps, OtherStepsKeep
    DEF Step
  <2>2. QED BY <1>1, <1>2, <2>1, OtherStepsKeep DEF Next
<1>4. QED BY <1>2, <1>3 DEF Inv, TypeOK, CallsInv, CallTypes

LEMMA InvAlways == Spec => []Inv
BY InvInit, InvNext, PTL DEF Spec

--------------------------------------------------------------------------------
(* Results *)

\* Whatever the calls do, they change the health only as ModelHealth allows, so
\* all that is proved of HealthSpec holds of every runtime (failback.ts).
THEOREM FailbackImplementsHealth == Spec => HealthSpec
<1>1. Init => HealthInit
  BY DEF Init
<1>2. QED BY <1>1, InvAlways, NextIsHealthNext, PTL DEF Spec, HealthSpec

\* The calls and the health keep their types.
THEOREM FailbackTypeCorrect == Spec => []TypeOK
<1>1. Inv => TypeOK
  BY DEF Inv
<1>2. QED BY <1>1, InvAlways, PTL

\* A call that reports that every model failed has tried each model of its chain,
\* found it out of quota, or left it out when it began (failback.ts:97-104, 220-223).
THEOREM NoModelLostAlways == Spec => []NoModelLost
<1>1. Inv => NoModelLost
  <2>1. Range(<<>>) = {}
    BY DEF Range
  <2>2. QED BY <2>1 DEF Inv, CallInv, NoModelLost
<1>2. QED BY <1>1, InvAlways, PTL

\* A step of one call moves no other.
LEMMA GoOnMoves ==
  ASSUME NEW c \in Calls, NEW s, GoOn(c, s)
  PROVE  \E label : Goto(c, label)
BY DEF GoOn, ReviewNext, CompletionNext, PauseOver

LEMMA ConcludeMoves ==
  ASSUME NEW c \in Calls, NEW o, Conclude(c, o)
  PROVE  \E label : Goto(c, label)
BY GoOnMoves DEF Conclude, GiveUp

LEMMA StepMoves ==
  ASSUME NEW c \in Calls, Step(c)
  PROVE  \E label : Goto(c, label)
<1>1. CASE Begin(c) \/ TryNext(c) \/ EnterPause(c) \/ Wake(c) \/ AfterPause(c)
  BY <1>1, GoOnMoves DEF Begin, TryNext, EnterPause, Wake, AfterPause, PauseOver, StartAttempt
<1>2. CASE Refuse(c) \/ StartReview(c)
  BY <1>2 DEF Refuse, StartReview, StartAttempt
<1>3. CASE ConcludeReview(c) \/ \E o \in Outcomes : Answer(c, o)
  BY <1>3, ConcludeMoves DEF ConcludeReview, Answer
<1>4. QED BY <1>1, <1>2, <1>3 DEF Step

\* Whatever changes where a call is, is a step of its own, or the end that the
\* pipeline puts to it.
LEMMA OwnStep ==
  ASSUME CallsInv, [Next]_vars, NEW c \in Calls, pc'[c] # pc[c]
  PROVE  Step(c) \/ Abandon(c)
<1>1. pc \in [Calls -> Ended \cup AtModel \cup {"idle", "top"}]
  BY DEF CallsInv, CallTypes
<1>2. ASSUME NEW d \in Calls, Step(d) \/ Abandon(d), d # c PROVE FALSE
  <2>1. PICK label : Goto(d, label)
    BY <1>2, StepMoves DEF Abandon
  <2>2. QED BY <1>1, <1>2, <2>1 DEF Goto
<1>3. ASSUME NEW d \in Calls, Abort(d) PROVE FALSE
  BY <1>3 DEF Abort
<1>4. ~Tick /\ ~UNCHANGED vars
  BY DEF Tick, vars, callVars
<1>5. QED BY <1>2, <1>3, <1>4 DEF Next

\* A call that begins with nothing to try has no model with quota: an open circuit
\* leaves a model out only for one that can be used (models.ts:77-81).
LEMMA BeginsEmptyOnlyOutOfQuota ==
  ASSUME NEW c \in Calls, Begin(c),
         pc \in [Calls -> Ended \cup AtModel \cup {"idle", "top"}], pc'[c] = "exhausted"
  PROVE  Range(Chain[c]) \subseteq outOfQuota
<1> DEFINE ms == Range(Chain[c])
<1>1. PICK s \in Orders(Chain[c]) : GoOn(c, s)
  BY DEF Begin
<1>2. Chain[c] \in Seq(Models) /\ UNCHANGED <<outOfQuota, quota>>
  BY CallsAssumption DEF Begin, healthVars
<1>3. s \in Seq(Models) /\ Range(s) = Candidates(ms)
  BY <1>2, OrdersInModels
<1>4. Candidates(ms) \subseteq outOfQuota
  <2>1. CASE ReviewNext(c, s)
    <3>1. \A i \in DOMAIN s : PassedOver(s[i])
      BY <2>1 DEF ReviewNext, Goto
    <3>2. QED BY <1>2, <1>3, <3>1 DEF Range, PassedOver
  <2>2. CASE CompletionNext(c, s)
    <3>1. s = <<>>
      BY <2>2 DEF CompletionNext, PauseOver, Goto
    <3>2. QED BY <1>3, <3>1 DEF Range
  <2>3. QED BY <1>1, <2>1, <2>2 DEF GoOn
<1>5. Candidates(ms) = {} => Usable(ms) = {}
  BY DEF Candidates, Available
<1>6. Candidates(ms) \cap outOfQuota = {}
  BY DEF Candidates, Available, Usable
<1>7. QED BY <1>4, <1>5, <1>6 DEF Usable

THEOREM SkipsOnlyForAnotherAlways == Spec => SkipsOnlyForAnother
<1>1. ASSUME Inv, [Next]_vars, NEW c \in Calls, pc[c] = "idle", pc'[c] = "exhausted"
      PROVE  Range(Chain[c]) \subseteq outOfQuota
  <2>1. CallsInv
    BY <1>1, InvParts
  <2>2. pc \in [Calls -> Ended \cup AtModel \cup {"idle", "top"}]
    BY <2>1 DEF CallsInv, CallTypes
  <2>3. Step(c) \/ Abandon(c)
    BY <1>1, <2>1, OwnStep
  <2>4. ~ (Refuse(c) \/ TryNext(c) \/ EnterPause(c) \/ Wake(c) \/ AfterPause(c)
             \/ StartReview(c) \/ ConcludeReview(c) \/ Abandon(c)
             \/ \E o \in Outcomes : Answer(c, o))
    BY <1>1, <2>2 DEF Refuse, Goto, TryNext, EnterPause, Wake, AfterPause, StartReview,
      ConcludeReview, Abandon, Answer
  <2>5. QED BY <1>1, <2>2, <2>3, <2>4, BeginsEmptyOnlyOutOfQuota DEF Step
<1>2. Inv /\ [Next]_vars =>
        [\A c \in Calls : pc[c] = "idle" /\ pc'[c] = "exhausted"
           => Range(Chain[c]) \subseteq outOfQuota]_vars
  BY <1>1
<1>3. QED BY <1>2, InvAlways, PTL DEF Spec, SkipsOnlyForAnother
================================================================================
