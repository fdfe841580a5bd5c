------------------------------ MODULE ModelHealth ------------------------------
(***************************************************************************)
(* The health one runtime instance keeps per model: a circuit breaker and  *)
(* a shared rate-limit pause (packages/core/src/runtime/models.ts).        *)
(*                                                                         *)
(* The code stores instants (openUntil, pausedUntil) and compares them     *)
(* with now().  The module stores the time LEFT until each instant, so it  *)
(* needs no clock: openUntil <= now is open = 0, pausedUntil > now is      *)
(* pause > 0, and Elapse ages every timer by one unit.  A record absent    *)
(* from the code's maps is the initial record here.                        *)
(***************************************************************************)
EXTENDS Naturals, Sequences, Functions

CONSTANTS
  Models,
  Threshold,      \* failures in a row that open a circuit (CircuitOptions)
  Cooldown,       \* first cooldown
  MaxCooldown,    \* the doubling stops here
  QuotaRetries,   \* QUOTA_RETRIES
  MaxQuotaWait,   \* MAX_QUOTA_WAIT_MS
  UnstatedWait,   \* UNSTATED_QUOTA_WAIT_MS
  StatedWaits,    \* the waits a provider may ask for
  Unstated        \* a rate limit that names no wait

\* 15000 * 2 ** (waits - 1)
BackoffWait(n) == UnstatedWait * 2^(n - 1)

ASSUME HealthAssumption ==
  /\ Threshold \in Nat \ {0}
  /\ Cooldown \in Nat \ {0} /\ MaxCooldown \in Nat /\ Cooldown <= MaxCooldown
  /\ QuotaRetries \in Nat /\ MaxQuotaWait \in Nat
  /\ StatedWaits \subseteq Nat /\ Unstated \notin Nat
  /\ \A n \in 1..(QuotaRetries + 1) : BackoffWait(n) \in Nat

VARIABLES
  circuit,     \* per model: the circuits map
  quota,       \* per model: the quotas map
  outOfQuota,  \* models refused for the rest of the run
  streak       \* history: failures since the last success, up to Threshold

health == <<circuit, quota, outOfQuota>>
healthVars == <<circuit, quota, outOfQuota, streak>>

QuotaErrors == [daily : BOOLEAN, retryAfter : StatedWaits \cup {Unstated}]

NewCircuit == [failures |-> 0, tripped |-> FALSE, open |-> 0, cooldown |-> Cooldown]
NewQuota == [waits |-> 0, pause |-> 0]

Smaller(a, b) == IF a <= b THEN a ELSE b
LatestOnly(a, b) == b   \* mutant: the last refusal sets the pause
Larger(a, b) == IF a >= b THEN a ELSE b

--------------------------------------------------------------------------------
(* What the health answers *)

CircuitState(m) ==
  IF ~circuit[m].tripped THEN "closed"
  ELSE IF circuit[m].open > 0 THEN "open" ELSE "half-open"

Usable(ms) == ms \ outOfQuota
Available(ms) == {m \in Usable(ms) : circuit[m].open = 0}

AvailableOnly(ms) == Available(ms)   \* mutant: nothing when every circuit is open

\* The models order() keeps: those no open circuit skips or, when every
\* circuit is open, all of them.
Candidates(ms) == IF Available(ms) # {} THEN Available(ms) ELSE Usable(ms)

\* order(): what a call tries, in turn.  Sorted by when the circuit reopens, then
\* by the chain's order; the first key is 0 for every available model.  One
\* arrangement satisfies this, as the chain repeats no model.
Orders(chain) ==
  LET ms == Candidates(Range(chain))
      place(m) == CHOOSE i \in DOMAIN chain : chain[i] = m
      before(m, n) == \/ circuit[m].open < circuit[n].open
                      \/ circuit[m].open = circuit[n].open /\ place(m) < place(n)
  IN {s \in UNION {[1..n -> ms] : n \in 0..Len(chain)} :
        /\ Range(s) = ms
        /\ \A i, j \in DOMAIN s : i < j => before(s[i], s[j])}

--------------------------------------------------------------------------------
(* What is recorded *)

Tripped(c) == [failures |-> 0, tripped |-> TRUE, open |-> c.cooldown,
               cooldown |-> Smaller(2 * c.cooldown, MaxCooldown)]

Counted(c) == [c EXCEPT !.failures = c.failures + 1]

\* A failure that opens the circuit: of a half-open model, or the threshold's.
Opens(m) == CircuitState(m) = "half-open" \/ circuit[m].failures + 1 >= Threshold

RecordFailure(m) ==
  /\ circuit' = [circuit EXCEPT ![m] =
       IF Opens(m) THEN Tripped(circuit[m]) ELSE Counted(circuit[m])]
  /\ streak' = [streak EXCEPT ![m] = Smaller(@ + 1, Threshold)]
  /\ UNCHANGED <<quota, outOfQuota>>

\* mutant: a success clears the pause and forgets the circuit
SuccessKeepsCircuit(m) ==
  /\ quota' = [quota EXCEPT ![m] = NewQuota]
  /\ streak' = [streak EXCEPT ![m] = 0]
  /\ UNCHANGED <<circuit, outOfQuota>>

RecordSuccess(m) ==
  /\ circuit' = [circuit EXCEPT ![m] = NewCircuit]
  /\ quota' = [quota EXCEPT ![m] = NewQuota]
  /\ streak' = [streak EXCEPT ![m] = 0]
  /\ UNCHANGED outOfQuota

JoinsAny(m) == quota[m].waits > 0   \* mutant: a pause that is over is joined too

\* A limit that arrives while the model is paused joins that pause.
Joins(m) == quota[m].pause > 0

CountedWaits(m) == IF Joins(m) THEN quota[m].waits ELSE quota[m].waits + 1

WaitFor(m, q) ==
  IF q.retryAfter # Unstated THEN q.retryAfter
  ELSE IF Joins(m) THEN 0 ELSE BackoffWait(CountedWaits(m))

\* mutant: any stated wait is taken
RunsOutOfRetries(m, q) == q.daily \/ CountedWaits(m) > QuotaRetries

RunsOut(m, q) ==
  q.daily \/ WaitFor(m, q) > MaxQuotaWait \/ CountedWaits(m) > QuotaRetries

RecordQuota(m, q) ==
  /\ IF RunsOut(m, q)
       THEN outOfQuota' = outOfQuota \cup {m} /\ UNCHANGED quota
       ELSE /\ quota' = [quota EXCEPT ![m] =
                 [waits |-> CountedWaits(m), pause |-> Larger(@.pause, WaitFor(m, q))]]
            /\ UNCHANGED outOfQuota
  /\ UNCHANGED <<circuit, streak>>

Left(n) == IF n > 0 THEN n - 1 ELSE 0

Elapse ==
  /\ circuit' = [m \in Models |-> [circuit[m] EXCEPT !.open = Left(@)]]
  /\ quota' = [m \in Models |-> [quota[m] EXCEPT !.pause = Left(@)]]
  /\ UNCHANGED <<outOfQuota, streak>>

HealthInit ==
  /\ circuit = [m \in Models |-> NewCircuit]
  /\ quota = [m \in Models |-> NewQuota]
  /\ outOfQuota = {}
  /\ streak = [m \in Models |-> 0]

HealthNext ==
  \/ \E m \in Models :
       \/ RecordFailure(m)
       \/ RecordSuccess(m)
       \/ \E q \in QuotaErrors : RecordQuota(m, q)
  \/ Elapse

HealthSpec == HealthInit /\ [][HealthNext]_healthVars

--------------------------------------------------------------------------------
(* Properties *)

\* The types of the health's records; the timers stay within their limits.
HealthTypeOK ==
  /\ circuit \in [Models -> [failures : 0..(Threshold - 1), tripped : BOOLEAN,
                             open : 0..MaxCooldown, cooldown : 1..MaxCooldown]]
  /\ quota \in [Models -> [waits : 0..QuotaRetries, pause : 0..MaxQuotaWait]]
  /\ outOfQuota \subseteq Models
  /\ streak \in [Models -> 0..Threshold]

\* A circuit is closed exactly while fewer than Threshold failures followed the
\* model's last success, however refusals, pauses and elapsed cooldowns fall
\* between them (models.ts:56-61).
ClosedBelowThreshold ==
  \A m \in Models : CircuitState(m) = "closed" <=> streak[m] < Threshold

\* Nothing but a success of the model, or time, brings the end of its cooldown
\* nearer: a failure recorded late, by a task that started before the circuit
\* opened, cannot cut a longer cooldown short (models.ts:98-108).
CooldownNotCutShort ==
  [][\A m \in Models :
       circuit'[m].open < circuit[m].open => Elapse \/ RecordSuccess(m)]_healthVars

\* Tasks refused together share one pause and one retry: nothing but a success
\* of the model, or time, brings the end of the pause nearer, and a refusal
\* that joins it uses up none of the model's retries (models.ts:128-130).
PauseShared ==
  [][\A m \in Models :
       /\ quota'[m].pause < quota[m].pause => Elapse \/ RecordSuccess(m)
       /\ quota[m].pause > 0 /\ quota'[m].pause >= quota[m].pause
            => quota'[m].waits = quota[m].waits]_healthVars

\* No interleaving of late failures, refusals and pauses shortens what a model
\* has to wait, of its cooldown or its rate limit (models.ts:98-143).
WaitsNotCutShort == CooldownNotCutShort /\ PauseShared
================================================================================
