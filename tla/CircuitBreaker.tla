--------------------------- MODULE CircuitBreaker ---------------------------
(***************************************************************************)
(* The process-local circuit breaker of app/http/circuit_breaker.py.  Its  *)
(* methods are actions on three variables; CoreClient composes them with   *)
(* the retry loop that calls them.                                         *)
(*                                                                         *)
(* Time is counted in ticks.  The code only ever compares now - _opened_at *)
(* with the cooldown, so the model keeps that difference, saturated at the *)
(* cooldown, instead of the two clock readings.  The failure count is only *)
(* compared with the threshold, so it saturates one above it.              *)
(***************************************************************************)
EXTENDS Integers

CONSTANTS
  THRESHOLD,  \* settings.CORE_CLIENT_BREAKER_THRESHOLD
  COOLDOWN    \* settings.CORE_CLIENT_BREAKER_COOLDOWN_S, in ticks

ASSUME BreakerAssumption == THRESHOLD \in Int /\ COOLDOWN \in Nat

VARIABLES
  state,      \* CircuitBreaker._state
  failures,   \* CircuitBreaker._failures
  elapsed     \* _clock() - _opened_at, at most COOLDOWN

breakerVars == <<state, failures, elapsed>>

CLOSED    == "closed"
OPEN      == "open"
HALF_OPEN == "half_open"

\* The constructor's max(1, threshold).
threshold == IF THRESHOLD < 1 THEN 1 ELSE THRESHOLD

\* Named bound: the largest failure count the model tells apart.
FailureCap == threshold + 1

BreakerTypeOK ==
  /\ state \in {CLOSED, OPEN, HALF_OPEN}
  /\ failures \in 0..FailureCap
  /\ elapsed \in 0..COOLDOWN

BreakerInit ==
  /\ state = CLOSED
  /\ failures = 0
  /\ elapsed = 0

CooldownOver == elapsed >= COOLDOWN

-----------------------------------------------------------------------------
\* The definitions named Broken... are slips this code could contain; nothing
\* uses them.  PROJECT.json pairs each with the property that catches it.

\* Broken: an open breaker never asks whether its cooldown is over.
BrokenAdmits == state # OPEN

\* Broken: a half-open breaker waits to hear of its probe.
BrokenOneProbe == state = CLOSED \/ (state = OPEN /\ CooldownOver)

\* allow() returns True exactly when this holds.
Admits == state # OPEN \/ CooldownOver

\* Broken: the probe is admitted but the breaker stays OPEN.
BrokenAllow == Admits /\ UNCHANGED breakerVars

\* allow() returning True; an OPEN breaker becomes HALF_OPEN.
Allow ==
  /\ Admits
  /\ state' = IF state = OPEN THEN HALF_OPEN ELSE state
  /\ UNCHANGED <<failures, elapsed>>

RecordSuccess ==
  /\ failures' = 0
  /\ state' = CLOSED
  /\ UNCHANGED elapsed

\* self._failures += 1, saturated.
Bump(n) == IF n < FailureCap THEN n + 1 ELSE n

\* Broken: the threshold comparison is off by one.
BrokenTrips(n) == state = HALF_OPEN \/ n > threshold

\* The condition under which record_failure opens the breaker.
Trips(n) == state = HALF_OPEN \/ n >= threshold

\* Every failure that trips restarts the cooldown, also under an OPEN breaker.
RecordFailure ==
  /\ failures' = Bump(failures)
  /\ IF Trips(failures')
       THEN state' = OPEN /\ elapsed' = 0
       ELSE UNCHANGED <<state, elapsed>>

\* Time passes; it matters only while the breaker is OPEN.
Tick ==
  /\ state = OPEN
  /\ elapsed < COOLDOWN
  /\ elapsed' = elapsed + 1
  /\ UNCHANGED <<state, failures>>
=============================================================================
