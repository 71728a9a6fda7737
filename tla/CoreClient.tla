----------------------------- MODULE CoreClient -----------------------------
(***************************************************************************)
(* LingoCoreClient._request: the bounded retry loop around one HTTP call   *)
(* into lingo-core, composed with the breaker it shares with every other   *)
(* call of the same warm container.  The container is single-threaded, so  *)
(* one request is in progress at a time; lingo-core goes up and down and   *)
(* the clock advances at any moment.  A cold start is a fresh behaviour:   *)
(* it re-imports the module and so restarts from Init.                     *)
(***************************************************************************)
EXTENDS CircuitBreaker, CoreCall

CONSTANT MAX_RETRIES   \* settings.CORE_CLIENT_MAX_RETRIES

ASSUME RetriesAssumption == MAX_RETRIES \in Int

VARIABLES
  pc,       \* "idle" (no request), "send" (HTTP call out), "backoff" (asleep)
  attempt,  \* the loop variable of _request
  result,   \* how the last request ended, "none" while one is in progress
  applied,  \* history: how often lingo-core applied the current/last request
  core      \* "up": answers; "down": 5xx, 429, refused connection, timeout

vars == <<breakerVars, pc, attempt, result, applied, core>>

\* 1 + max(0, CORE_CLIENT_MAX_RETRIES)
max_attempts == 1 + (IF MAX_RETRIES < 0 THEN 0 ELSE MAX_RETRIES)

TypeOK ==
  /\ BreakerTypeOK
  /\ pc \in {"idle", "send", "backoff"}
  /\ attempt \in 0..(max_attempts - 1)
  /\ result \in {"none", "ok", "raised", "rejected"}
  /\ applied \in 0..max_attempts
  /\ core \in {"up", "down"}

Init ==
  /\ BreakerInit
  /\ pc = "idle"
  /\ attempt = 0
  /\ result = "none"
  /\ applied = 0
  /\ core \in {"up", "down"}

-----------------------------------------------------------------------------
End(r) == pc' = "idle" /\ result' = r

\* CircuitOpenError, before a socket is opened.
Reject ==
  /\ pc = "idle"
  /\ ~Admits
  /\ End("rejected")
  /\ applied' = 0
  /\ UNCHANGED <<breakerVars, attempt, core>>

Begin ==
  /\ pc = "idle"
  /\ Allow
  /\ pc' = "send"
  /\ attempt' = 0
  /\ result' = "none"
  /\ applied' = 0
  /\ UNCHANGED core

\* A 2xx answer.  The breaker hears of the success before resp.json() runs,
\* and a body that is not JSON raises a non-transient error out of the call.
Succeed ==
  /\ pc = "send"
  /\ core = "up"
  /\ RecordSuccess
  /\ applied' = applied + 1
  /\ \E r \in {"ok", "raised"} : End(r)
  /\ UNCHANGED <<attempt, core>>

\* A 4xx other than 429: re-raised at once, unknown to the breaker.
FailPermanent ==
  /\ pc = "send"
  /\ core = "up"
  /\ End("raised")
  /\ UNCHANGED <<breakerVars, attempt, applied, core>>

\* Broken: one retry too many.
BrokenMoreAttempts == attempt + 1 <= max_attempts

\* Does another attempt follow a transient failure of this one?
MoreAttempts == attempt + 1 < max_attempts

\* Broken: after the last attempt the loop falls through instead of raising.
BrokenFailTransient ==
  /\ pc = "send"
  /\ core = "down"
  /\ \E n \in {0, 1} : applied' = applied + n
  /\ RecordFailure
  /\ IF MoreAttempts THEN pc' = "backoff" /\ UNCHANGED result ELSE End("ok")
  /\ UNCHANGED <<attempt, core>>

\* A transient failure.  lingo-core may have applied a request whose answer
\* was lost.
FailTransient ==
  /\ pc = "send"
  /\ core = "down"
  /\ \E n \in {0, 1} : applied' = applied + n
  /\ RecordFailure
  /\ IF MoreAttempts THEN pc' = "backoff" /\ UNCHANGED result ELSE End("raised")
  /\ UNCHANGED <<attempt, core>>

\* time.sleep(delay) returns and the loop sends again, breaker unasked.
Resume ==
  /\ pc = "backoff"
  /\ pc' = "send"
  /\ attempt' = attempt + 1
  /\ UNCHANGED <<breakerVars, result, applied, core>>

Request == Reject \/ Begin \/ Succeed \/ FailPermanent \/ FailTransient \/ Resume

Clock == Tick /\ UNCHANGED <<pc, attempt, result, applied, core>>

CoreFlips ==
  /\ core' = IF core = "up" THEN "down" ELSE "up"
  /\ UNCHANGED <<breakerVars, pc, attempt, result, applied>>

Next == Request \/ Clock \/ CoreFlips

Spec == Init /\ [][Next]_vars

\* Time passes, and the worker always has another event that needs a call.
\* Nothing is assumed of lingo-core.
FairSpec == Spec /\ WF_vars(Request) /\ WF_vars(Clock)

-----------------------------------------------------------------------------
\* The breaker is CLOSED exactly while fewer than threshold failures are on
\* the books: a breaker that reopens, half-opens or is hit by late retries
\* never loses track of why it is open (circuit_breaker.py record_failure).
ClosedIffUnderThreshold == state = CLOSED <=> failures < threshold

\* Only an admitted request reaches lingo-core.  A send under an OPEN breaker
\* is the retry of a request admitted before it opened, and a send under a
\* HALF_OPEN breaker is the first attempt of its request.
AdmissionRespected ==
  /\ pc = "send" /\ state = OPEN => attempt >= 1
  /\ pc # "idle" /\ state = HALF_OPEN => pc = "send" /\ attempt = 0

\* What the handlers see of a call: its retries, its backoffs and the breaker
\* are hidden, and the attempts counted together.
CallSeen ==
  INSTANCE RemoteCall WITH
    Attempts <- max_attempts,
    calling <- pc # "idle",
    outcome <- [applied |-> IF pc = "idle" THEN applied ELSE 0,
                ok |-> pc = "idle" /\ result = "ok"]

\* A call that returned was applied, one that raised may have been, up to once
\* per attempt, and one the breaker rejected was not: this is all AsyncWorker
\* assumes of a callback (xp_awarded.py:40-51, lingo_core_client.py _request).
ImplementsCall == CallSeen!Spec

\* An outage that ends is forgotten: once lingo-core stays up the breaker
\* eventually stops rejecting for good.
RecoversAfterOutage == <>[](core = "up") => <>[](state # OPEN)

\* However long the outage, lingo-core is asked again and again.
ProbesKeepComing == []<>(pc = "send")
=============================================================================
