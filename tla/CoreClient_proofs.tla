------------------------- MODULE CoreClient_proofs -------------------------
(***************************************************************************)
(* The safety properties of CoreClient, for every threshold, cooldown and  *)
(* number of retries (non-positive settings included).                     *)
(***************************************************************************)
EXTENDS CoreClient, TLAPS

\* What the loop knows between two of its steps: how many answers it has
\* seen, and that it only sleeps when another attempt follows and after a
\* failure, which a HALF_OPEN breaker does not survive.
LoopInv ==
  /\ pc = "send" => applied <= attempt /\ result = "none"
  /\ pc = "backoff" =>
       /\ applied <= attempt + 1 /\ result = "none"
       /\ attempt + 1 < max_attempts
       /\ state # HALF_OPEN

IInv ==
  /\ TypeOK
  /\ LoopInv
  /\ ClosedIffUnderThreshold
  /\ AdmissionRespected

\* The derived limits are positive whatever the settings say.
LEMMA Limits ==
  /\ threshold \in Nat /\ threshold >= 1
  /\ max_attempts \in Nat /\ max_attempts >= 1
  /\ FailureCap = threshold + 1
  /\ COOLDOWN \in Nat
BY BreakerAssumption, RetriesAssumption DEF threshold, max_attempts, FailureCap

LEMMA InitInv == Init => IInv
BY Limits DEF Init, BreakerInit, IInv, TypeOK, BreakerTypeOK, LoopInv, ClosedIffUnderThreshold,
   AdmissionRespected, CLOSED, OPEN, HALF_OPEN

\* One more failure keeps the breaker's books: a breaker that is not CLOSED
\* has at least threshold failures on them, so it trips, and a CLOSED one
\* trips exactly when it reaches the threshold.
LEMMA FailureKeepsBooks ==
  ASSUME BreakerTypeOK, ClosedIffUnderThreshold, RecordFailure
  PROVE  BreakerTypeOK' /\ ClosedIffUnderThreshold' /\ state' # HALF_OPEN
<1>1. failures' = Bump(failures) /\ failures' \in 0..FailureCap /\ failures' > 0
  BY Limits DEF RecordFailure, Bump, BreakerTypeOK
<1>2. CASE Trips(failures')
  <2>1. state' = OPEN /\ elapsed' = 0
    BY <1>2 DEF RecordFailure
  <2>2. failures' >= threshold
    BY <1>1, <1>2, Limits
    DEF Trips, Bump, BreakerTypeOK, ClosedIffUnderThreshold, CLOSED, HALF_OPEN
  <2> QED
    BY <1>1, <2>1, <2>2, Limits
    DEF BreakerTypeOK, ClosedIffUnderThreshold, CLOSED, OPEN, HALF_OPEN
<1>3. CASE ~Trips(failures')
  <2>1. state # HALF_OPEN /\ failures' < threshold
    BY <1>1, <1>3, Limits DEF Trips
  <2>2. failures < threshold
    BY <1>1, <2>1, Limits DEF Bump, BreakerTypeOK
  <2>3. state' = state /\ elapsed' = elapsed
    BY <1>3 DEF RecordFailure
  <2> QED
    BY <1>1, <2>1, <2>2, <2>3
    DEF BreakerTypeOK, ClosedIffUnderThreshold, CLOSED, HALF_OPEN
<1> QED
  BY <1>2, <1>3

LEMMA NextInv == IInv /\ [Next]_vars => IInv'
<1> SUFFICES ASSUME IInv, [Next]_vars PROVE IInv'
  OBVIOUS
<1> USE Limits DEF IInv, TypeOK, LoopInv, ClosedIffUnderThreshold, AdmissionRespected
<1>1. CASE Reject
  BY <1>1 DEF Reject, End, breakerVars, BreakerTypeOK
<1>2. CASE Begin
  BY <1>2 DEF Begin, Allow, BreakerTypeOK, CLOSED, OPEN, HALF_OPEN
<1>3. CASE Succeed
  <2>1. /\ pc' = "idle" /\ result' \in {"ok", "raised"}
        /\ applied' \in 1..max_attempts
        /\ attempt' = attempt /\ core' = core
    BY <1>3 DEF Succeed, End
  <2>2. BreakerTypeOK' /\ ClosedIffUnderThreshold'
    BY <1>3 DEF Succeed, RecordSuccess, BreakerTypeOK, CLOSED, OPEN, HALF_OPEN
  <2> QED
    BY <2>1, <2>2
<1>4. CASE FailPermanent
  BY <1>4 DEF FailPermanent, End, breakerVars, BreakerTypeOK
<1>5. CASE FailTransient
  <2>1. BreakerTypeOK' /\ ClosedIffUnderThreshold' /\ state' # HALF_OPEN
    BY <1>5, FailureKeepsBooks DEF FailTransient
  <2>2. /\ pc = "send" /\ result = "none" /\ attempt' = attempt /\ core' = core
        /\ applied' \in 0..max_attempts /\ applied' <= attempt' + 1
    BY <1>5 DEF FailTransient
  <2>3. CASE MoreAttempts
    <3>1. pc' = "backoff" /\ result' = "none" /\ attempt' + 1 < max_attempts
      BY <1>5, <2>2, <2>3 DEF FailTransient, MoreAttempts
    <3> QED
      BY <2>1, <2>2, <3>1
  <2>4. CASE ~MoreAttempts
    <3>1. pc' = "idle" /\ result' = "raised"
      BY <1>5, <2>4 DEF FailTransient, End
    <3> QED
      BY <2>1, <2>2, <3>1
  <2> QED
    BY <2>3, <2>4
<1>6. CASE Resume
  BY <1>6 DEF Resume, breakerVars, BreakerTypeOK
<1>7. CASE Clock
  BY <1>7 DEF Clock, Tick, BreakerTypeOK
<1>8. CASE CoreFlips
  BY <1>8 DEF CoreFlips, breakerVars, BreakerTypeOK
<1>9. CASE UNCHANGED vars
  BY <1>9 DEF vars, breakerVars, BreakerTypeOK
<1> QED
  BY <1>1, <1>2, <1>3, <1>4, <1>5, <1>6, <1>7, <1>8, <1>9 DEF Next, Request

LEMMA Inductive == Spec => []IInv
<1>1. Init => IInv
  BY InitInv
<1>2. IInv /\ [Next]_vars => IInv'
  BY NextInv
<1> QED
  BY <1>1, <1>2, PTL DEF Spec

-----------------------------------------------------------------------------
\* Every value _request and the breaker store stays in its range: in
\* particular the loop never makes more than max_attempts calls.
THEOREM TypeCorrect == Spec => []TypeOK
<1>1. IInv => TypeOK
  BY DEF IInv
<1> QED
  BY <1>1, Inductive, PTL

\* The breaker is CLOSED exactly while fewer than threshold failures are on
\* its books (circuit_breaker.py, allow, record_success and record_failure).
THEOREM BooksAgree == Spec => []ClosedIffUnderThreshold
<1>1. IInv => ClosedIffUnderThreshold
  BY DEF IInv
<1> QED
  BY <1>1, Inductive, PTL

\* A send under an OPEN breaker is a retry, one under a HALF_OPEN breaker is
\* the first attempt of its request.
THEOREM SendsAreAdmitted == Spec => []AdmissionRespected
<1>1. IInv => AdmissionRespected
  BY DEF IInv
<1> QED
  BY <1>1, Inductive, PTL

-----------------------------------------------------------------------------
(* The handlers' view of a call.                                           *)

\* A call that ended with applied uses obeys the contract of CoreCall.
LEMMA OutcomeIntro ==
  ASSUME NEW n \in Nat, NEW r, n <= max_attempts, r = "ok" => n >= 1
  PROVE  [applied |-> n, ok |-> r = "ok"] \in CallOutcomes(max_attempts)
<1> DEFINE o == [applied |-> n, ok |-> r = "ok"]
<1>1. n \in 0..max_attempts
  BY Limits
<1>2. o \in [applied : 0..max_attempts, ok : BOOLEAN]
  BY <1>1, Zenon
<1>3. o.ok => o.applied >= 1
  <2>1. o.ok => r = "ok"
    BY Zenon
  <2>2. o.applied = n
    OBVIOUS
  <2> QED
    BY <2>1, <2>2
<1> QED
  BY <1>2, <1>3, Zenon DEF CallOutcomes

\* A step that ends a request returns a call with one of its outcomes.
LEMMA EndReturns ==
  ASSUME IInv, pc = "send", pc' = "idle", applied' \in 0..max_attempts,
         result' = "ok" => applied' >= 1
  PROVE  CallSeen!Return
<1>1. [applied |-> applied', ok |-> result' = "ok"] \in CallOutcomes(max_attempts)
  BY OutcomeIntro, Limits
<1>2. [applied |-> IF pc' = "idle" THEN applied' ELSE 0,
       ok |-> pc' = "idle" /\ result' = "ok"]
        = [applied |-> applied', ok |-> result' = "ok"]
  OBVIOUS
<1> QED
  BY <1>1, <1>2, Zenon DEF CallSeen!Return, CallSeen!CallOutcomes, CallOutcomes

LEMMA StepSeen == IInv /\ [Next]_vars => [CallSeen!Next]_(CallSeen!vars)
<1> SUFFICES ASSUME IInv, [Next]_vars PROVE CallSeen!Next \/ UNCHANGED CallSeen!vars
  OBVIOUS
<1> USE DEF IInv, TypeOK, LoopInv
<1>1. CASE Reject
  BY <1>1 DEF Reject, End, CallSeen!Next, CallSeen!Refuse, CallSeen!NotApplied
<1>2. CASE Begin
  BY <1>2 DEF Begin, CallSeen!Next, CallSeen!Call, CallSeen!NotApplied
<1>3. CASE Succeed
  <2>1. applied' \in 1..max_attempts /\ pc = "send" /\ pc' = "idle"
    BY <1>3, Limits DEF Succeed, End
  <2> QED
    BY <2>1, EndReturns, Limits DEF CallSeen!Next
<1>4. CASE FailPermanent
  BY <1>4, EndReturns DEF FailPermanent, End, CallSeen!Next
<1>5. CASE FailTransient
  <2>1. pc = "send" /\ applied' \in 0..max_attempts
    BY <1>5, Limits DEF FailTransient
  <2>2. CASE MoreAttempts
    BY <1>5, <2>1, <2>2 DEF FailTransient, CallSeen!vars
  <2>3. CASE ~MoreAttempts
    BY <1>5, <2>1, <2>3, EndReturns DEF FailTransient, End, CallSeen!Next
  <2> QED
    BY <2>2, <2>3
<1>6. CASE Resume
  BY <1>6 DEF Resume, CallSeen!vars
<1>7. CASE Clock \/ CoreFlips \/ UNCHANGED vars
  BY <1>7 DEF Clock, CoreFlips, vars, CallSeen!vars
<1> QED
  BY <1>1, <1>2, <1>3, <1>4, <1>5, <1>6, <1>7 DEF Next, Request

\* What a finished call tells its caller is all the truth AsyncWorker builds
\* on, for every threshold, cooldown and number of retries
\* (lingo_core_client.py, _request).
THEOREM Refinement == Spec => ImplementsCall
<1>1. Init => CallSeen!Init
  BY DEF Init, CallSeen!Init, CallSeen!NotApplied
<1> QED
  BY <1>1, StepSeen, Inductive, PTL DEF Spec, ImplementsCall, CallSeen!Spec

-----------------------------------------------------------------------------
(* Towards liveness.                                                       *)

\* The steps that a request in progress has left, at most.
StepsLeft ==
  IF pc = "idle" THEN 0 ELSE 2 * (max_attempts - attempt) - (IF pc = "backoff" THEN 1 ELSE 0)

\* A request takes 2 * max_attempts steps and no more, one for each attempt and
\* each backoff and one to begin, whatever lingo-core and the clock do between
\* them: with the fairness of Request, none is retried for ever.
THEOREM RequestsRunDown ==
  Spec => [][/\ Begin => StepsLeft' = 2 * max_attempts
             /\ pc # "idle" /\ Request => StepsLeft' < StepsLeft /\ StepsLeft' >= 0
             /\ Clock \/ CoreFlips => StepsLeft' = StepsLeft]_vars
<1> DEFINE Step == /\ Begin => StepsLeft' = 2 * max_attempts
                   /\ pc # "idle" /\ Request => StepsLeft' < StepsLeft /\ StepsLeft' >= 0
                   /\ Clock \/ CoreFlips => StepsLeft' = StepsLeft
<1>1. ASSUME IInv PROVE Step
  <2>1. attempt \in Nat /\ attempt < max_attempts /\ max_attempts \in Nat
    BY <1>1, Limits DEF IInv, TypeOK
  <2>2. Begin => StepsLeft' = 2 * max_attempts
    BY <2>1 DEF Begin, StepsLeft, max_attempts
  <2>3. Clock \/ CoreFlips => StepsLeft' = StepsLeft
    BY DEF Clock, CoreFlips, StepsLeft, max_attempts
  <2>4. Resume => StepsLeft' < StepsLeft /\ StepsLeft' >= 0
    <3> SUFFICES ASSUME Resume PROVE StepsLeft' < StepsLeft /\ StepsLeft' >= 0
      OBVIOUS
    <3>1. attempt + 1 < max_attempts /\ max_attempts' = max_attempts
      BY <1>1 DEF Resume, IInv, LoopInv, max_attempts
    <3> QED
      BY <2>1, <3>1 DEF Resume, StepsLeft
  <2>5. Succeed \/ FailPermanent => StepsLeft' < StepsLeft /\ StepsLeft' >= 0
    BY <2>1 DEF Succeed, FailPermanent, End, StepsLeft
  <2>6. FailTransient => StepsLeft' < StepsLeft /\ StepsLeft' >= 0
    <3>1. max_attempts' = max_attempts
      BY DEF max_attempts
    <3> QED
      BY <2>1, <3>1 DEF FailTransient, End, StepsLeft
  <2> QED
    BY <2>2, <2>3, <2>4, <2>5, <2>6 DEF Request, Reject, Begin
<1>2. IInv /\ [Next]_vars => [Step]_vars
  BY <1>1
<1> QED
  BY <1>2, Inductive, PTL DEF Spec

\* A breaker that is not open under a lingo-core that is up stays so: 4xx
\* answers, which it never hears of, do not open it.
LEMMA UpNeverOpens ==
  ASSUME [Next]_vars, core = "up", state # OPEN
  PROVE  state' # OPEN
BY DEF Next, Request, Reject, Begin, Allow, Succeed, RecordSuccess, FailPermanent, FailTransient,
   Resume, Clock, Tick, CoreFlips, vars, breakerVars, CLOSED, OPEN, HALF_OPEN

\* A request begins under a breaker that is not open any more.
LEMMA BeginHalfOpens ==
  ASSUME [Next]_vars, pc = "idle", pc' # "idle"
  PROVE  state' # OPEN
BY DEF Next, Request, Reject, Begin, Allow, End, Succeed, FailPermanent, FailTransient,
   Resume, Clock, CoreFlips, vars, OPEN, HALF_OPEN

\* The breaker recovers for good by the first request that begins after the
\* outage, so that nothing is needed for it but that requests end and that
\* others follow: ProbesKeepComing is the half of recovery that needs time.
THEOREM ProbesRecover ==
  Spec => (ProbesKeepComing /\ []<>(pc = "idle") => RecoversAfterOutage)
<1>1. [Next]_vars /\ core = "up" /\ state # OPEN => (state # OPEN)'
  BY UpNeverOpens
<1>2. [Next]_vars /\ pc = "idle" /\ ~(pc = "idle")' => (state # OPEN)'
  BY BeginHalfOpens
<1>3. pc = "send" => ~(pc = "idle")
  OBVIOUS
<1> QED
  BY <1>1, <1>2, <1>3, PTL DEF Spec, ProbesKeepComing, RecoversAfterOutage
=============================================================================
