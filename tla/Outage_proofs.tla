---------------------------- MODULE Outage_proofs ----------------------------
(***************************************************************************)
(* The safety properties of Outage for every number of messages and every  *)
(* setting whose visibility timeout covers an invocation and a cooldown;   *)
(* which messages survive, and how long an invocation lasts.               *)
(***************************************************************************)
EXTENDS Outage, FiniteSetTheorems, TLAPS

\* The ticks that n deliveries of a message take.
Span(n) == n * VISIBILITY

-----------------------------------------------------------------------------
(* The inductive invariant.                                                *)

\* An invocation's records and their visibility timeouts.
BatchInv ==
  /\ pc = "idle" => batch = {} /\ spent = 0
  /\ pc = "send" => cur \in batch /\ cur \notin todo /\ untested = {}
  /\ pc # "send" => cur = None /\ ~hung
  /\ \A m \in batch :
       fate[m] = "queued" /\ receives[m] >= 1 /\ timer[m] + spent >= VISIBILITY

\* Nothing goes wrong before the outage.
CalmInv ==
  phase = "before" =>
    /\ state = CLOSED /\ failed = {} /\ spent = 0 /\ ~hung
    /\ \A m \in Messages : fate[m] = "queued" /\ receives[m] >= 1 => m \in batch

\* The cooldown of an open breaker ends before m is visible.
CoolsFirst(m) == state = OPEN => elapsed + timer[m] >= COOLDOWN

RejectInv == \A m \in untested : CoolsFirst(m)

\* A message that failed after the outage will not fail again.
LateInv ==
  \A m \in Messages :
    /\ late[m] <= 1
    /\ late[m] = 1 => phase = "after" /\ ~hung
    /\ late[m] = 1 /\ m \notin batch => CoolsFirst(m)
    /\ late[m] = 1 /\ m \in batch => Admits /\ spent < LAMBDA_TIMEOUT /\ m \notin failed

\* What the clock has run since the request under way was sent.
Overtime == IF waited THEN 1 ELSE 0

\* A delivery that fails begins within the outage or within a request timeout
\* and the cooldown after it, so that all deliveries before it fit into those.
SpanInv ==
  \A m \in Messages :
    /\ phase # "after" /\ fate[m] = "queued" /\ receives[m] >= 1 =>
         outage + timer[m] >= Span(receives[m])
    /\ phase = "after" /\ fate[m] = "queued" /\ receives[m] >= 1
       /\ m \notin batch /\ hung =>
         outage + Overtime + timer[m] >= Span(receives[m])
    /\ phase = "after" /\ fate[m] = "queued" /\ receives[m] >= 1
       /\ m \notin batch /\ late[m] = 0 /\ ~Admits =>
         outage + 1 + elapsed + timer[m] >= Span(receives[m])
    /\ phase = "after" /\ m \in batch
       /\ (hung \/ m \in failed \/ ~Admits \/ spent = LAMBDA_TIMEOUT) =>
         outage + 1 + COOLDOWN > Span(receives[m] - 1)
    /\ fate[m] # "done" /\ receives[m] >= 1 /\ m \notin batch =>
         outage + 1 + COOLDOWN > Span(receives[m] - 1)

DeadInv == \A m \in Messages : fate[m] = "dead" => receives[m] = MaxReceive

IInv == TypeOK /\ BatchInv /\ CalmInv /\ RejectInv /\ LateInv /\ SpanInv /\ DeadInv

-----------------------------------------------------------------------------
(* Constants and the breaker.                                              *)

LEMMA Constants ==
  /\ threshold \in Nat /\ threshold >= 1 /\ FailureCap = threshold + 1
  /\ COOLDOWN \in Nat /\ COOLDOWN >= 1
  /\ LAMBDA_TIMEOUT \in Nat /\ LAMBDA_TIMEOUT >= 1
  /\ VISIBILITY \in Nat /\ VISIBILITY >= LAMBDA_TIMEOUT + COOLDOWN
  /\ MaxReceive \in Nat /\ MaxReceive >= 1 /\ MaxOutage \in Nat
  /\ MAX_ATTEMPTS \in Nat /\ MAX_ATTEMPTS >= 1
  /\ None \notin Messages
  /\ CLOSED # OPEN /\ CLOSED # HALF_OPEN /\ OPEN # HALF_OPEN
BY BreakerAssumption, OutageAssumption DEF threshold, FailureCap, CLOSED, OPEN, HALF_OPEN

LEMMA Spans ==
  /\ Span(0) = 0
  /\ \A n \in Nat : Span(n) \in Nat /\ Span(n + 1) = Span(n) + VISIBILITY
<1>1. VISIBILITY \in Nat
  BY Constants
<1>2. 0 * VISIBILITY = 0
  BY <1>1
<1>3. ASSUME NEW n \in Nat
      PROVE  n * VISIBILITY \in Nat /\ (n + 1) * VISIBILITY = n * VISIBILITY + VISIBILITY
  BY <1>1
<1> QED
  BY <1>2, <1>3 DEF Span

LEMMA BreakerSteps ==
  ASSUME BreakerTypeOK
  PROVE  /\ Allow => /\ BreakerTypeOK' /\ elapsed' = elapsed /\ state' # OPEN /\ Admits'
                     /\ (state = CLOSED => state' = CLOSED)
         /\ RecordSuccess => BreakerTypeOK' /\ state' = CLOSED
         /\ RecordFailure => BreakerTypeOK'
         /\ Tick => /\ BreakerTypeOK' /\ state' = state /\ elapsed' = elapsed + 1
                    /\ state = OPEN /\ elapsed < COOLDOWN
<1>1. Allow => /\ BreakerTypeOK' /\ elapsed' = elapsed /\ state' # OPEN /\ Admits'
               /\ (state = CLOSED => state' = CLOSED)
  BY Constants DEF BreakerTypeOK, Allow, Admits
<1>2. RecordSuccess => BreakerTypeOK' /\ state' = CLOSED
  BY Constants DEF BreakerTypeOK, RecordSuccess
<1>3. RecordFailure => BreakerTypeOK'
  <2> SUFFICES ASSUME RecordFailure PROVE BreakerTypeOK'
    OBVIOUS
  <2>1. failures' \in 0..FailureCap
    BY Constants DEF BreakerTypeOK, RecordFailure, Bump
  <2>2. state' \in {CLOSED, OPEN, HALF_OPEN} /\ elapsed' \in 0..COOLDOWN
    BY Constants DEF BreakerTypeOK, RecordFailure
  <2> QED
    BY <2>1, <2>2 DEF BreakerTypeOK
<1>4. Tick => /\ BreakerTypeOK' /\ state' = state /\ elapsed' = elapsed + 1
              /\ state = OPEN /\ elapsed < COOLDOWN
  BY Constants DEF BreakerTypeOK, Tick
<1> QED
  BY <1>1, <1>2, <1>3, <1>4

\* The types, one variable at a time.
LEMMA Types ==
  ASSUME TypeOK
  PROVE  /\ BreakerTypeOK /\ elapsed \in Nat /\ elapsed <= COOLDOWN
         /\ outage \in Nat /\ spent \in Nat /\ spent <= LAMBDA_TIMEOUT
         /\ core = "up" <=> phase # "during"
         /\ \A m \in Messages : /\ timer[m] \in Nat /\ timer[m] <= VISIBILITY
                                /\ receives[m] \in Nat /\ receives[m] <= MaxReceive
                                /\ late[m] \in Nat
                                /\ fate[m] \in {"queued", "done", "dead"}
BY Constants DEF TypeOK, BreakerTypeOK

LEMMA InitInv == Init => IInv
<1> SUFFICES ASSUME Init PROVE IInv
  OBVIOUS
<1>1. TypeOK
  <2>1. BreakerTypeOK
    BY Constants DEF Init, BreakerInit, BreakerTypeOK
  <2>2. /\ fate \in [Messages -> {"queued", "done", "dead"}]
        /\ timer \in [Messages -> 0..VISIBILITY]
        /\ receives \in [Messages -> 0..MaxReceive]
        /\ late \in [Messages -> Nat]
    BY Constants DEF Init
  <2>3. 0 \in 0..MaxOutage /\ 0 \in 0..(MAX_ATTEMPTS - 1) /\ 0 \in 0..LAMBDA_TIMEOUT
    BY Constants
  <2> QED
    BY <2>1, <2>2, <2>3 DEF Init, TypeOK
<1>2. BatchInv /\ CalmInv /\ RejectInv /\ LateInv /\ SpanInv /\ DeadInv
  BY Constants DEF Init, BreakerInit, BatchInv, CalmInv, RejectInv, LateInv, SpanInv, Overtime, DeadInv
<1> QED
  BY <1>1, <1>2 DEF IInv

-----------------------------------------------------------------------------
(* One lemma per action.                                                   *)

LEMMA DeliverInv == ASSUME IInv, NEW B \in SUBSET Messages, Deliver(B) PROVE IInv'
<1> USE Constants
<1>0. TypeOK /\ BatchInv /\ CalmInv /\ RejectInv /\ LateInv /\ SpanInv /\ DeadInv
  BY DEF IInv
<1>1. /\ \A m \in Messages : receives'[m] = receives[m] + (IF m \in B THEN 1 ELSE 0)
      /\ \A m \in Messages : timer'[m] = IF m \in B THEN VISIBILITY ELSE timer[m]
      /\ \A m \in B : m \in Messages /\ fate[m] = "queued" /\ timer[m] = 0
                      /\ receives[m] < MaxReceive
      /\ batch = {} /\ batch' = B /\ todo' = B /\ failed' = {}
      /\ pc' = "next" /\ pc = "idle" /\ spent' = 0 /\ spent = 0
      /\ UNCHANGED <<breakerVars, world, call, fate, untested, late>>
  BY <1>0 DEF Deliver, BatchInv, Visible, TypeOK
<1>2. /\ state' = state /\ elapsed' = elapsed /\ failures' = failures
      /\ core' = core /\ phase' = phase /\ outage' = outage
      /\ cur' = cur /\ attempt' = attempt /\ waited' = waited /\ hung' = hung
      /\ fate' = fate /\ untested' = untested /\ late' = late
  BY <1>1 DEF breakerVars, world, call
<1>3. TypeOK'
  <2>1. receives' \in [Messages -> 0..MaxReceive]
    BY <1>0, <1>1 DEF TypeOK, Deliver
  <2>2. timer' \in [Messages -> 0..VISIBILITY]
    BY <1>0, <1>1 DEF TypeOK, Deliver
  <2>3. cur = None
    BY <1>0, <1>1 DEF BatchInv
  <2> QED
    BY <1>0, <1>1, <1>2, <2>1, <2>2, <2>3 DEF TypeOK, BreakerTypeOK
<1>4. BatchInv'
  BY <1>0, <1>1, <1>2, Types DEF BatchInv
<1>5. CalmInv'
  BY <1>0, <1>1, <1>2, Types DEF CalmInv
<1>6. RejectInv'
  BY <1>0, <1>1, <1>2, Types DEF RejectInv, CoolsFirst, TypeOK
<1>7. LateInv'
  BY <1>0, <1>1, <1>2, Types DEF LateInv, CoolsFirst, Admits, CooldownOver
<1>8. SpanInv'
  <2> SUFFICES ASSUME NEW m \in Messages
               PROVE  /\ phase' # "after" /\ fate'[m] = "queued" /\ receives'[m] >= 1 =>
                           outage' + timer'[m] >= Span(receives'[m])
                      /\ phase' = "after" /\ fate'[m] = "queued" /\ receives'[m] >= 1
                         /\ m \notin batch' /\ hung' =>
                           outage' + Overtime' + timer'[m] >= Span(receives'[m])
                      /\ phase' = "after" /\ fate'[m] = "queued" /\ receives'[m] >= 1
                         /\ m \notin batch' /\ late'[m] = 0 /\ ~(Admits') =>
                           outage' + 1 + elapsed' + timer'[m] >= Span(receives'[m])
                      /\ phase' = "after" /\ m \in batch'
                         /\ (hung' \/ m \in failed' \/ ~(Admits') \/ spent' = LAMBDA_TIMEOUT) =>
                           outage' + 1 + COOLDOWN > Span(receives'[m] - 1)
                      /\ fate'[m] # "done" /\ receives'[m] >= 1 /\ m \notin batch' =>
                           outage' + 1 + COOLDOWN > Span(receives'[m] - 1)
    BY DEF SpanInv
  <2>1. Admits' <=> Admits
    BY <1>2 DEF Admits, CooldownOver
  <2>2. CASE m \notin B
    BY <1>0, <1>1, <1>2, <2>1, <2>2, Types DEF SpanInv, Overtime
  <2>3. CASE m \in B
    <3>1. /\ receives'[m] = receives[m] + 1 /\ timer'[m] = VISIBILITY /\ receives[m] \in Nat
          /\ Span(receives'[m]) = Span(receives[m]) + VISIBILITY
          /\ Span(receives[m]) \in Nat /\ receives'[m] - 1 = receives[m]
      BY <1>1, <2>3, <1>0, Types, Spans
    <3>2. phase # "after" => outage >= Span(receives[m])
      BY <1>0, <1>1, <2>3, <3>1, Types, Spans DEF SpanInv, Overtime
    <3>3. phase = "after" /\ ~Admits => outage + 1 + COOLDOWN > Span(receives[m])
      <4>1. ~Admits => state = OPEN /\ elapsed < COOLDOWN
        BY <1>0, Types DEF Admits, CooldownOver
      <4>2. ~Admits => late[m] = 0
        BY <1>0, <1>1, <2>3, <4>1, Types DEF LateInv, CoolsFirst
      <4>3. CASE receives[m] = 0
        BY <4>3, <1>0, Types, Spans
      <4>4. CASE receives[m] >= 1
        BY <4>1, <4>2, <4>4, <1>0, <1>1, <2>3, <3>1, Types DEF SpanInv, Overtime
      <4> QED
        BY <3>1, <4>3, <4>4
    <3>4. ~hung' /\ m \notin failed' /\ spent' # LAMBDA_TIMEOUT /\ m \in batch'
      BY <1>0, <1>1, <1>2, <2>3 DEF BatchInv
    <3> QED
      BY <1>0, <1>1, <1>2, <2>1, <2>3, <3>1, <3>2, <3>3, <3>4, Types
  <2> QED
    BY <2>2, <2>3
<1>9. DeadInv'
  BY <1>0, <1>1, <1>2, Types DEF DeadInv
<1> QED
  BY <1>3, <1>4, <1>5, <1>6, <1>7, <1>8, <1>9 DEF IInv

LEMMA DeadLetterInv == ASSUME IInv, NEW m \in Messages, DeadLetter(m) PROVE IInv'
<1> USE Constants
<1>0. TypeOK /\ BatchInv /\ CalmInv /\ RejectInv /\ LateInv /\ SpanInv /\ DeadInv
  BY DEF IInv
<1>1. /\ state' = state /\ elapsed' = elapsed /\ failures' = failures
      /\ core' = core /\ phase' = phase /\ outage' = outage
      /\ pc' = pc /\ batch' = batch /\ todo' = todo /\ failed' = failed /\ spent' = spent
      /\ cur' = cur /\ attempt' = attempt /\ waited' = waited /\ hung' = hung
      /\ timer' = timer /\ receives' = receives /\ untested' = untested /\ late' = late
      /\ fate[m] = "queued" /\ timer[m] = 0 /\ receives[m] = MaxReceive
      /\ fate'[m] = "dead" /\ \A n \in Messages : n # m => fate'[n] = fate[n]
      /\ fate' \in [Messages -> {"queued", "done", "dead"}]
  BY <1>0 DEF DeadLetter, breakerVars, world, call, Visible, TypeOK
<1>2. m \notin batch
  BY <1>0, <1>1, Types DEF BatchInv
<1>3. TypeOK'
  BY <1>0, <1>1 DEF TypeOK, BreakerTypeOK
<1>4. BatchInv'
  BY <1>0, <1>1, <1>2 DEF BatchInv, TypeOK
<1>5. CalmInv' /\ RejectInv' /\ DeadInv'
  BY <1>0, <1>1 DEF CalmInv, RejectInv, CoolsFirst, DeadInv
<1>6. LateInv' /\ SpanInv'
  BY <1>0, <1>1, <1>2 DEF LateInv, CoolsFirst, SpanInv, Overtime, Admits, CooldownOver
<1> QED
  BY <1>3, <1>4, <1>5, <1>6 DEF IInv

LEMMA RejectInvariant == ASSUME IInv, NEW m \in Messages, Reject(m) PROVE IInv'
<1> USE Constants
<1>0. TypeOK /\ BatchInv /\ CalmInv /\ RejectInv /\ LateInv /\ SpanInv /\ DeadInv
  BY DEF IInv
<1>1. /\ state' = state /\ elapsed' = elapsed /\ failures' = failures
      /\ core' = core /\ phase' = phase /\ outage' = outage
      /\ pc' = pc /\ batch' = batch /\ spent' = spent
      /\ cur' = cur /\ attempt' = attempt /\ waited' = waited /\ hung' = hung
      /\ fate' = fate /\ timer' = timer /\ receives' = receives /\ late' = late
      /\ pc = "next" /\ spent < LAMBDA_TIMEOUT /\ m \in todo /\ ~Admits
      /\ todo' = todo \ {m} /\ failed' = failed \cup {m} /\ untested' = untested \cup {m}
  BY DEF Reject, Running, breakerVars, world, call, queue
<1>2. state = OPEN /\ m \in batch
  BY <1>0, <1>1 DEF Admits, TypeOK
<1>3. TypeOK'
  BY <1>0, <1>1, <1>2 DEF TypeOK, BreakerTypeOK
<1>4. BatchInv'
  BY <1>0, <1>1 DEF BatchInv
<1>5. CalmInv' /\ DeadInv'
  BY <1>0, <1>1, <1>2 DEF CalmInv, DeadInv
<1>6. RejectInv'
  BY <1>0, <1>1, <1>2, Types DEF RejectInv, CoolsFirst, BatchInv
<1>7. LateInv'
  BY <1>0, <1>1, <1>2 DEF LateInv, CoolsFirst, Admits, CooldownOver
<1>8. SpanInv'
  BY <1>0, <1>1, <1>2 DEF SpanInv, Overtime, Admits, CooldownOver
<1> QED
  BY <1>3, <1>4, <1>5, <1>6, <1>7, <1>8 DEF IInv

LEMMA BeginInv == ASSUME IInv, NEW m \in Messages, Begin(m) PROVE IInv'
<1> USE Constants
<1>0. TypeOK /\ BatchInv /\ CalmInv /\ RejectInv /\ LateInv /\ SpanInv /\ DeadInv
  BY DEF IInv
<1>1. /\ core' = core /\ phase' = phase /\ outage' = outage
      /\ batch' = batch /\ failed' = failed /\ spent' = spent
      /\ fate' = fate /\ timer' = timer /\ receives' = receives /\ late' = late
      /\ m \in todo /\ todo' = todo \ {m} /\ cur' = m /\ attempt' = 0 /\ waited' = FALSE
      /\ hung' \in BOOLEAN /\ (phase # "during" => ~hung') /\ pc = "next" /\ pc' = "send" /\ untested' = {}
  BY <1>0, Types DEF Begin, world, queue
<1>2. /\ BreakerTypeOK' /\ Admits' /\ elapsed' = elapsed /\ state' # OPEN
      /\ state = CLOSED => state' = CLOSED
  <2>1. BreakerTypeOK /\ Allow
    BY <1>0 DEF Begin, TypeOK
  <2> QED
    BY <2>1, BreakerSteps
<1>3. TypeOK'
  <2>1. cur' \in batch' \cup {None} /\ 0 \in 0..(MAX_ATTEMPTS - 1)
        /\ todo' \subseteq batch' /\ failed' \subseteq batch' \ todo'
    BY <1>0, <1>1 DEF TypeOK
  <2> QED
    BY <1>0, <1>1, <1>2, <2>1 DEF TypeOK
<1>4. BatchInv'
  BY <1>0, <1>1 DEF BatchInv, TypeOK
<1>5. CalmInv' /\ DeadInv' /\ RejectInv'
  BY <1>0, <1>1, <1>2 DEF CalmInv, DeadInv, RejectInv
<1>6. LateInv'
  BY <1>0, <1>1, <1>2 DEF LateInv, CoolsFirst
<1>7. SpanInv'
  BY <1>0, <1>1, <1>2 DEF SpanInv, Overtime
<1> QED
  BY <1>3, <1>4, <1>5, <1>6, <1>7 DEF IInv

LEMMA SucceedInv == ASSUME IInv, Succeed PROVE IInv'
<1> USE Constants
<1>0. TypeOK /\ BatchInv /\ CalmInv /\ RejectInv /\ LateInv /\ SpanInv /\ DeadInv
  BY DEF IInv
<1>1. /\ core' = core /\ phase' = phase /\ outage' = outage
      /\ batch' = batch /\ todo' = todo /\ failed' = failed /\ spent' = spent
      /\ fate' = fate /\ timer' = timer /\ receives' = receives /\ late' = late
      /\ cur' = None /\ attempt' = attempt /\ waited' = waited /\ hung' = FALSE
      /\ pc = "send" /\ pc' = "next" /\ untested' = untested
  BY DEF Succeed, world, queue
<1>2. BreakerTypeOK' /\ state' = CLOSED
  BY <1>0, BreakerSteps DEF Succeed, TypeOK
<1>3. TypeOK'
  BY <1>0, <1>1, <1>2 DEF TypeOK
<1>4. BatchInv'
  BY <1>0, <1>1 DEF BatchInv
<1>5. CalmInv' /\ DeadInv' /\ RejectInv'
  BY <1>0, <1>1, <1>2 DEF CalmInv, DeadInv, RejectInv, CoolsFirst
<1>6. LateInv'
  BY <1>0, <1>1, <1>2 DEF LateInv, CoolsFirst, Admits
<1>7. SpanInv'
  BY <1>0, <1>1, <1>2 DEF SpanInv, Overtime, Admits
<1> QED
  BY <1>3, <1>4, <1>5, <1>6, <1>7 DEF IInv

LEMMA FailTransientInv == ASSUME IInv, FailTransient PROVE IInv'
<1> USE Constants
<1>0. TypeOK /\ BatchInv /\ CalmInv /\ RejectInv /\ LateInv /\ SpanInv /\ DeadInv
  BY DEF IInv
<1>1. /\ core' = core /\ phase' = phase /\ outage' = outage
      /\ batch' = batch /\ todo' = todo /\ spent' = spent
      /\ fate' = fate /\ timer' = timer /\ receives' = receives /\ late' = late
      /\ pc = "send" /\ untested' = untested /\ waited' = FALSE
      /\ hung' \in BOOLEAN /\ (phase # "during" => hung /\ waited /\ ~hung')
  BY <1>0, Types DEF FailTransient, world, queue
<1>2. /\ cur \in batch /\ cur \notin todo /\ untested = {} /\ phase # "before"
  BY <1>0, <1>1, Types DEF BatchInv, CalmInv
<1>3. \/ attempt + 1 < MAX_ATTEMPTS /\ attempt' = attempt + 1 /\ pc' = pc /\ cur' = cur
         /\ failed' = failed
      \/ /\ pc' = "next" /\ cur' = None /\ failed' = failed \cup {cur} /\ attempt' = attempt
         /\ ~hung'
  BY DEF FailTransient
<1>4. BreakerTypeOK'
  BY <1>0, BreakerSteps DEF FailTransient, TypeOK
<1>5. TypeOK'
  <2>1. attempt' \in 0..(MAX_ATTEMPTS - 1)
    BY <1>0, <1>3 DEF TypeOK
  <2>2. failed' \subseteq batch' \ todo' /\ cur' \in batch' \cup {None}
        /\ pc' \in {"idle", "next", "send"}
    BY <1>0, <1>1, <1>2, <1>3 DEF TypeOK
  <2> QED
    BY <1>0, <1>1, <1>4, <2>1, <2>2 DEF TypeOK
<1>6. BatchInv'
  <2>1. \/ pc' = "send" /\ cur' = cur
        \/ pc' = "next" /\ cur' = None /\ ~hung'
    BY <1>1, <1>3
  <2> QED
    BY <1>0, <1>1, <1>2, <2>1 DEF BatchInv
<1>7. CalmInv' /\ DeadInv' /\ RejectInv'
  BY <1>0, <1>1, <1>2 DEF CalmInv, DeadInv, RejectInv
<1>8. LateInv'
  BY <1>0, <1>1, <1>2, Types DEF LateInv
<1>9. SpanInv'
  <2>1. /\ elapsed' \in Nat
        /\ \A m \in Messages : timer[m] \in Nat /\ Span(receives[m]) \in Nat /\ outage \in Nat
    BY <1>0, <1>4, Types, Spans DEF BreakerTypeOK
  <2>2. CASE phase # "after"
    BY <1>0, <1>1, <2>2 DEF SpanInv
  \* A timeout after the outage: the records of the invocation are as they were
  \* at its end, and the cooldown of the others begins a timeout late.
  <2>3. CASE phase = "after"
    <3>1. hung /\ waited /\ ~hung'
      BY <1>1, <2>3
    <3>2. ASSUME NEW m \in Messages, m \notin batch, fate[m] = "queued", receives[m] >= 1
          PROVE  outage + 1 + timer[m] >= Span(receives[m])
      BY <1>0, <2>3, <3>1, <3>2 DEF SpanInv, Overtime
    <3>3. ASSUME NEW m \in Messages, m \notin batch, fate[m] = "queued", receives[m] >= 1
          PROVE  outage + 1 + elapsed' + timer[m] >= Span(receives[m])
      BY <2>1, <3>2, <3>3
    <3> QED
      BY <1>0, <1>1, <2>3, <3>1, <3>3 DEF SpanInv
  <2> QED
    BY <2>2, <2>3
<1> QED
  BY <1>5, <1>6, <1>7, <1>8, <1>9 DEF IInv

\* What is known of a message when its delivery fails.
LEMMA MissedInTime ==
  ASSUME IInv, NEW m \in batch, phase # "before",
         phase = "after" => m \in failed \/ ~Admits \/ spent = LAMBDA_TIMEOUT
  PROVE  outage + 1 + COOLDOWN > Span(receives[m] - 1)
<1> USE Constants
<1>1. /\ m \in Messages /\ receives[m] \in Nat /\ receives[m] >= 1 /\ fate[m] = "queued"
      /\ timer[m] \in Nat /\ timer[m] <= VISIBILITY /\ outage \in Nat
  BY Types DEF IInv, BatchInv, TypeOK
<1>2. CASE phase = "after"
  BY <1>1, <1>2 DEF IInv, SpanInv
<1>3. CASE phase # "after"
  <2>1. outage + timer[m] >= Span(receives[m])
    BY <1>1, <1>3 DEF IInv, SpanInv
  <2>2. receives[m] - 1 \in Nat /\ (receives[m] - 1) + 1 = receives[m]
    BY <1>1
  <2>3. Span(receives[m]) = Span(receives[m] - 1) + VISIBILITY /\ Span(receives[m] - 1) \in Nat
    BY <2>2, Spans
  <2> QED
    BY <1>1, <2>1, <2>3
<1> QED
  BY <1>2, <1>3

LEMMA MissCounts ==
  ASSUME IInv, NEW F \in SUBSET Messages, Miss(F)
  PROVE  /\ late' \in [Messages -> Nat]
         /\ \A m \in Messages :
              late'[m] = late[m] + (IF phase = "after" /\ m \in F THEN 1 ELSE 0)
BY DEF Miss, IInv, TypeOK

LEMMA ReturnInv == ASSUME IInv, Return PROVE IInv'
<1> USE Constants
<1>0. TypeOK /\ BatchInv /\ CalmInv /\ RejectInv /\ LateInv /\ SpanInv /\ DeadInv
  BY DEF IInv
<1>1. /\ state' = state /\ elapsed' = elapsed /\ failures' = failures
      /\ core' = core /\ phase' = phase /\ outage' = outage
      /\ batch' = {} /\ todo' = todo /\ failed' = {} /\ spent' = 0 /\ spent < LAMBDA_TIMEOUT
      /\ todo = {} /\ timer' = timer /\ receives' = receives /\ untested' = untested
      /\ cur' = cur /\ attempt' = attempt /\ waited' = waited /\ hung' = hung
      /\ pc = "next" /\ pc' = "idle" /\ ~hung
  BY <1>0 DEF BatchInv, Return, Running, breakerVars, world, call
<1>2. /\ fate' \in [Messages -> {"queued", "done", "dead"}]
      /\ \A m \in Messages : fate'[m] = IF m \in batch \ failed THEN "done" ELSE fate[m]
  BY <1>0 DEF Return, TypeOK
<1>3. failed \in SUBSET Messages /\ failed \subseteq batch
  BY <1>0 DEF TypeOK
<1>4. /\ late' \in [Messages -> Nat]
      /\ \A m \in Messages :
           late'[m] = late[m] + (IF phase = "after" /\ m \in failed THEN 1 ELSE 0)
  BY <1>3, MissCounts DEF Return
<1>5. cur = None
  BY <1>0, <1>1 DEF BatchInv
<1>6. TypeOK'
  BY <1>0, <1>1, <1>2, <1>4, <1>5 DEF TypeOK, BreakerTypeOK
<1>7. BatchInv' /\ DeadInv' /\ RejectInv'
  BY <1>0, <1>1, <1>2, <1>5 DEF BatchInv, DeadInv, RejectInv, CoolsFirst
<1>8. CalmInv'
  BY <1>0, <1>1, <1>2 DEF CalmInv
<1>9. LateInv'
  <2> SUFFICES ASSUME NEW m \in Messages
               PROVE  /\ late'[m] <= 1 /\ (late'[m] = 1 => phase' = "after")
                      /\ late'[m] = 1 => (CoolsFirst(m))'
    BY <1>1 DEF LateInv
  <2>1. CASE phase = "after" /\ m \in failed
    <3>1. late[m] = 0
      BY <1>0, <1>3, <2>1, Types DEF LateInv
    <3>2. timer[m] >= COOLDOWN
      BY <1>0, <1>1, <1>3, <2>1, Types DEF BatchInv
    <3> QED
      BY <1>0, <1>1, <1>4, <2>1, <3>1, <3>2, Types DEF CoolsFirst
  <2>2. CASE ~(phase = "after" /\ m \in failed)
    <3>1. late'[m] = late[m]
      BY <1>0, <1>4, <2>2, Types
    <3>2. late[m] = 1 => CoolsFirst(m)
      BY <1>0 DEF LateInv, Admits, CooldownOver, CoolsFirst, TypeOK, BreakerTypeOK
    <3> QED
      BY <1>0, <1>1, <3>1, <3>2 DEF LateInv, CoolsFirst
  <2> QED
    BY <2>1, <2>2
<1>10. SpanInv'
  <2> SUFFICES ASSUME NEW m \in Messages
               PROVE  /\ phase' # "after" /\ fate'[m] = "queued" /\ receives'[m] >= 1 =>
                           outage' + timer'[m] >= Span(receives'[m])
                      /\ phase' = "after" /\ fate'[m] = "queued" /\ receives'[m] >= 1
                         /\ late'[m] = 0 /\ ~(Admits') =>
                           outage' + 1 + elapsed' + timer'[m] >= Span(receives'[m])
                      /\ fate'[m] # "done" /\ receives'[m] >= 1 =>
                           outage' + 1 + COOLDOWN > Span(receives'[m] - 1)
    BY <1>1 DEF SpanInv, Overtime
  <2>1. Admits' <=> Admits
    BY <1>1 DEF Admits, CooldownOver
  <2>2. CASE m \in failed
    <3>1. phase # "before" /\ m \in batch
      BY <1>0, <1>3, <2>2 DEF CalmInv
    <3>2. outage + 1 + COOLDOWN > Span(receives[m] - 1)
      BY <2>2, <3>1, MissedInTime
    <3>3. phase = "after" => late'[m] # 0
      BY <1>0, <1>4, <2>2, Types
    <3> QED
      BY <1>0, <1>1, <1>2, <2>2, <3>1, <3>2, <3>3 DEF SpanInv, Overtime
  <2>3. CASE m \in batch \ failed
    BY <1>2, <2>3
  <2>4. CASE m \notin batch
    <3>1. late'[m] = late[m] /\ fate'[m] = fate[m]
      BY <1>0, <1>2, <1>3, <1>4, <2>4, Types
    <3> QED
      BY <1>0, <1>1, <2>1, <2>4, <3>1 DEF SpanInv, Overtime
  <2> QED
    BY <2>2, <2>3, <2>4
<1> QED
  BY <1>6, <1>7, <1>8, <1>9, <1>10 DEF IInv

LEMMA KillInv == ASSUME IInv, Kill PROVE IInv'
<1> USE Constants
<1>0. TypeOK /\ BatchInv /\ CalmInv /\ RejectInv /\ LateInv /\ SpanInv /\ DeadInv
  BY DEF IInv
<1>1. /\ state' = CLOSED /\ elapsed' = 0 /\ failures' = 0
      /\ core' = core /\ phase' = phase /\ outage' = outage
      /\ batch' = {} /\ todo' = {} /\ failed' = {} /\ spent' = 0 /\ spent = LAMBDA_TIMEOUT
      /\ timer' = timer /\ receives' = receives /\ fate' = fate /\ untested' = {}
      /\ cur' = None /\ attempt' = 0 /\ waited' = FALSE /\ hung' = FALSE
      /\ pc' = "idle"
  BY DEF Kill, world, queue
<1>2. batch \in SUBSET Messages
  BY <1>0 DEF TypeOK
<1>3. /\ late' \in [Messages -> Nat]
      /\ \A m \in Messages :
           late'[m] = late[m] + (IF phase = "after" /\ m \in batch THEN 1 ELSE 0)
  BY <1>2, MissCounts DEF Kill
<1>4. phase # "before"
  BY <1>0, <1>1 DEF CalmInv
<1>5. TypeOK'
  <2>1. BreakerTypeOK'
    BY <1>1 DEF BreakerTypeOK
  <2>2. 0 \in 0..(MAX_ATTEMPTS - 1) /\ 0 \in 0..LAMBDA_TIMEOUT
    OBVIOUS
  <2> QED
    BY <1>0, <1>1, <1>3, <2>1, <2>2 DEF TypeOK
<1>6. BatchInv' /\ DeadInv' /\ RejectInv' /\ CalmInv'
  BY <1>0, <1>1, <1>4 DEF BatchInv, DeadInv, RejectInv, CalmInv
<1>7. LateInv'
  BY <1>0, <1>1, <1>3, Types DEF LateInv, CoolsFirst
<1>8. SpanInv'
  <2> SUFFICES ASSUME NEW m \in Messages
               PROVE  /\ phase' # "after" /\ fate'[m] = "queued" /\ receives'[m] >= 1 =>
                           outage' + timer'[m] >= Span(receives'[m])
                      /\ fate'[m] # "done" /\ receives'[m] >= 1 =>
                           outage' + 1 + COOLDOWN > Span(receives'[m] - 1)
    BY <1>1 DEF SpanInv, Overtime, Admits
  <2>1. CASE m \in batch
    <3>1. outage + 1 + COOLDOWN > Span(receives[m] - 1)
      BY <1>1, <1>4, <2>1, MissedInTime
    <3> QED
      BY <1>0, <1>1, <3>1 DEF SpanInv, Overtime
  <2>2. CASE m \notin batch
    BY <1>0, <1>1, <2>2 DEF SpanInv, Overtime
  <2> QED
    BY <2>1, <2>2
<1> QED
  BY <1>5, <1>6, <1>7, <1>8 DEF IInv

LEMMA PassInv == ASSUME IInv, Pass PROVE IInv'
<1> USE Constants
<1>0. TypeOK /\ BatchInv /\ CalmInv /\ RejectInv /\ LateInv /\ SpanInv /\ DeadInv
  BY DEF IInv
<1>1. /\ core' = core /\ phase' = phase /\ pc' = pc /\ batch' = batch /\ todo' = todo
      /\ failed' = failed /\ cur' = cur /\ attempt' = attempt /\ fate' = fate
      /\ hung' = hung
      /\ receives' = receives /\ untested' = untested /\ late' = late
      /\ outage' = IF phase = "during" THEN outage + 1 ELSE outage
      /\ phase = "during" => outage < MaxOutage
  BY DEF Pass
<1>2. /\ timer' \in [Messages -> 0..VISIBILITY]
      /\ \A m \in Messages : timer'[m] = IF timer[m] > 0 THEN timer[m] - 1 ELSE 0
  BY <1>0 DEF Pass, TypeOK
<1>3. \/ pc = "idle" /\ spent' = spent /\ waited' = waited
      \/ pc = "send" /\ hung /\ ~waited /\ phase # "before" /\ spent < LAMBDA_TIMEOUT
         /\ spent' = spent + 1 /\ waited' = TRUE
  BY <1>0, Types DEF Pass, Running, CalmInv
<1>4. /\ BreakerTypeOK' /\ state' = state
      /\ elapsed' = IF state = OPEN /\ elapsed < COOLDOWN THEN elapsed + 1 ELSE elapsed
  <2>1. CASE state = OPEN /\ elapsed < COOLDOWN
    BY <1>0, <2>1, BreakerSteps DEF Pass, TypeOK
  <2>2. CASE ~(state = OPEN /\ elapsed < COOLDOWN)
    BY <1>0, <2>2 DEF Pass, TypeOK, breakerVars, BreakerTypeOK
  <2> QED
    BY <2>1, <2>2
<1>5. TypeOK'
  <2>1. spent' \in 0..LAMBDA_TIMEOUT
    BY <1>0, <1>3 DEF TypeOK
  <2>3. waited' \in BOOLEAN
    BY <1>0, <1>3, Zenon DEF TypeOK
  <2>2. outage' \in 0..MaxOutage
    BY <1>0, <1>1 DEF TypeOK
  <2> QED
    BY <1>0, <1>1, <1>2, <1>4, <2>1, <2>2, <2>3 DEF TypeOK
<1>6. BatchInv'
  <2>1. ASSUME NEW m \in batch PROVE timer'[m] + spent' >= VISIBILITY
    <3>1. /\ pc = "send" /\ spent' = spent + 1 /\ m \in Messages
          /\ timer[m] + spent >= VISIBILITY
      BY <1>0, <1>3, <2>1 DEF BatchInv, TypeOK
    <3> QED
      BY <1>0, <1>2, <3>1, Types
  <2> QED
    BY <1>0, <1>1, <1>3, <2>1 DEF BatchInv
<1>7. ASSUME NEW m \in Messages PROVE CoolsFirst(m) => (CoolsFirst(m))'
  BY <1>0, <1>2, <1>4, Types DEF CoolsFirst
<1>8. CalmInv' /\ DeadInv'
  BY <1>0, <1>1, <1>3, <1>4 DEF CalmInv, DeadInv
<1>9. RejectInv'
  BY <1>0, <1>1, <1>7 DEF RejectInv, TypeOK
<1>10. Admits => Admits'
  BY <1>0, <1>4, Types DEF Admits, CooldownOver
<1>11. LateInv'
  BY <1>0, <1>1, <1>3, <1>7, <1>10 DEF LateInv, BatchInv
<1>12. SpanInv'
  <2> SUFFICES ASSUME NEW m \in Messages
               PROVE  /\ phase' # "after" /\ fate'[m] = "queued" /\ receives'[m] >= 1 =>
                           outage' + timer'[m] >= Span(receives'[m])
                      /\ phase' = "after" /\ fate'[m] = "queued" /\ receives'[m] >= 1
                         /\ m \notin batch' /\ hung' =>
                           outage' + Overtime' + timer'[m] >= Span(receives'[m])
                      /\ phase' = "after" /\ fate'[m] = "queued" /\ receives'[m] >= 1
                         /\ m \notin batch' /\ late'[m] = 0 /\ ~(Admits') =>
                           outage' + 1 + elapsed' + timer'[m] >= Span(receives'[m])
                      /\ phase' = "after" /\ m \in batch'
                         /\ (hung' \/ m \in failed' \/ ~(Admits') \/ spent' = LAMBDA_TIMEOUT) =>
                           outage' + 1 + COOLDOWN > Span(receives'[m] - 1)
                      /\ fate'[m] # "done" /\ receives'[m] >= 1 /\ m \notin batch' =>
                           outage' + 1 + COOLDOWN > Span(receives'[m] - 1)
    BY DEF SpanInv
  <2>1. /\ timer[m] \in Nat /\ receives[m] \in Nat /\ outage \in Nat /\ elapsed \in Nat
        /\ timer'[m] = IF timer[m] > 0 THEN timer[m] - 1 ELSE 0
        /\ Span(receives[m]) \in Nat
        /\ receives[m] >= 1 => Span(receives[m] - 1) \in Nat
    <3>1. receives[m] >= 1 => receives[m] - 1 \in Nat
      BY <1>0, Types
    <3> QED
      BY <1>0, <1>2, <3>1, Types, Spans
  <2>2. CASE phase = "before"
    <3>1. pc = "idle"
      BY <1>3, <2>2
    <3>2. batch = {}
      BY <1>0, <3>1 DEF BatchInv
    <3>3. ~(fate[m] = "queued" /\ receives[m] >= 1)
      BY <1>0, <2>2, <3>2 DEF CalmInv
    <3> QED
      BY <1>0, <1>1, <2>2, <3>3 DEF SpanInv, Overtime
  <2>3. CASE phase = "during"
    BY <1>0, <1>1, <2>1, <2>3 DEF SpanInv, Overtime
  <2>4. CASE phase = "after"
    <3>1. \/ batch = {} /\ ~hung /\ spent' = spent
          \/ hung /\ ~waited /\ waited'
      BY <1>0, <1>3, <2>4 DEF BatchInv
    <3>2. ~(Admits') => state = OPEN /\ elapsed < COOLDOWN /\ elapsed' = elapsed + 1 /\ ~Admits
      BY <1>0, <1>4, <1>10, Types DEF Admits, CooldownOver
    <3> QED
      BY <1>0, <1>1, <2>1, <2>4, <3>1, <3>2 DEF SpanInv, Overtime
  <2> QED
    BY <1>0, <2>2, <2>3, <2>4 DEF TypeOK
<1> QED
  BY <1>5, <1>6, <1>8, <1>9, <1>11, <1>12 DEF IInv

LEMMA CoreChangesInv == ASSUME IInv, CoreChanges PROVE IInv'
<1> USE Constants
<1>0. TypeOK /\ BatchInv /\ CalmInv /\ RejectInv /\ LateInv /\ SpanInv /\ DeadInv
  BY DEF IInv
<1>1. /\ state' = state /\ elapsed' = elapsed /\ failures' = failures /\ outage' = outage
      /\ pc' = pc /\ batch' = batch /\ todo' = todo /\ failed' = failed /\ spent' = spent
      /\ cur' = cur /\ attempt' = attempt /\ waited' = waited
      /\ hung' \in BOOLEAN /\ (pc # "send" => hung' = hung)
      /\ fate' = fate /\ timer' = timer /\ receives' = receives
      /\ untested' = untested /\ late' = late
  BY <1>0 DEF CoreChanges, breakerVars, queue, TypeOK
<1>2. \/ phase # "after" /\ core' \in {"refuses", "hangs"} /\ phase' = "during"
      \/ phase = "during" /\ core' = "up" /\ phase' = "after"
  BY DEF CoreChanges
<1>3. TypeOK'
  <2>1. /\ core' \in {"up", "refuses", "hangs"} /\ phase' \in {"before", "during", "after"}
        /\ (core' = "up" <=> phase' # "during")
    BY <1>2
  <2>2. BreakerTypeOK'
    BY <1>0, <1>1 DEF TypeOK, BreakerTypeOK
  <2> QED
    BY <1>0, <1>1, <2>1, <2>2 DEF TypeOK
<1>4. BatchInv' /\ CalmInv' /\ RejectInv' /\ DeadInv'
  BY <1>0, <1>1, <1>2 DEF BatchInv, CalmInv, RejectInv, CoolsFirst, DeadInv
<1>5. \A m \in Messages : late[m] = 0
  BY <1>0, <1>2, Types DEF LateInv
<1>6. LateInv'
  BY <1>0, <1>1, <1>5 DEF LateInv
<1>7. SpanInv'
  <2> SUFFICES ASSUME NEW m \in Messages
               PROVE  /\ phase' # "after" /\ fate'[m] = "queued" /\ receives'[m] >= 1 =>
                           outage' + timer'[m] >= Span(receives'[m])
                      /\ phase' = "after" /\ fate'[m] = "queued" /\ receives'[m] >= 1
                         /\ m \notin batch' /\ hung' =>
                           outage' + Overtime' + timer'[m] >= Span(receives'[m])
                      /\ phase' = "after" /\ fate'[m] = "queued" /\ receives'[m] >= 1
                         /\ m \notin batch' /\ late'[m] = 0 /\ ~(Admits') =>
                           outage' + 1 + elapsed' + timer'[m] >= Span(receives'[m])
                      /\ phase' = "after" /\ m \in batch' =>
                           outage' + 1 + COOLDOWN > Span(receives'[m] - 1)
                      /\ fate'[m] # "done" /\ receives'[m] >= 1 /\ m \notin batch' =>
                           outage' + 1 + COOLDOWN > Span(receives'[m] - 1)
    BY DEF SpanInv
  <2>1. ASSUME phase' = "after", m \in batch
        PROVE  outage + 1 + COOLDOWN > Span(receives[m] - 1)
    BY <1>2, <2>1, MissedInTime
  <2>2. phase' = "after" /\ fate[m] = "queued" /\ receives[m] >= 1 =>
          /\ outage + Overtime + timer[m] >= Span(receives[m])
          /\ outage + 1 + elapsed + timer[m] >= Span(receives[m])
    <3>1. timer[m] \in Nat /\ receives[m] \in Nat /\ outage \in Nat /\ elapsed \in Nat
          /\ Span(receives[m]) \in Nat
      BY <1>0, Types, Spans
    <3> QED
      BY <1>0, <1>2, <3>1 DEF SpanInv, Overtime
  <2> QED
    BY <1>0, <1>1, <1>2, <2>1, <2>2 DEF SpanInv, Overtime
<1> QED
  BY <1>3, <1>4, <1>6, <1>7 DEF IInv

LEMMA NextInv == IInv /\ [Next]_vars => IInv'
<1> SUFFICES ASSUME IInv, [Next]_vars PROVE IInv'
  OBVIOUS
<1>1. ASSUME NEW B \in SUBSET Messages, Deliver(B) PROVE IInv'
  BY <1>1, DeliverInv
<1>2. ASSUME NEW m \in Messages, DeadLetter(m) \/ Reject(m) \/ Begin(m) PROVE IInv'
  BY <1>2, DeadLetterInv, RejectInvariant, BeginInv
<1>3. CASE Succeed \/ FailTransient \/ Return \/ Kill
  BY <1>3, SucceedInv, FailTransientInv, ReturnInv, KillInv
<1>4. CASE Pass \/ CoreChanges
  BY <1>4, PassInv, CoreChangesInv
<1>5. CASE UNCHANGED vars
  BY <1>5
  DEF vars, breakerVars, world, call, queue, IInv, TypeOK, BreakerTypeOK, BatchInv, CalmInv,
      RejectInv, LateInv, CoolsFirst, SpanInv, Overtime, DeadInv, Admits, CooldownOver
<1> QED
  BY <1>1, <1>2, <1>3, <1>4, <1>5 DEF Next, Work

LEMMA AlwaysInv == Spec => []IInv
BY InitInv, NextInv, PTL DEF Spec

-----------------------------------------------------------------------------
\* Every variable keeps its type: no message is received more than
\* maxReceiveCount times and no invocation outlives its time limit.
THEOREM TypeCorrect == Spec => []TypeOK
<1>1. IInv => TypeOK
  BY DEF IInv
<1> QED
  BY <1>1, AlwaysInv, PTL

\* A message the breaker rejected is back only after the cooldown, whenever in
\* the invocation it was rejected (lingo_core_client.py:84-86).
THEOREM RejectedIsLate == Spec => []RejectedComesBackLater
<1>1. IInv => RejectedComesBackLater
  BY Types DEF IInv, RejectInv, CoolsFirst, RejectedComesBackLater, Visible, Admits,
               CooldownOver, TypeOK
<1> QED
  BY <1>1, AlwaysInv, PTL

\* The aftermath of an outage costs each message one delivery at most.
THEOREM AftermathIsShort == Spec => []OneFailureAfterOutage
<1>1. IInv => OneFailureAfterOutage
  BY DEF IInv, LateInv, OneFailureAfterOutage
<1> QED
  BY <1>1, AlwaysInv, PTL

\* How long an outage must last to dead-letter a message, a request that it left
\* hanging and whose timeout comes after its end included.
THEOREM MessagesOutliveOutages == Spec => []ShortOutageKillsNothing
<1>1. IInv => ShortOutageKillsNothing
  <2> SUFFICES ASSUME IInv, NEW m \in Messages, fate[m] = "dead"
               PROVE  outage + 1 + COOLDOWN > (MaxReceive - 1) * VISIBILITY
    BY DEF ShortOutageKillsNothing
  <2>1. receives[m] = MaxReceive /\ m \notin batch
    BY DEF IInv, DeadInv, BatchInv
  <2>2. outage + 1 + COOLDOWN > Span(receives[m] - 1)
    BY <2>1, Constants DEF IInv, SpanInv
  <2> QED
    BY <2>1, <2>2 DEF Span
<1> QED
  BY <1>1, AlwaysInv, PTL

-----------------------------------------------------------------------------
(* What the outage leaves alive.                                           *)

\* A message with two deliveries to spare when lingo-core is back, from then
\* on: the failure it may still meet has used up one, one may be under way.
Spared(m) ==
  /\ phase = "after"
  /\ \/ fate[m] = "done"
     \/ /\ fate[m] = "queued"
        /\ receives[m] + 2 <= MaxReceive + late[m] + (IF m \in batch THEN 1 ELSE 0)

LEMMA SparedStep ==
  ASSUME IInv, NEW m \in Messages, Spared(m), [Next]_vars
  PROVE  Spared(m)'
<1> USE DEF Spared
<1>1. /\ TypeOK /\ phase = "after" /\ late[m] <= 1
      /\ receives[m] \in Nat /\ late[m] \in Nat /\ MaxReceive \in Nat
      /\ failed \subseteq batch
  BY Types, Constants DEF IInv, LateInv, TypeOK
<1>2. ASSUME NEW B \in SUBSET Messages, Deliver(B) PROVE Spared(m)'
  <2>1. /\ batch = {} /\ batch' = B
        /\ receives'[m] = receives[m] + (IF m \in B THEN 1 ELSE 0)
        /\ UNCHANGED <<phase, fate, late>>
    BY <1>2 DEF Deliver, IInv, BatchInv, world
  <2> QED
    BY <1>1, <2>1
<1>3. ASSUME NEW x \in Messages, DeadLetter(x) PROVE Spared(m)'
  <2>1. ASSUME x = m PROVE FALSE
    <3>1. fate[m] = "queued" /\ timer[m] = 0 /\ receives[m] = MaxReceive
      BY <1>3, <2>1 DEF DeadLetter, Visible
    <3>2. m \notin batch
      <4>1. m \in batch => timer[m] + spent >= VISIBILITY
        BY DEF IInv, BatchInv
      <4> QED
        BY <1>1, <3>1, <4>1, Constants, Types
    <3> QED
      BY <1>1, <3>1, <3>2
  <2>2. fate'[m] = fate[m] /\ UNCHANGED <<phase, receives, late, batch>>
    BY <1>3, <2>1 DEF DeadLetter, world
  <2> QED
    BY <2>2
<1>4. ASSUME NEW x \in Messages, Reject(x) \/ Begin(x) PROVE Spared(m)'
  BY <1>4 DEF Reject, Begin, world, queue
<1>5. CASE Succeed \/ FailTransient
  BY <1>5 DEF Succeed, FailTransient, world, queue
\* A failed delivery is late, and over.
<1>6. CASE Return \/ Kill
  <2> DEFINE F == IF Return THEN failed ELSE batch
  <2>1. /\ UNCHANGED <<phase, receives>> /\ batch' = {}
        /\ fate'[m] = "done" \/ (fate'[m] = fate[m] /\ (m \in batch => m \in F))
        /\ late'[m] = late[m] + (IF m \in F THEN 1 ELSE 0)
    BY <1>1, <1>6 DEF Return, Kill, Miss, world, queue
  <2> HIDE DEF F
  <2> QED
    BY <1>1, <2>1
<1>7. CASE Pass
  BY <1>7 DEF Pass
<1>8. CASE CoreChanges
  BY <1>1, <1>8 DEF CoreChanges
<1>9. CASE UNCHANGED vars
  BY <1>9 DEF vars, world, queue
<1> QED
  BY <1>2, <1>3, <1>4, <1>5, <1>6, <1>7, <1>8, <1>9 DEF Next, Work

\* The messages that OutageIsOvercome is about.
HasTwoLeft(m) == phase = "after" /\ fate[m] = "queued" /\ receives[m] + 2 <= MaxReceive

SurvivorsLive == \A m \in Messages : [](HasTwoLeft(m) => [](fate[m] # "dead"))

LEMMA TwoLeftIsSpared ==
  ASSUME NEW m \in Messages
  PROVE  /\ Spec => [](HasTwoLeft(m) => []Spared(m))
         /\ Spared(m) => fate[m] \in {"queued", "done"}
<1>1. IInv /\ HasTwoLeft(m) => Spared(m)
  <2>1. IInv => late[m] \in Nat /\ receives[m] \in Nat /\ MaxReceive \in Nat
    BY Types, Constants DEF IInv
  <2> QED
    BY <2>1 DEF HasTwoLeft, Spared
<1>2. IInv /\ Spared(m) /\ [Next]_vars => Spared(m)'
  BY SparedStep
<1>3. Spec => [](HasTwoLeft(m) => []Spared(m))
  BY <1>1, <1>2, AlwaysInv, PTL DEF Spec
<1>4. Spared(m) => fate[m] \in {"queued", "done"}
  BY DEF Spared
<1> QED
  BY <1>3, <1>4

\* A message with two deliveries left when lingo-core is back is never dead-
\* lettered, whatever the invocation under way and the breaker still cost it.
THEOREM SurvivorsAreSafe == Spec => SurvivorsLive
<1>1. ASSUME NEW m \in Messages
      PROVE  Spec => [](HasTwoLeft(m) => [](fate[m] # "dead"))
  <2>1. Spared(m) => fate[m] # "dead"
    BY TwoLeftIsSpared
  <2>2. Spec => [](HasTwoLeft(m) => []Spared(m))
    BY TwoLeftIsSpared
  <2> QED
    BY <2>1, <2>2, PTL
<1> QED
  BY <1>1 DEF SurvivorsLive

\* Every queued message leaves the queue one day, for either reason.
NobodyWaitsForever == \A m \in Messages : fate[m] = "queued" ~> fate[m] # "queued"

\* So an outage is overcome as soon as the queue moves at all: that is the
\* part that fairness is for, and the outcome follows without it.
THEOREM SurvivorsAreDone == Spec => (NobodyWaitsForever => OutageIsOvercome)
<1>1. ASSUME NEW m \in Messages
      PROVE  Spec => ((fate[m] = "queued" ~> fate[m] # "queued")
                        => (HasTwoLeft(m) ~> fate[m] = "done"))
  <2>1. Spared(m) /\ fate[m] # "queued" => fate[m] = "done"
    BY DEF Spared
  <2>2. HasTwoLeft(m) => fate[m] = "queued"
    BY DEF HasTwoLeft
  <2>3. Spec => [](HasTwoLeft(m) => []Spared(m))
    BY TwoLeftIsSpared
  <2> QED
    BY <2>1, <2>2, <2>3, PTL
<1> QED
  BY <1>1 DEF NobodyWaitsForever, OutageIsOvercome, HasTwoLeft

-----------------------------------------------------------------------------
(* How long an invocation lasts.                                           *)

\* Steps a record takes at most: its begin, and for each attempt the wait for
\* the request timeout and its end.
PerRecord == 2 * MAX_ATTEMPTS + 1

OfThisCall ==
  IF pc # "send" THEN 0 ELSE 2 * (MAX_ATTEMPTS - attempt) - (IF waited THEN 1 ELSE 0)

InvocationLeft ==
  IF pc = "idle" THEN 0 ELSE 1 + PerRecord * Cardinality(todo) + OfThisCall

InvocationSteps ==
  \/ \E m \in Messages : Reject(m) \/ Begin(m)
  \/ Succeed \/ FailTransient \/ Return \/ Kill
  \/ Pass /\ pc # "idle"

\* Each step of an invocation brings it nearer to its end, and nothing around
\* it, such as lingo-core that refuses and hangs by turns, takes it back.
InvocationEnds ==
  /\ InvocationSteps => InvocationLeft' < InvocationLeft
  /\ pc # "idle" => InvocationLeft' <= InvocationLeft

BatchFits == IsFiniteSet(batch) /\ Cardinality(batch) <= BATCH

LEMMA PerRecords ==
  /\ PerRecord \in Nat /\ PerRecord = 2 * MAX_ATTEMPTS + 1
  /\ \A n \in Nat : PerRecord * n \in Nat
  /\ \A n \in Nat : PerRecord * (n + 1) = PerRecord * n + PerRecord
  /\ \A n, k \in Nat : n <= k => PerRecord * n <= PerRecord * k
<1>1. PerRecord \in Nat /\ PerRecord = 2 * MAX_ATTEMPTS + 1
  BY Constants DEF PerRecord
<1>2. \A p, n, k \in Nat : /\ p * n \in Nat
                           /\ p * (n + 1) = p * n + p
                           /\ n <= k => p * n <= p * k
  OBVIOUS
<1> QED
  BY <1>1, <1>2

LEMMA SamePerRecord == PerRecord' = PerRecord
BY DEF PerRecord

\* One record fewer is before the invocation.
LEMMA OneRecordFewer ==
  ASSUME NEW S, IsFiniteSet(S), NEW x \in S
  PROVE  /\ Cardinality(S) \in Nat /\ Cardinality(S \ {x}) \in Nat
         /\ PerRecord * Cardinality(S) = PerRecord * Cardinality(S \ {x}) + PerRecord
<1>1. /\ IsFiniteSet(S \ {x}) /\ Cardinality(S \ {x}) = Cardinality(S) - 1
      /\ Cardinality(S) \in Nat
  BY FS_RemoveElement, FS_CardinalityType
<1>2. Cardinality(S \ {x}) \in Nat
  BY <1>1, FS_CardinalityType
<1>3. Cardinality(S) = Cardinality(S \ {x}) + 1
  BY <1>1, <1>2
<1> QED
  BY <1>1, <1>2, <1>3, PerRecords

LEMMA CallRange ==
  ASSUME TypeOK
  PROVE  /\ OfThisCall \in 0..(2 * MAX_ATTEMPTS)
         /\ pc = "send" => OfThisCall >= 1
<1>1. attempt \in Nat /\ attempt + 1 <= MAX_ATTEMPTS /\ waited \in BOOLEAN
  BY Constants DEF TypeOK
<1> QED
  BY <1>1, Constants DEF OfThisCall

LEMMA FitsStep ==
  ASSUME IsFiniteSet(Messages), TypeOK, BatchFits, [Next]_vars
  PROVE  BatchFits'
<1>1. ASSUME NEW B \in SUBSET Messages, Deliver(B) PROVE BatchFits'
  BY <1>1, FS_Subset DEF Deliver, BatchFits
<1>2. CASE Return \/ Kill
  <2>1. batch' = {}
    BY <1>2 DEF Return, Kill
  <2> QED
    BY <2>1, FS_EmptySet, OutageAssumption DEF BatchFits
<1>3. CASE UNCHANGED batch
  BY <1>3 DEF BatchFits
<1>4. ASSUME NEW m \in Messages, DeadLetter(m) \/ Reject(m) \/ Begin(m)
      PROVE  UNCHANGED batch
  BY <1>4 DEF DeadLetter, Reject, Begin
<1>5. CASE Succeed \/ FailTransient \/ Pass \/ CoreChanges \/ UNCHANGED vars
  BY <1>3, <1>5 DEF Succeed, FailTransient, Pass, CoreChanges, vars
<1> QED
  BY <1>1, <1>2, <1>3, <1>4, <1>5 DEF Next, Work

\* The measure is a number of steps.
Counts == InvocationLeft \in 0..(1 + PerRecord * BATCH)

LEMMA LeftRange ==
  ASSUME IInv, BatchFits
  PROVE  /\ IsFiniteSet(todo) /\ Cardinality(todo) \in Nat
         /\ PerRecord * Cardinality(todo) \in Nat
         /\ OfThisCall \in Nat
         /\ InvocationLeft \in 0..(1 + PerRecord * BATCH)
<1>1. todo \subseteq batch /\ BATCH \in Nat \ {0}
  BY OutageAssumption DEF IInv, TypeOK
<1>2. /\ IsFiniteSet(todo) /\ Cardinality(todo) \in Nat
      /\ Cardinality(todo) <= Cardinality(batch) /\ Cardinality(batch) \in Nat
      /\ Cardinality(batch) <= BATCH
  BY <1>1, FS_Subset, FS_CardinalityType DEF BatchFits
<1>3. PerRecord * Cardinality(todo) \in Nat /\ PerRecord * BATCH \in Nat
  BY <1>1, <1>2, PerRecords
<1>4. OfThisCall \in 0..(2 * MAX_ATTEMPTS) /\ (pc # "send" => OfThisCall = 0)
  BY CallRange DEF IInv, OfThisCall
<1>5. PerRecord * Cardinality(todo) + OfThisCall <= PerRecord * BATCH
  <2>1. CASE pc = "send"
    <3>1. cur \in batch /\ todo \subseteq batch \ {cur}
      BY <1>1, <2>1 DEF IInv, BatchInv
    <3>2. /\ IsFiniteSet(batch \ {cur})
          /\ Cardinality(batch \ {cur}) = Cardinality(batch) - 1
      BY <3>1, FS_RemoveElement DEF BatchFits
    <3>3. Cardinality(todo) <= Cardinality(batch) - 1
      BY <3>1, <3>2, FS_Subset
    <3>4. Cardinality(todo) + 1 <= BATCH
      BY <1>1, <1>2, <3>3
    <3>5. PerRecord * (Cardinality(todo) + 1) <= PerRecord * BATCH
      BY <1>1, <1>2, <3>4, PerRecords
    <3>6. PerRecord * Cardinality(todo) + PerRecord <= PerRecord * BATCH
      BY <1>2, <3>5, PerRecords
    <3> QED
      BY <1>3, <1>4, <3>6, PerRecords, Constants
  <2>2. CASE pc # "send"
    <3>1. PerRecord * Cardinality(todo) <= PerRecord * BATCH
      BY <1>1, <1>2, PerRecords
    <3> QED
      BY <1>3, <1>4, <2>2, <3>1
  <2> QED
    BY <2>1, <2>2
<1>6. OfThisCall \in Nat
  BY <1>4, Constants
<1> QED
  BY <1>2, <1>3, <1>5, <1>6 DEF InvocationLeft

LEMMA EndsStep ==
  ASSUME IInv, BatchFits, Counts', [Next]_vars
  PROVE  InvocationEnds
<1>1. /\ TypeOK /\ IsFiniteSet(todo) /\ PerRecord * Cardinality(todo) \in Nat
      /\ OfThisCall \in Nat /\ (pc = "send" => OfThisCall >= 1)
      /\ todo \subseteq batch
  BY LeftRange, CallRange DEF IInv, TypeOK
<1>2. ASSUME NEW m \in Messages, Reject(m) \/ Begin(m)
      PROVE  InvocationLeft' < InvocationLeft
  <2>1. m \in todo /\ todo' = todo \ {m} /\ pc = "next" /\ OfThisCall = 0
    BY <1>2 DEF Reject, Begin, OfThisCall
  <2>2. /\ Cardinality(todo') \in Nat
        /\ PerRecord * Cardinality(todo) = PerRecord * Cardinality(todo') + PerRecord
    BY <1>1, <2>1, OneRecordFewer
  <2>3. PerRecord * Cardinality(todo') \in Nat
    BY <2>2, PerRecords
  <2>4. pc' # "idle" /\ OfThisCall' \in 0..(2 * MAX_ATTEMPTS)
    <3>1. CASE Reject(m)
      BY <3>1, Constants DEF Reject, OfThisCall
    <3>2. CASE Begin(m)
      BY <3>2, Constants DEF Begin, OfThisCall
    <3> QED
      BY <1>2, <3>1, <3>2
  <2>5. /\ InvocationLeft = 1 + PerRecord * Cardinality(todo)
        /\ InvocationLeft' = 1 + PerRecord * Cardinality(todo') + OfThisCall'
    <3>1. PerRecord * Cardinality(todo) \in Nat
      BY <1>1
    <3>2. InvocationLeft = 1 + PerRecord * Cardinality(todo) + OfThisCall
      BY <2>1 DEF InvocationLeft
    <3>3. InvocationLeft' = 1 + PerRecord * Cardinality(todo') + OfThisCall'
      BY <2>4, SamePerRecord DEF InvocationLeft
    <3>4. \A n \in Nat : 1 + n + 0 = 1 + n
      OBVIOUS
    <3>5. InvocationLeft = 1 + PerRecord * Cardinality(todo)
      BY <2>1, <3>1, <3>2, <3>4
    <3> QED
      BY <3>3, <3>5
  <2>6. PerRecord \in Nat /\ OfThisCall' \in Nat /\ OfThisCall' < PerRecord
    BY <2>4, PerRecords, Constants
  <2> HIDE DEF PerRecord, InvocationLeft, OfThisCall
  <2> QED
    BY <2>2, <2>3, <2>5, <2>6
\* Within the call.
<1>3. ASSUME pc = "send", pc' # "idle", todo' = todo, OfThisCall' \in Nat,
             OfThisCall' < OfThisCall
      PROVE  InvocationLeft' < InvocationLeft
  <2>1. InvocationLeft = 1 + PerRecord * Cardinality(todo) + OfThisCall
    BY <1>3 DEF InvocationLeft
  <2>2. InvocationLeft' = 1 + PerRecord * Cardinality(todo) + OfThisCall'
    BY <1>3, SamePerRecord DEF InvocationLeft
  <2>3. \A n, a, b \in Nat : a < b => 1 + n + a < 1 + n + b
    OBVIOUS
  <2> QED
    BY <1>1, <1>3, <2>1, <2>2, <2>3
<1>4. ASSUME Succeed \/ FailTransient \/ (Pass /\ pc # "idle")
      PROVE  InvocationLeft' < InvocationLeft
  <2>1. pc = "send" /\ pc' # "idle" /\ todo' = todo
    BY <1>4 DEF Succeed, FailTransient, Pass
  <2>2. OfThisCall' \in Nat /\ OfThisCall' < OfThisCall
    <3>1. attempt \in Nat /\ attempt + 1 <= MAX_ATTEMPTS
      BY <1>1, Constants DEF TypeOK
    <3>2. CASE pc' = "next"
      BY <1>1, <2>1, <3>2 DEF OfThisCall
    <3>3. CASE FailTransient /\ pc' = "send"
      <4>1. attempt' = attempt + 1 /\ waited' = FALSE /\ attempt + 1 < MAX_ATTEMPTS
        BY <3>3 DEF FailTransient
      <4> QED
        BY <2>1, <3>1, <3>3, <4>1, Constants DEF OfThisCall
    <3>4. CASE Pass
      <4>1. attempt' = attempt /\ ~waited /\ waited' = TRUE /\ pc' = pc
        BY <2>1, <3>4 DEF Pass
      <4> QED
        BY <2>1, <3>1, <4>1, Constants DEF OfThisCall
    <3> QED
      BY <1>4, <2>1, <3>2, <3>3, <3>4 DEF Succeed, FailTransient
  <2> QED
    BY <1>3, <2>1, <2>2
<1>5. ASSUME Return \/ Kill
      PROVE  InvocationLeft' < InvocationLeft
  <2>1. InvocationLeft' = 0 /\ pc # "idle"
    BY <1>5 DEF Return, Kill, Running, InvocationLeft
  <2>2. InvocationLeft = 1 + PerRecord * Cardinality(todo) + OfThisCall
    BY <2>1 DEF InvocationLeft
  <2> QED
    BY <1>1, <2>1, <2>2
<1>6. InvocationSteps => InvocationLeft' < InvocationLeft
  BY <1>2, <1>4, <1>5 DEF InvocationSteps
\* Around the invocation.
<1>7. ASSUME pc # "idle", ~InvocationSteps
      PROVE  UNCHANGED <<pc, todo, attempt, waited>>
  <2>1. ASSUME NEW m \in Messages, DeadLetter(m)
        PROVE  UNCHANGED <<pc, todo, attempt, waited>>
    BY <2>1 DEF DeadLetter, call
  <2>2. CASE CoreChanges \/ UNCHANGED vars
    BY <2>2 DEF CoreChanges, vars, call
  <2> QED
    BY <1>7, <2>1, <2>2 DEF Next, Work, InvocationSteps, Deliver
<1>8. ASSUME pc # "idle", ~InvocationSteps
      PROVE  InvocationLeft' = InvocationLeft
  BY <1>7, <1>8 DEF InvocationLeft, OfThisCall, PerRecord
<1>9. InvocationLeft \in Nat /\ InvocationLeft' \in Nat
  <2>1. PerRecord * BATCH \in Nat
    BY PerRecords, OutageAssumption
  <2>2. Counts /\ Counts'
    BY LeftRange DEF Counts
  <2> QED
    BY <2>1, <2>2 DEF Counts, PerRecord
<1> QED
  BY <1>6, <1>8, <1>9 DEF InvocationEnds

\* Whatever lingo-core does and whatever the breaker lets through, an
\* invocation is over after 2 * MAX_ATTEMPTS + 1 steps per record and its
\* return: no loop of _request (lingo_core_client.py:91) or of the handler waits.
THEOREM InvocationIsBounded ==
  IsFiniteSet(Messages) =>
    (Spec => [](InvocationLeft \in 0..(1 + PerRecord * BATCH)) /\ [][InvocationEnds]_vars)
<1> SUFFICES ASSUME IsFiniteSet(Messages)
             PROVE  Spec => [](InvocationLeft \in 0..(1 + PerRecord * BATCH))
                             /\ [][InvocationEnds]_vars
  OBVIOUS
<1>1. Init => BatchFits
  BY FS_EmptySet, OutageAssumption DEF Init, BatchFits
<1>2. IInv /\ BatchFits /\ [Next]_vars => BatchFits'
  BY FitsStep DEF IInv
<1>3. IInv /\ BatchFits => Counts
  BY LeftRange DEF Counts
<1>4. IInv /\ BatchFits /\ Counts' /\ [Next]_vars => InvocationEnds
  BY EndsStep
<1>5. Counts => InvocationLeft \in 0..(1 + PerRecord * BATCH)
  BY DEF Counts
<1> QED
  BY <1>1, <1>2, <1>3, <1>4, <1>5, AlwaysInv, PTL DEF Spec
=============================================================================
