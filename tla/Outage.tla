------------------------------- MODULE Outage -------------------------------
(***************************************************************************)
(* One worker container through an outage of lingo-core: the breaker, the  *)
(* retries of _request, the Lambda's time limit and the queue's visibility *)
(* timeout, which all count the same seconds.                              *)
(*                                                                         *)
(* A message stands for one callback.  The clock ticks once per request    *)
(* timeout; prompt answers, refusals and backoffs take less and are between*)
(* two ticks.  The limits of the function and the queue are DEPLOY.md's.   *)
(***************************************************************************)
EXTENDS CircuitBreaker, FiniteSets

CONSTANTS
  Messages,
  None,           \* no message
  MAX_ATTEMPTS,   \* 1 + settings.CORE_CLIENT_MAX_RETRIES
  BATCH,          \* batch size of the event source mapping
  LAMBDA_TIMEOUT, \* time limit of an invocation, in ticks
  VISIBILITY,     \* visibility timeout of the queue, in ticks
  MaxReceive,     \* maxReceiveCount of the queue
  MaxOutage       \* bound: length of the outage, in ticks

\* What the settings have to do with each other: a message that is returned at
\* the very end of an invocation stays away for a cooldown, and there is one.
ASSUME OutageAssumption ==
  /\ None \notin Messages
  /\ MAX_ATTEMPTS \in Nat \ {0} /\ BATCH \in Nat \ {0}
  /\ LAMBDA_TIMEOUT \in Nat \ {0} /\ VISIBILITY \in Nat
  /\ MaxReceive \in Nat \ {0} /\ MaxOutage \in Nat
  /\ VISIBILITY >= LAMBDA_TIMEOUT + COOLDOWN /\ COOLDOWN >= 1

VARIABLES
  core,      \* "up", "refuses" (answers 5xx, or not at all, at once) or "hangs"
  phase,     \* of the outage: "before", "during", "after"
  outage,    \* history: its length so far
  pc,        \* "idle" (no invocation), "next" (between records) or "send"
  batch,     \* records of the invocation
  todo,      \* those the loop has not come to
  failed,    \* its batchItemFailures
  cur,       \* the record being handled
  attempt,   \* the loop variable of _request
  waited,    \* the request timeout is over
  hung,      \* lingo-core hung while the request under way was: it may get no answer
  spent,     \* ticks since the invocation began
  fate,      \* of each message: "queued", "done" or "dead"
  timer,     \* ticks until it is visible
  receives,  \* ApproximateReceiveCount
  untested,  \* history: messages rejected since lingo-core was last called
  late       \* history: deliveries of each message that failed after the outage

world  == <<core, phase, outage>>
call   == <<cur, attempt, waited, hung>>
queue  == <<fate, timer, receives>>
vars == <<breakerVars, world, pc, batch, todo, failed, call, spent, queue, untested, late>>

TypeOK ==
  /\ BreakerTypeOK
  /\ core \in {"up", "refuses", "hangs"}
  /\ phase \in {"before", "during", "after"} /\ (core = "up" <=> phase # "during")
  /\ outage \in 0..MaxOutage
  /\ pc \in {"idle", "next", "send"}
  /\ batch \subseteq Messages /\ todo \subseteq batch /\ failed \subseteq batch \ todo
  /\ cur \in batch \cup {None}
  /\ attempt \in 0..(MAX_ATTEMPTS - 1)
  /\ waited \in BOOLEAN /\ hung \in BOOLEAN
  /\ spent \in 0..LAMBDA_TIMEOUT
  /\ fate \in [Messages -> {"queued", "done", "dead"}]
  /\ timer \in [Messages -> 0..VISIBILITY]
  /\ receives \in [Messages -> 0..MaxReceive]
  /\ untested \subseteq Messages
  /\ late \in [Messages -> Nat]

Init ==
  /\ BreakerInit
  /\ core = "up" /\ phase = "before" /\ outage = 0
  /\ pc = "idle"
  /\ batch = {} /\ todo = {} /\ failed = {}
  /\ cur = None /\ attempt = 0 /\ waited = FALSE /\ hung = FALSE
  /\ spent = 0
  /\ fate = [m \in Messages |-> "queued"]
  /\ timer = [m \in Messages |-> 0]
  /\ receives = [m \in Messages |-> 0]
  /\ untested = {}
  /\ late = [m \in Messages |-> 0]

-----------------------------------------------------------------------------
Visible(m) == fate[m] = "queued" /\ timer[m] = 0

Running == pc # "idle" /\ spent < LAMBDA_TIMEOUT

\* Broken: one delivery more than maxReceiveCount.
BrokenDeliver(B) ==
  /\ pc = "idle"
  /\ B # {} /\ Cardinality(B) <= BATCH
  /\ \A m \in B : Visible(m) /\ receives[m] <= MaxReceive
  /\ receives' = [m \in Messages |-> receives[m] + (IF m \in B THEN 1 ELSE 0)]
  /\ timer' = [m \in Messages |-> IF m \in B THEN VISIBILITY ELSE timer[m]]
  /\ batch' = B /\ todo' = B /\ failed' = {}
  /\ spent' = 0
  /\ pc' = "next"
  /\ UNCHANGED <<breakerVars, world, call, fate, untested, late>>

\* An invocation begins: the visibility timeout of its records runs from here.
Deliver(B) ==
  /\ pc = "idle"
  /\ B # {} /\ Cardinality(B) <= BATCH
  /\ \A m \in B : Visible(m) /\ receives[m] < MaxReceive
  /\ receives' = [m \in Messages |-> receives[m] + (IF m \in B THEN 1 ELSE 0)]
  /\ timer' = [m \in Messages |-> IF m \in B THEN VISIBILITY ELSE timer[m]]
  /\ batch' = B /\ todo' = B /\ failed' = {}
  /\ spent' = 0
  /\ pc' = "next"
  /\ UNCHANGED <<breakerVars, world, call, fate, untested, late>>

DeadLetter(m) ==
  /\ Visible(m) /\ receives[m] = MaxReceive
  /\ fate' = [fate EXCEPT ![m] = "dead"]
  /\ UNCHANGED <<breakerVars, world, pc, batch, todo, failed, call, spent, timer,
                 receives, untested, late>>

\* CircuitOpenError
Reject(m) ==
  /\ Running /\ pc = "next" /\ m \in todo
  /\ ~Admits
  /\ todo' = todo \ {m}
  /\ failed' = failed \cup {m}
  /\ untested' = untested \cup {m}
  /\ UNCHANGED <<breakerVars, world, pc, batch, call, spent, queue, late>>

Begin(m) ==
  /\ Running /\ pc = "next" /\ m \in todo
  /\ Allow
  /\ todo' = todo \ {m}
  /\ cur' = m /\ attempt' = 0 /\ waited' = FALSE /\ hung' = (core = "hangs")
  /\ pc' = "send"
  /\ untested' = {}
  /\ UNCHANGED <<world, batch, failed, spent, queue, late>>

\* An answer, also to a request that was sent while lingo-core hung.
Succeed ==
  /\ Running /\ pc = "send" /\ core = "up"
  /\ RecordSuccess
  /\ pc' = "next"
  /\ cur' = None /\ hung' = FALSE
  /\ UNCHANGED <<world, batch, todo, failed, attempt, waited, spent, queue, untested, late>>

\* A refusal, or the end of the request timeout, be lingo-core up again or not;
\* another attempt or the end.
FailTransient ==
  /\ Running /\ pc = "send" /\ (core = "refuses" \/ (hung /\ waited))
  /\ RecordFailure
  /\ waited' = FALSE
  /\ IF attempt + 1 < MAX_ATTEMPTS
       THEN /\ attempt' = attempt + 1 /\ hung' = (core = "hangs")
            /\ UNCHANGED <<pc, cur, failed>>
       ELSE /\ pc' = "next" /\ cur' = None /\ hung' = FALSE
            /\ failed' = failed \cup {cur} /\ UNCHANGED attempt
  /\ UNCHANGED <<world, batch, todo, spent, queue, untested, late>>

\* The deliveries of the messages in F failed.
Miss(F) ==
  late' = [m \in Messages |-> late[m] + (IF phase = "after" /\ m \in F THEN 1 ELSE 0)]

\* Broken: a failed record is made visible at once.
BrokenReturn ==
  /\ Running /\ pc = "next" /\ todo = {}
  /\ fate' = [m \in Messages |-> IF m \in batch \ failed THEN "done" ELSE fate[m]]
  /\ timer' = [m \in Messages |-> IF m \in failed THEN 0 ELSE timer[m]]
  /\ Miss(failed)
  /\ pc' = "idle" /\ batch' = {} /\ failed' = {} /\ spent' = 0
  /\ UNCHANGED <<breakerVars, world, todo, call, receives, untested>>

\* lambda_handler returns; what is not a batchItemFailure is deleted.
Return ==
  /\ Running /\ pc = "next" /\ todo = {}
  /\ fate' = [m \in Messages |-> IF m \in batch \ failed THEN "done" ELSE fate[m]]
  /\ Miss(failed)
  /\ pc' = "idle" /\ batch' = {} /\ failed' = {} /\ spent' = 0
  /\ UNCHANGED <<breakerVars, world, todo, call, timer, receives, untested>>

\* The time limit: the process is gone, its breaker with it, and the whole
\* batch has failed.
Kill ==
  /\ pc # "idle" /\ spent = LAMBDA_TIMEOUT
  /\ state' = CLOSED /\ failures' = 0 /\ elapsed' = 0
  /\ Miss(batch)
  /\ pc' = "idle" /\ batch' = {} /\ todo' = {} /\ failed' = {} /\ spent' = 0
  /\ cur' = None /\ attempt' = 0 /\ waited' = FALSE /\ hung' = FALSE
  /\ untested' = {}
  /\ UNCHANGED <<world, queue>>

-----------------------------------------------------------------------------
\* Time passes between invocations, and in them while a request hangs.
Pass ==
  /\ \/ pc = "idle" /\ UNCHANGED <<spent, waited>>
     \/ /\ Running /\ pc = "send" /\ hung /\ ~waited
        /\ spent' = spent + 1
        /\ waited' = TRUE
  /\ phase = "during" => outage < MaxOutage
  /\ outage' = IF phase = "during" THEN outage + 1 ELSE outage
  /\ timer' = [m \in Messages |-> IF timer[m] > 0 THEN timer[m] - 1 ELSE 0]
  /\ IF state = OPEN /\ elapsed < COOLDOWN THEN Tick ELSE UNCHANGED breakerVars
  /\ UNCHANGED <<core, phase, pc, batch, todo, failed, cur, attempt, hung, fate,
                 receives, untested, late>>

\* One outage, in which lingo-core may refuse and hang by turns.  A request that
\* was under way while it hung may stay without an answer to its timeout.
CoreChanges ==
  /\ \/ phase # "after" /\ core' \in {"refuses", "hangs"} \ {core} /\ phase' = "during"
     \/ phase = "during" /\ core' = "up" /\ phase' = "after"
  /\ hung' = (hung \/ (pc = "send" /\ core' = "hangs"))
  /\ UNCHANGED <<breakerVars, outage, pc, batch, todo, failed, cur, attempt, waited,
                 spent, queue, untested, late>>

Work ==
  \/ \E B \in SUBSET Messages : Deliver(B)
  \/ \E m \in Messages : DeadLetter(m) \/ Reject(m) \/ Begin(m)
  \/ Succeed \/ FailTransient \/ Return \/ Kill

Next == Work \/ Pass \/ CoreChanges

Spec == Init /\ [][Next]_vars

\* The event source mapping polls, time passes, the outage ends.
FairSpec ==
  Spec /\ WF_vars(Work) /\ WF_vars(Pass) /\ WF_vars(CoreChanges /\ phase' = "after")

-----------------------------------------------------------------------------
\* "SQS requeues it after the breaker's cooldown, by which point a probe will
\* have re-tested core" (lingo_core_client.py:84-86): when a rejected message
\* is visible again, lingo-core has been called since or its own call will be
\* let through, although the visibility timeout began before the cooldown.
RejectedComesBackLater == \A m \in untested : Visible(m) => Admits

\* Once lingo-core is back, every message fails once at most: the invocation
\* under way and the cooldown of the breaker, opened by the last failures, cost
\* one delivery together and not one each.
OneFailureAfterOutage == \A m \in Messages : late[m] <= 1

\* An outage dead-letters a message only if it lasts as long as the deliveries
\* of that message less one cooldown and one request timeout: the first delivery
\* is none too many, and lingo-core may be back when the last request that it
\* left hanging times out (lingo_core_client.py:98-106) and opens the breaker,
\* which then rejects the last delivery.
ShortOutageKillsNothing ==
  (\E m \in Messages : fate[m] = "dead")
    => outage + 1 + COOLDOWN > (MaxReceive - 1) * VISIBILITY

\* Every message that has two deliveries left when lingo-core is back is done
\* in the end.
OutageIsOvercome ==
  \A m \in Messages :
    phase = "after" /\ fate[m] = "queued" /\ receives[m] + 2 <= MaxReceive
      ~> fate[m] = "done"
=============================================================================
