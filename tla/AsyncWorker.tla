---------------------------- MODULE AsyncWorker ----------------------------
(***************************************************************************)
(* The worker of app/handler.py and the handlers it dispatches to, between *)
(* the queue that feeds it and the stores it writes.  Each element of      *)
(* Workers is a warm Lambda container; a container runs one invocation at  *)
(* a time and handles its records one after the other, but its effects on  *)
(* lingo-core, on the leaderboard and on the event log interleave with     *)
(* those of the other containers, and it may be killed at any point.       *)
(*                                                                         *)
(* No effect is idempotent, so each is counted per message.                *)
(***************************************************************************)
EXTENDS Events, EventsRepo, CoreCall

CONSTANTS
  Msgs,           \* the messages, by messageId
  Bodies,         \* the bodies a message may have
  Workers,        \* the Lambda containers
  NoMsg,          \* the value of cur between two records
  BatchSize,      \* batch_size of the event source mapping
  MaxReceive,     \* maxReceiveCount of the queue's redrive policy
  MaxAttempts,    \* calls one lingo-core callback makes, see CoreClient
  WriteAttempts,  \* requests boto3 makes for one update_item
  Faults          \* which of the things below may go wrong

ASSUME WorkerAssumption ==
  /\ Bodies \subseteq Body
  /\ NoMsg \notin Msgs
  /\ BatchSize \in Nat /\ MaxReceive \in Nat
  /\ MaxAttempts \in Nat \ {0} /\ WriteAttempts \in Nat \ {0}
  /\ Faults \subseteq {"crash", "duplicate", "core", "dynamo"}

VARIABLES
  body,      \* the body of each message, chosen once
  place,     \* where a message is: "unsent", "queue", "done" (deleted), "dlq"
  receives,  \* ApproximateReceiveCount of each message
  pc,        \* what each container does next
  batch,     \* the records of its invocation
  todo,      \* those the loop has not reached
  cur,       \* the record being handled
  failures,  \* batchItemFailures
  toBump,    \* quests listed for the current record and not bumped yet
  latched,   \* _quests_surface_unmounted of each container
  mounted,   \* lingo-core serves the quests router
  active,    \* quests whose status is "active"
  xp,        \* times lingo-core credited each message
  weekly,    \* times its amount was added to the weekly bucket
  monthly,   \* times its amount was added to the monthly bucket
  bumps,     \* times lingo-core advanced each quest for it
  rows,      \* the event log
  missed     \* history: messages whose quests were given up as unmounted

queueVars == <<body, place, receives>>
loopVars  == <<pc, batch, todo, cur, failures, toBump, latched>>
coreVars  == <<mounted, active>>
effects   == <<xp, weekly, monthly, bumps, missed>>
vars == <<queueVars, loopVars, coreVars, effects, rows>>

InFlight(m) == \E w \in Workers : m \in batch[w]

TypeOK ==
  /\ body \in [Msgs -> Bodies]
  /\ place \in [Msgs -> {"unsent", "queue", "done", "dlq"}]
  /\ receives \in [Msgs -> 0..MaxReceive]
  /\ pc \in [Workers -> {"idle", "loop", "credit", "weekly", "monthly",
                         "quests", "bump", "record"}]
  /\ batch \in [Workers -> SUBSET Msgs]
  /\ todo \in [Workers -> SUBSET Msgs]
  /\ cur \in [Workers -> Msgs \cup {NoMsg}]
  /\ failures \in [Workers -> SUBSET Msgs]
  /\ toBump \in [Workers -> SUBSET Quests]
  /\ latched \in [Workers -> BOOLEAN]
  /\ mounted \in BOOLEAN
  /\ active \in SUBSET Quests
  /\ xp \in [Msgs -> Nat]
  /\ weekly \in [Msgs -> Nat]
  /\ monthly \in [Msgs -> Nat]
  /\ bumps \in [Msgs -> [Quests -> Nat]]
  /\ rows \subseteq [id : Msgs, at : Nat, status : {"received", "ok", "failed"}]
  /\ missed \in SUBSET Msgs

Init ==
  /\ body \in [Msgs -> Bodies]
  /\ place = [m \in Msgs |-> "unsent"]
  /\ receives = [m \in Msgs |-> 0]
  /\ pc = [w \in Workers |-> "idle"]
  /\ batch = [w \in Workers |-> {}]
  /\ todo = [w \in Workers |-> {}]
  /\ cur = [w \in Workers |-> NoMsg]
  /\ failures = [w \in Workers |-> {}]
  /\ toBump = [w \in Workers |-> {}]
  /\ latched = [w \in Workers |-> FALSE]
  /\ mounted \in BOOLEAN
  /\ active = Quests
  /\ xp = [m \in Msgs |-> 0]
  /\ weekly = [m \in Msgs |-> 0]
  /\ monthly = [m \in Msgs |-> 0]
  /\ bumps = [m \in Msgs |-> [q \in Quests |-> 0]]
  /\ rows = {}
  /\ missed = {}

-----------------------------------------------------------------------------
(* The queue.                                                              *)

Publish(m) ==
  /\ place[m] = "unsent"
  /\ place' = [place EXCEPT ![m] = "queue"]
  /\ UNCHANGED <<body, receives, loopVars, coreVars, effects, rows>>

\* A message not yet deleted becomes visible again when its delivery ends.
\* A standard queue may hand it out once more even before that.
Deliverable(m) ==
  /\ place[m] = "queue"
  /\ receives[m] < MaxReceive
  /\ "duplicate" \in Faults \/ ~InFlight(m)

\* The event source mapping invokes lambda_handler with a batch.
Invoke(w) ==
  /\ pc[w] = "idle"
  /\ \E S \in SUBSET {m \in Msgs : Deliverable(m)} :
       /\ S # {} /\ Cardinality(S) <= BatchSize
       /\ receives' = [m \in Msgs |-> IF m \in S THEN receives[m] + 1 ELSE receives[m]]
       /\ batch' = [batch EXCEPT ![w] = S]
       /\ todo' = [todo EXCEPT ![w] = S]
  /\ pc' = [pc EXCEPT ![w] = "loop"]
  /\ UNCHANGED <<body, place, cur, failures, toBump, latched, coreVars, effects, rows>>

\* Redrive: the delivery after the last allowed one goes to the DLQ instead.
Bury(m) ==
  /\ place[m] = "queue"
  /\ receives[m] = MaxReceive
  /\ ~InFlight(m)
  /\ place' = [place EXCEPT ![m] = "dlq"]
  /\ UNCHANGED <<body, receives, loopVars, coreVars, effects, rows>>

\* The invocation of w is over; its records become visible again unless they
\* are deleted in the same step.
EndInvocation(w) ==
  /\ pc' = [pc EXCEPT ![w] = "idle"]
  /\ batch' = [batch EXCEPT ![w] = {}]
  /\ todo' = [todo EXCEPT ![w] = {}]
  /\ cur' = [cur EXCEPT ![w] = NoMsg]
  /\ failures' = [failures EXCEPT ![w] = {}]
  /\ toBump' = [toBump EXCEPT ![w] = {}]

\* A timeout or an out-of-memory kill; the next invocation is a cold start.
Crash(w) ==
  /\ "crash" \in Faults
  /\ pc[w] # "idle"
  /\ EndInvocation(w)
  /\ latched' = [latched EXCEPT ![w] = FALSE]
  /\ UNCHANGED <<queueVars, coreVars, effects, rows>>

\* An idle container is reclaimed and replaced by a cold one.
Recycle(w) ==
  /\ pc[w] = "idle"
  /\ latched[w]
  /\ latched' = [latched EXCEPT ![w] = FALSE]
  /\ UNCHANGED <<queueVars, pc, batch, todo, cur, failures, toBump, coreVars, effects, rows>>

-----------------------------------------------------------------------------
(* The dispatch loop of lambda_handler.                                    *)

\* get_events_repo() raises, before any record is looked at.
RepoUnavailable(w) ==
  /\ pc[w] = "loop"
  /\ todo[w] = batch[w]
  /\ ConstructorRaises
  /\ EndInvocation(w)
  /\ UNCHANGED <<queueVars, latched, coreVars, effects, rows>>

\* parse_event raises past the loop's except clause.
ParseEscapes(w) ==
  /\ pc[w] = "loop"
  /\ \E m \in todo[w] : Escapes(body[m])
  /\ EndInvocation(w)
  /\ UNCHANGED <<queueVars, latched, coreVars, effects, rows>>

\* The loop turns to record m: it is saved, and next comes stage p.
Take(w, m, p) ==
  /\ pc' = [pc EXCEPT ![w] = p]
  /\ todo' = [todo EXCEPT ![w] = @ \ {m}]
  /\ cur' = [cur EXCEPT ![w] = m]
  /\ rows' \in Saved(rows, m)
  /\ UNCHANGED <<queueVars, batch, toBump, latched, coreVars, effects>>

Accept(w, m) ==
  /\ pc[w] = "loop"
  /\ m \in todo[w]
  /\ Valid(body[m])
  /\ Take(w, m, FirstEffect(body[m]))
  /\ UNCHANGED failures

\* Broken: a record that does not parse is tried again in the same invocation.
BrokenRejectInvalid(w, m) ==
  /\ pc[w] = "loop"
  /\ m \in todo[w]
  /\ ~Escapes(body[m]) /\ ~Valid(body[m])
  /\ pc' = [pc EXCEPT ![w] = "record"]
  /\ cur' = [cur EXCEPT ![w] = m]
  /\ failures' = [failures EXCEPT ![w] = @ \cup {m}]
  /\ rows' \in Saved(rows, m)
  /\ UNCHANGED <<queueVars, batch, todo, toBump, latched, coreVars, effects>>

\* A ValidationError: the record is reported for retry.
RejectInvalid(w, m) ==
  /\ pc[w] = "loop"
  /\ m \in todo[w]
  /\ ~Escapes(body[m]) /\ ~Valid(body[m])
  /\ Take(w, m, "record")
  /\ failures' = [failures EXCEPT ![w] = @ \cup {m}]

\* Broken: a status no reader of the log knows.
BrokenStatusWord(w) == IF cur[w] \in failures[w] THEN "error" ELSE "ok"

\* Broken: the status comes before the handler's verdict.
BrokenFinalStatus(w) == "ok"

\* The status of the record handled last.
FinalStatus(w) == IF cur[w] \in failures[w] THEN "failed" ELSE "ok"

Record(w) ==
  /\ pc[w] = "record"
  /\ rows' \in Updated(rows, cur[w], FinalStatus(w))
  /\ pc' = [pc EXCEPT ![w] = "loop"]
  /\ cur' = [cur EXCEPT ![w] = NoMsg]
  /\ UNCHANGED <<queueVars, batch, todo, failures, toBump, latched, coreVars, effects>>

\* Broken: the failures never make it into the response.
BrokenDeleted(w) == batch[w]

\* Broken: one failure holds back the whole batch.
BrokenPartial(w) == IF failures[w] = {} THEN batch[w] ELSE {}

\* The records SQS deletes when w returns its batchItemFailures.
Deleted(w) == batch[w] \ failures[w]

Return(w) ==
  /\ pc[w] = "loop"
  /\ todo[w] = {}
  /\ place' = [m \in Msgs |->
                 IF m \in Deleted(w) /\ place[m] = "queue" THEN "done" ELSE place[m]]
  /\ EndInvocation(w)
  /\ UNCHANGED <<body, receives, latched, coreVars, effects, rows>>

-----------------------------------------------------------------------------
(* The handlers.                                                           *)

\* The effect that w was at came out as ok: go on at stage p, or raise.
Proceed(w, ok, p) ==
  /\ pc' = [pc EXCEPT ![w] = IF ok THEN p ELSE "record"]
  /\ failures' = [failures EXCEPT ![w] = IF ok THEN @ ELSE @ \cup {cur[w]}]

CallResults == IF "core" \in Faults THEN CallOutcomes(MaxAttempts) ELSE {CleanOutcome}

WriteResults == IF "dynamo" \in Faults THEN CallOutcomes(WriteAttempts) ELSE {CleanOutcome}

\* Broken: a failed credit is logged and the fan-out runs all the same.
BrokenCredit(w) ==
  /\ pc[w] = "credit"
  /\ \E r \in CallResults :
       /\ xp' = [xp EXCEPT ![cur[w]] = @ + r.applied]
       /\ Proceed(w, TRUE, AfterCredit(body[cur[w]]))
  /\ UNCHANGED <<queueVars, batch, todo, cur, toBump, latched, coreVars,
                 weekly, monthly, bumps, rows, missed>>

\* client.add_xp, the first effect of xp_awarded.handle.
Credit(w) ==
  /\ pc[w] = "credit"
  /\ \E r \in CallResults :
       /\ xp' = [xp EXCEPT ![cur[w]] = @ + r.applied]
       /\ Proceed(w, r.ok, AfterCredit(body[cur[w]]))
  /\ UNCHANGED <<queueVars, batch, todo, cur, toBump, latched, coreVars,
                 weekly, monthly, bumps, rows, missed>>

\* _add_xp on the weekly bucket, then on the monthly one.
Weekly(w) ==
  /\ pc[w] = "weekly"
  /\ \E r \in WriteResults :
       /\ weekly' = [weekly EXCEPT ![cur[w]] = @ + r.applied]
       /\ Proceed(w, r.ok, "monthly")
  /\ UNCHANGED <<queueVars, batch, todo, cur, toBump, latched, coreVars,
                 xp, monthly, bumps, rows, missed>>

Monthly(w) ==
  /\ pc[w] = "monthly"
  /\ \E r \in WriteResults :
       /\ monthly' = [monthly EXCEPT ![cur[w]] = @ + r.applied]
       /\ Proceed(w, r.ok, AfterBoard(body[cur[w]]))
  /\ UNCHANGED <<queueVars, batch, todo, cur, toBump, latched, coreVars,
                 xp, weekly, bumps, rows, missed>>

\* evaluate_quests_for leaves the event's quests alone: the latch is set, or
\* the 404 that sets it arrives.
SkipQuests(w) ==
  /\ pc[w] = "quests"
  /\ latched[w] \/ ~mounted
  /\ latched' = [latched EXCEPT ![w] = TRUE]
  /\ missed' = missed \cup {cur[w]}
  /\ pc' = [pc EXCEPT ![w] = "record"]
  /\ UNCHANGED <<queueVars, batch, todo, cur, failures, toBump, coreVars,
                 xp, weekly, monthly, bumps, rows>>

\* client.list_quests answers.
ListQuests(w) ==
  /\ pc[w] = "quests"
  /\ ~latched[w] /\ mounted
  /\ toBump' = [toBump EXCEPT ![w] = Advances(body[cur[w]]) \cap active]
  /\ pc' = [pc EXCEPT ![w] = IF toBump'[w] = {} THEN "record" ELSE "bump"]
  /\ UNCHANGED <<queueVars, batch, todo, cur, failures, latched, coreVars, effects, rows>>

\* client.list_quests raises anything but a 404.
ListFails(w) ==
  /\ pc[w] = "quests"
  /\ "core" \in Faults
  /\ ~latched[w]
  /\ Proceed(w, FALSE, "record")
  /\ UNCHANGED <<queueVars, batch, todo, cur, toBump, latched, coreVars, effects, rows>>

\* Broken: a quest that was bumped stays on the list.
BrokenBump(w) ==
  /\ pc[w] = "bump"
  /\ \E q \in toBump[w], r \in CallResults :
       /\ bumps' = [bumps EXCEPT ![cur[w]][q] = @ + r.applied]
       /\ Proceed(w, r.ok, "bump")
  /\ UNCHANGED <<queueVars, batch, todo, cur, toBump, latched, coreVars,
                 xp, weekly, monthly, rows, missed>>

\* client.bump_progress for one of the listed quests.
Bump(w) ==
  /\ pc[w] = "bump"
  /\ \E q \in toBump[w], r \in CallResults :
       LET rest == IF r.ok THEN toBump[w] \ {q} ELSE {}
       IN  /\ bumps' = [bumps EXCEPT ![cur[w]][q] = @ + r.applied]
           /\ toBump' = [toBump EXCEPT ![w] = rest]
           /\ Proceed(w, r.ok, IF rest = {} THEN "record" ELSE "bump")
  /\ UNCHANGED <<queueVars, batch, todo, cur, latched, coreVars,
                 xp, weekly, monthly, rows, missed>>

-----------------------------------------------------------------------------
(* lingo-core, between two calls.                                          *)

\* SURFACE_MODE changes and the quests router appears.
MountQuests ==
  /\ ~mounted
  /\ mounted' = TRUE
  /\ UNCHANGED <<queueVars, loopVars, active, effects, rows>>

\* A quest is completed or expires.
CloseQuest(q) ==
  /\ q \in active
  /\ active' = active \ {q}
  /\ UNCHANGED <<queueVars, loopVars, mounted, effects, rows>>

-----------------------------------------------------------------------------
Handle(w) ==
  \/ Credit(w) \/ Weekly(w) \/ Monthly(w)
  \/ SkipQuests(w) \/ ListQuests(w) \/ ListFails(w) \/ Bump(w)

Loop(w) ==
  \/ RepoUnavailable(w) \/ ParseEscapes(w)
  \/ \E m \in Msgs : Accept(w, m) \/ RejectInvalid(w, m)
  \/ Record(w) \/ Return(w)

Next ==
  \/ \E m \in Msgs : Publish(m) \/ Bury(m)
  \/ \E w \in Workers : Invoke(w) \/ Loop(w) \/ Handle(w) \/ Crash(w) \/ Recycle(w)
  \/ MountQuests
  \/ \E q \in Quests : CloseQuest(q)

Spec == Init /\ [][Next]_vars

\* The queue keeps invoking and redriving, and a container that is not killed
\* keeps running.  Nothing makes a message be published or a fault occur.
Fairness ==
  /\ \A w \in Workers : WF_vars(Invoke(w) \/ Loop(w) \/ Handle(w))
  /\ \A m \in Msgs : WF_vars(Bury(m))

FairSpec == Spec /\ Fairness

-----------------------------------------------------------------------------
(* Properties.                                                             *)

CreditMet(m) == NeedsCredit(body[m]) => xp[m] >= 1

BoardMet(m) == WritesBoard(body[m]) => weekly[m] >= 1 /\ monthly[m] >= 1

\* Quests closed in the meantime are owed nothing.
QuestsMet(m) == m \in missed \/ \A q \in Advances(body[m]) \cap active : bumps[m][q] >= 1

\* Everything the event asked for has happened at least once.
Applied(m) == Valid(body[m]) /\ CreditMet(m) /\ BoardMet(m) /\ QuestsMet(m)

\* A message is deleted from the queue only when all it asked for has been
\* done: no XP and no leaderboard entry is lost by acknowledging an event too
\* early, and of its quest steps those only that the handler gave up because
\* the quests router was not mounted (xp_awarded.py:40-46, evaluator.py:79,
\* handler.py dispatch loop).
AckedMeansApplied == \A m \in Msgs : place[m] = "done" => Applied(m)

\* What redelivery can multiply is bounded by the deliveries there were.
DamageBounded ==
  \A m \in Msgs :
    /\ xp[m] <= MaxAttempts * receives[m]
    /\ weekly[m] <= WriteAttempts * receives[m]
    /\ monthly[m] <= WriteAttempts * receives[m]
    /\ \A q \in Quests : bumps[m][q] <= MaxAttempts * receives[m]

\* A failed credit costs a retry, never a second leaderboard entry or quest
\* step: each entry or step goes back to a credit that worked
\* (xp_awarded.py:48-51); likewise the monthly bucket follows the weekly one.
FanoutFollowsCredit ==
  \A m \in Msgs :
    /\ NeedsCredit(body[m]) =>
         /\ weekly[m] <= WriteAttempts * xp[m]
         /\ \A q \in Quests : bumps[m][q] <= MaxAttempts * xp[m]
    /\ monthly[m] <= WriteAttempts * weekly[m]

\* Records the loop is done with and did not report.
Completed(w) == batch[w] \ (todo[w] \cup failures[w] \cup {cur[w]})

\* handler.py:18-20: "On any exception, append the messageId to
\* batchItemFailures so SQS retries that specific message -- successful peers
\* in the same batch still auto-delete".
PeersAutoDelete ==
  [][\A w \in Workers :
       pc[w] # "idle" /\ pc'[w] = "idle" => \A m \in Completed(w) : place'[m] # "queue"]_vars

\* The event log says "ok" only of messages whose effects all happened.
LogNeverOverstates == \A r \in rows : r.status = "ok" => Applied(r.id)

\* handler.py:185-187: "Each record is written to the event log before
\* dispatch (status received) and updated after (status ok or failed)".
RowsAreClosed ==
  \A m \in Msgs : place[m] = "done" => \A r \in RowsOf(rows, m) : r.status # "received"

\* Every published message leaves the queue for good, whatever fails and
\* however often containers are killed.
EventuallySettled ==
  \A m \in Msgs : place[m] = "queue" ~> place[m] \in {"done", "dlq"}

\* A message nobody can parse ends in the DLQ, "where we can inspect it"
\* (handler.py:206-208).
PoisonIsKept ==
  \A m \in Msgs : place[m] = "queue" /\ ~Valid(body[m]) ~> place[m] = "dlq"

\* The worker keeps the queue's promise.
Contract ==
  INSTANCE Delivery WITH
    status <- [m \in Msgs |-> CASE place[m] = "queue" -> "pending"
                                [] place[m] = "dlq"   -> "dead"
                                [] OTHER -> place[m]],
    tries <- receives,
    met <- {m \in Msgs : Applied(m)}

\* Completed means fulfilled, given up means tried MaxReceive times, and a
\* fulfilled obligation is never lost again.
KeepsContract == Contract!Spec
=============================================================================
