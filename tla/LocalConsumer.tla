--------------------------- MODULE LocalConsumer ---------------------------
(***************************************************************************)
(* The development consumer of local_consumer.py, started by run_local.py: *)
(* a process that takes events off a kombu queue, wraps each as a batch of *)
(* one and gives it to lambda_handler.  The connection may drop and the    *)
(* process may be restarted at any point; the sqlite event log outlives    *)
(* both, unless run_local finds it and manages to remove it.               *)
(*                                                                         *)
(* The brokers are Redis and memory, whose delivery_info has no tag, so    *)
(* that messages are numbered by the process.  lambda_handler is           *)
(* AsyncWorker's loop on one record, its effects taken together.  All      *)
(* messages are on the queue from the start: one that arrives later is one *)
(* that the broker hands out later.                                        *)
(***************************************************************************)
EXTENDS WireFormat, EventsRepo

CONSTANTS
  Events,     \* the messages published
  Payloads,   \* what a message may hold, after kombu has decoded it
  NoEvent,    \* the value of cur between two messages
  PREFETCH,   \* prefetch_count of the consumer
  MaxLosses   \* bound: connection losses and restarts

ASSUME ConsumerAssumption ==
  /\ NoEvent \notin Events
  /\ PREFETCH \in Nat /\ MaxLosses \in Nat
  /\ EVENT_LOG_BACKEND = "sqlite"

VARIABLES
  payload,    \* of each message
  place,      \* "queue", "unacked", "acked" or "rejected"
  pc,         \* "idle", "dispatch", "record" or "settle"
  cur,        \* the message being handled
  id,         \* its messageId, 0 between two messages
  failed,     \* lambda_handler raised or reported it
  severed,    \* the connection it came by is gone
  processed,  \* LocalConsumer._processed
  rows,       \* the event log
  owner,      \* history: of each row this process inserted, the message
  applied,    \* history: times the effects of each message happened
  handled,    \* history: times each message was handled
  losses      \* history: connection losses and restarts

process  == <<pc, cur, id, failed, severed, processed>>
log      == <<rows, owner>>
history  == <<applied, handled, losses>>
vars == <<payload, place, process, log, history>>

Unacked == {e \in Events : place[e] = "unacked"}

TypeOK ==
  /\ payload \in [Events -> Payloads]
  /\ place \in [Events -> {"queue", "unacked", "acked", "rejected"}]
  /\ pc \in {"idle", "dispatch", "record", "settle"}
  /\ cur \in Events \cup {NoEvent}
  /\ id \in Nat /\ processed \in Nat
  /\ failed \in BOOLEAN /\ severed \in BOOLEAN
  /\ rows \subseteq [id : Nat, at : Nat, status : {"received", "ok", "failed"}]
  /\ DOMAIN owner \subseteq {r.id : r \in rows} /\ owner \in [DOMAIN owner -> Events]
  /\ applied \in [Events -> Nat] /\ handled \in [Events -> Nat]
  /\ losses \in 0..MaxLosses

Init ==
  /\ payload \in [Events -> Payloads]
  /\ place = [e \in Events |-> "queue"]
  /\ pc = "idle"
  /\ cur = NoEvent
  /\ id = 0
  /\ failed = FALSE
  /\ severed = FALSE
  /\ processed = 0
  /\ rows = {}
  /\ owner = <<>>
  /\ applied = [e \in Events |-> 0]
  /\ handled = [e \in Events |-> 0]
  /\ losses = 0

-----------------------------------------------------------------------------
\* The broker hands out messages up to the prefetch count.
Receive(e) ==
  /\ place[e] = "queue"
  /\ ~severed
  /\ Cardinality(Unacked) < PREFETCH
  /\ place' = [place EXCEPT ![e] = "unacked"]
  /\ UNCHANGED <<payload, process, log, history>>

\* save for the current message; a row that is there stays whose it was.
SaveRow(e, n) ==
  /\ rows' \in Saved(rows, n)
  /\ owner' = [i \in DOMAIN owner \cup {r.id : r \in rows' \ rows} |->
                 IF i \in DOMAIN owner THEN owner[i] ELSE e]

\* Broken: only a message that is not refused is counted.
BrokenHandle(e, next, fails) ==
  /\ pc = "idle"
  /\ place[e] = "unacked"
  /\ pc' = next
  /\ failed' = fails
  /\ cur' = e
  /\ id' = processed
  /\ processed' = IF fails THEN processed ELSE processed + 1
  /\ handled' = [handled EXCEPT ![e] = @ + 1]
  /\ UNCHANGED <<payload, place, severed, applied, losses>>

\* handle numbers the message and calls lambda_handler ...
Handle(e, next, fails) ==
  /\ pc = "idle"
  /\ place[e] = "unacked"
  /\ pc' = next
  /\ failed' = fails
  /\ cur' = e
  /\ id' = processed
  /\ processed' = processed + 1
  /\ handled' = [handled EXCEPT ![e] = @ + 1]
  /\ UNCHANGED <<payload, place, severed, applied, losses>>

\* ... which raises before it saves anything: the log cannot be opened, or the
\* body does not decode; ...
HandlerRaises(e) ==
  /\ ConstructorRaises \/ UnwrapRaises(payload[e])
  /\ Handle(e, "settle", TRUE)
  /\ UNCHANGED log

\* ... or reports a body that holds no event; ...
HandlerRejects(e) ==
  /\ ~UnwrapRaises(payload[e])
  /\ Unwrap(payload[e]) # <<"event">>
  /\ Handle(e, "record", TRUE)
  /\ SaveRow(e, processed)

\* ... or dispatches the event.
HandlerAccepts(e) ==
  /\ ~UnwrapRaises(payload[e])
  /\ Unwrap(payload[e]) = <<"event">>
  /\ Handle(e, "dispatch", FALSE)
  /\ SaveRow(e, processed)

\* The event's handler returns, or raises before or after its effects.
Dispatch ==
  /\ pc = "dispatch"
  /\ \E ok \in BOOLEAN, n \in {0, 1} :
       /\ ok => n = 1
       /\ failed' = ~ok
       /\ applied' = [applied EXCEPT ![cur] = @ + n]
  /\ pc' = "record"
  /\ UNCHANGED <<payload, place, cur, id, severed, processed, log, handled, losses>>

\* Broken: a status no reader of the log knows.
BrokenFinalStatus == IF failed THEN "error" ELSE "ok"

FinalStatus == IF failed THEN "failed" ELSE "ok"

Record ==
  /\ pc = "record"
  /\ rows' \in Updated(rows, id, FinalStatus)
  /\ pc' = "settle"
  /\ UNCHANGED <<payload, place, cur, id, failed, severed, processed, owner, history>>

\* Broken: reject(requeue=True).
BrokenRequeue == IF failed THEN "queue" ELSE "acked"

\* message.ack() or message.reject(requeue=False).
Fate == IF failed THEN "rejected" ELSE "acked"

\* Broken: an answer on a connection that is gone is waited for.
BrokenSettle ==
  /\ pc = "settle" /\ ~severed
  /\ place' = [place EXCEPT ![cur] = Fate]
  /\ pc' = "idle"
  /\ cur' = NoEvent
  /\ failed' = FALSE
  /\ id' = 0
  /\ UNCHANGED <<payload, severed, processed, log, history>>

\* On a connection that is gone either raises, and the mixin reconnects.
Settle ==
  /\ pc = "settle"
  /\ place' = IF severed THEN place ELSE [place EXCEPT ![cur] = Fate]
  /\ pc' = "idle"
  /\ cur' = NoEvent
  /\ failed' = FALSE
  /\ severed' = FALSE
  /\ id' = 0
  /\ UNCHANGED <<payload, processed, log, history>>

-----------------------------------------------------------------------------
\* The broker takes back what was not acknowledged.
Requeue == place' = [e \in Events |-> IF place[e] = "unacked" THEN "queue" ELSE place[e]]

LoseConnection ==
  /\ losses < MaxLosses
  /\ ~severed
  /\ losses' = losses + 1
  /\ Requeue
  /\ severed' = (pc # "idle")
  /\ UNCHANGED <<payload, pc, cur, id, failed, processed, log, applied, handled>>

\* main() removes the log of the last process and goes on with that log where
\* it cannot: os.remove raises, or only .env names the path and os.environ does
\* not.  No row of it was inserted by this process.
StartLog == rows' \in {{}, rows} /\ owner' = <<>>

Restart ==
  /\ losses < MaxLosses
  /\ losses' = losses + 1
  /\ Requeue
  /\ pc' = "idle"
  /\ cur' = NoEvent
  /\ failed' = FALSE
  /\ severed' = FALSE
  /\ id' = 0
  /\ processed' = 0
  /\ StartLog
  /\ UNCHANGED <<payload, applied, handled>>

-----------------------------------------------------------------------------
Consume ==
  \/ \E e \in Events :
       Receive(e) \/ HandlerRaises(e) \/ HandlerRejects(e) \/ HandlerAccepts(e)
  \/ Dispatch \/ Record \/ Settle

Next == Consume \/ LoseConnection \/ Restart

Spec == Init /\ [][Next]_vars

\* The process runs on; nothing makes messages arrive or connections drop.
FairSpec == Spec /\ WF_vars(Consume)

-----------------------------------------------------------------------------
\* A row that this process inserted says ok only if the effects of its message
\* happened: the number a message gets is no other's (local_consumer.py:55-65),
\* refused messages and those that come back included, although sqlite drops
\* the insert of a number it has and updates the row that is there.
LogTellsOwnStory ==
  \A r \in rows :
    r.id \in DOMAIN owner /\ r.status = "ok" => applied[owner[r.id]] >= 1

\* What is acknowledged was done.  A message is done over only where a
\* connection or a process was lost: no failure brings it back, so that "a
\* misshapen message doesn't loop the consumer" (local_consumer.py:50-52).
DoneAndNoLoop ==
  \A e \in Events :
    /\ place[e] = "acked" => applied[e] >= 1
    /\ applied[e] <= handled[e]
    /\ handled[e] <= 1 + losses

\* Every message leaves the broker, "a stuck message is worse than a lost one"
\* (local_consumer.py:78-79).
NothingSticks == \A e \in Events : place[e] = "queue" ~> place[e] \in {"acked", "rejected"}
=============================================================================
