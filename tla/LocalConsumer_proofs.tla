------------------------ MODULE LocalConsumer_proofs ------------------------
(***************************************************************************)
(* The safety properties of LocalConsumer for any number of messages,      *)
(* losses and restarts, that the log tells its own story included.  Then   *)
(* how its work runs down, and what the wire format does to every text.    *)
(***************************************************************************)
EXTENDS LocalConsumer, FiniteSetTheorems, TLAPS

\* What is in hand, and where the broker has it.
HandInv ==
  /\ pc = "idle" <=> cur = NoEvent
  /\ pc = "idle" => ~severed
  /\ severed => Unacked = {}
  /\ pc # "idle" /\ ~severed => place[cur] = "unacked"

\* A message that will be handled again was handled once per loss at most.
CountInv ==
  \A e \in Events :
    /\ place[e] \in {"queue", "unacked"} /\ (e # cur \/ severed) => handled[e] <= losses
    /\ handled[e] <= 1 + losses

\* Effects are ahead of what they permit: the ack.
EffectInv ==
  /\ \A e \in Events : applied[e] <= handled[e]
  /\ \A e \in Events : place[e] = "acked" => applied[e] >= 1
  /\ pc = "dispatch" => applied[cur] < handled[cur]
  /\ pc \in {"record", "settle"} /\ ~failed => applied[cur] >= 1

\* This process inserted rows for the numbers it gave out, the row of the number
\* in hand, if it did, for the message in hand.
LogInv ==
  /\ \A n \in DOMAIN owner : n < processed
  /\ pc # "idle" /\ id \in DOMAIN owner => owner[id] = cur
  /\ LogTellsOwnStory

IInv == TypeOK /\ HandInv /\ CountInv /\ EffectInv

Ids(R) == {r.id : r \in R}
LogRows == [id : Nat, at : Nat, status : {"received", "ok", "failed"}]

-----------------------------------------------------------------------------
(* The log.                                                                *)

\* save adds a row of its own number, or nothing.
LEMMA SaveCases ==
  ASSUME NEW R, NEW n \in Nat, NEW S \in Saved(R, n)
  PROVE  \/ S = R
         \/ /\ \A r \in R : r.id # n
            /\ S = R \cup {[id |-> n, at |-> 1, status |-> "received"]}
<1>1. S = R \/ (RowsOf(R, n) = {} /\ S = R \cup {NewRow(R, n)})
  BY ConsumerAssumption DEF Saved, OrFails, SqliteSave
<1>2. ASSUME RowsOf(R, n) = {}
      PROVE  NewRow(R, n) = [id |-> n, at |-> 1, status |-> "received"]
  <2>1. Cardinality({}) = 0
    BY FS_EmptySet
  <2> QED
    BY <1>2, <2>1 DEF NewRow
<1> QED
  BY <1>1, <1>2 DEF RowsOf

\* update_status changes the status of the rows of its number, or nothing.
LEMMA UpdateCases ==
  ASSUME NEW R, R \subseteq LogRows, NEW n \in Nat, NEW s \in {"ok", "failed"},
         NEW S \in Updated(R, n, s)
  PROVE  /\ S \subseteq LogRows
         /\ Ids(S) = Ids(R)
         /\ \A r \in S : r \in R \/ (r.id = n /\ r.status = s)
<1>1. CASE S = R
  BY <1>1
<1>2. CASE S = SetStatus(R, RowsOf(R, n), s)
  <2> DEFINE new(r) == [r EXCEPT !.status = s]
  <2>1. \A r \in R : new(r) \in LogRows /\ new(r).id = r.id /\ new(r).status = s
    BY DEF LogRows
  <2>2. \A r \in S : r \in R \/ (\E p \in R : p.id = n /\ r = new(p))
    BY <1>2 DEF SetStatus, RowsOf
  <2>3. \A r \in R : r \in S \/ (r.id = n /\ new(r) \in S)
    BY <1>2 DEF SetStatus, RowsOf
  <2>4. S \subseteq LogRows
    BY <2>1, <2>2
  <2>5. \A r \in S : r \in R \/ (r.id = n /\ r.status = s)
    BY <2>1, <2>2
  <2> HIDE DEF new
  <2>6. \A r \in S : \E p \in R : r.id = p.id
    BY <2>1, <2>2
  <2>7. \A r \in R : \E p \in S : r.id = p.id
    BY <2>1, <2>3
  <2>8. Ids(S) = Ids(R)
    BY <2>6, <2>7 DEF Ids
  <2> QED
    BY <2>4, <2>5, <2>8
<1> QED
  BY <1>1, <1>2, ConsumerAssumption DEF Updated, OrFails, SqliteUpdate

\* A saved row keeps the log well formed and everyone else's row theirs.
LEMMA SaveRowTyped ==
  ASSUME TypeOK, NEW e \in Events, NEW n \in Nat, SaveRow(e, n)
  PROVE  /\ rows' \subseteq LogRows
         /\ DOMAIN owner' \subseteq Ids(rows') /\ owner' \in [DOMAIN owner' -> Events]
         /\ \A i \in DOMAIN owner : i \in DOMAIN owner' /\ owner'[i] = owner[i]
         /\ \A i \in DOMAIN owner' \ DOMAIN owner : i = n /\ owner'[i] = e
         /\ \A r \in rows' \ rows : r.id = n /\ r.status = "received"
         /\ \A r \in rows : r.id \in DOMAIN owner' => r.id \in DOMAIN owner
<1> DEFINE Inserted == Ids(rows' \ rows)
<1>1. /\ rows \subseteq LogRows
      /\ DOMAIN owner \subseteq Ids(rows) /\ owner \in [DOMAIN owner -> Events]
  BY DEF TypeOK, LogRows, Ids
<1>2. owner' = [i \in DOMAIN owner \cup Inserted |-> IF i \in DOMAIN owner THEN owner[i] ELSE e]
  BY DEF SaveRow, Ids
<1>3. \/ rows' = rows
      \/ /\ \A r \in rows : r.id # n
         /\ rows' = rows \cup {[id |-> n, at |-> 1, status |-> "received"]}
  BY SaveCases DEF SaveRow
<1>4. rows' \subseteq LogRows /\ rows \subseteq rows'
  BY <1>1, <1>3 DEF LogRows
<1>5. \A r \in rows' \ rows : r.id = n /\ r.status = "received" /\ \A p \in rows : p.id # n
  BY <1>3
<1>6. \A i \in Inserted : i = n /\ i \in Ids(rows')
  BY <1>5 DEF Ids
<1>7. \A r \in rows : r.id \notin Inserted
  BY <1>5 DEF Ids
<1>8. \A i \in Ids(rows) : i \in Ids(rows')
  BY <1>4 DEF Ids
<1> HIDE DEF Inserted
<1>9. /\ DOMAIN owner' = DOMAIN owner \cup Inserted
      /\ \A i \in DOMAIN owner' : owner'[i] = IF i \in DOMAIN owner THEN owner[i] ELSE e
      /\ \A i \in DOMAIN owner : owner[i] \in Events
  BY <1>1, <1>2
<1>10. owner' \in [DOMAIN owner' -> Events]
  <2>1. owner' \in [DOMAIN owner \cup Inserted -> Events]
    BY <1>2, <1>9
  <2> QED
    BY <1>9, <2>1
<1> QED
  BY <1>1, <1>4, <1>5, <1>6, <1>7, <1>8, <1>9, <1>10

-----------------------------------------------------------------------------
(* Types and counts.                                                       *)

LEMMA NoOwners == DOMAIN <<>> = {} /\ <<>> \in [DOMAIN <<>> -> Events]
OBVIOUS

LEMMA InitInv == Init => IInv
<1> SUFFICES ASSUME Init PROVE IInv
  OBVIOUS
<1>1. DOMAIN owner \subseteq {r.id : r \in rows} /\ owner \in [DOMAIN owner -> Events]
  BY NoOwners DEF Init
<1>2. TypeOK
  <2>1. /\ payload \in [Events -> Payloads] /\ rows = {}
        /\ place \in [Events -> {"queue", "unacked", "acked", "rejected"}]
        /\ applied \in [Events -> Nat] /\ handled \in [Events -> Nat]
    BY DEF Init
  <2>2. losses \in 0..MaxLosses
    BY ConsumerAssumption DEF Init
  <2> QED
    BY <1>1, <2>1, <2>2 DEF Init, TypeOK
<1>3. HandInv /\ CountInv /\ EffectInv
  BY ConsumerAssumption DEF Init, HandInv, CountInv, EffectInv, Unacked
<1> QED
  BY <1>2, <1>3 DEF IInv

LEMMA TypesKept ==
  ASSUME TypeOK, HandInv, Next
  PROVE  TypeOK'
<1> USE DEF TypeOK
<1>1. ASSUME NEW e \in Events, NEW next \in {"settle", "record", "dispatch"},
             NEW fails \in BOOLEAN, Handle(e, next, fails)
      PROVE  /\ pc' = next /\ cur' = e /\ failed' = fails
             /\ id' \in Nat /\ processed' \in Nat
             /\ handled' \in [Events -> Nat]
             /\ UNCHANGED <<payload, place, severed, applied, losses>>
  BY <1>1 DEF Handle
<1>2. ASSUME NEW e \in Events, SaveRow(e, processed)
      PROVE  /\ rows' \subseteq [id : Nat, at : Nat, status : {"received", "ok", "failed"}]
             /\ DOMAIN owner' \subseteq {r.id : r \in rows'}
             /\ owner' \in [DOMAIN owner' -> Events]
  BY <1>2, SaveRowTyped DEF LogRows, Ids
<1>3. ASSUME NEW e \in Events, Receive(e) PROVE TypeOK'
  BY <1>3 DEF Receive, process, log, history
<1>4. ASSUME NEW e \in Events, HandlerRaises(e) PROVE TypeOK'
  BY <1>1, <1>4 DEF HandlerRaises, log
<1>5. ASSUME NEW e \in Events, HandlerRejects(e) PROVE TypeOK'
  BY <1>1, <1>2, <1>5 DEF HandlerRejects
<1>6. ASSUME NEW e \in Events, HandlerAccepts(e) PROVE TypeOK'
  BY <1>1, <1>2, <1>6 DEF HandlerAccepts
<1>7. CASE Dispatch
  <2>1. PICK ok \in BOOLEAN, n \in {0, 1} :
          failed' = ~ok /\ applied' = [applied EXCEPT ![cur] = @ + n]
    BY <1>7 DEF Dispatch
  <2>2. applied' \in [Events -> Nat]
    <3>1. cur \in Events
      BY <1>7 DEF Dispatch, HandInv
    <3>2. applied[cur] + n \in Nat
      BY <3>1
    <3> QED
      BY <2>1, <3>2
  <2>3. failed' \in BOOLEAN
    BY <2>1
  <2> QED
    BY <1>7, <2>2, <2>3 DEF Dispatch, log
<1>8. CASE Record
  <2>1. FinalStatus \in {"ok", "failed"}
    BY DEF FinalStatus
  <2>2. rows' \subseteq LogRows /\ Ids(rows') = Ids(rows)
    BY <1>8, <2>1, UpdateCases DEF Record, LogRows
  <2> QED
    BY <1>8, <2>2 DEF Record, LogRows, Ids, history
<1>9. CASE Settle
  BY <1>9 DEF Settle, Fate, log, history
<1>10. CASE LoseConnection
  <2>1. losses' \in 0..MaxLosses
    BY <1>10, ConsumerAssumption DEF LoseConnection
  <2>2. place' \in [Events -> {"queue", "unacked", "acked", "rejected"}]
    BY <1>10 DEF LoseConnection, Requeue
  <2>3. severed' \in BOOLEAN
    BY <1>10 DEF LoseConnection
  <2>4. UNCHANGED <<payload, pc, cur, id, failed, processed, rows, owner, applied, handled>>
    BY <1>10 DEF LoseConnection, log
  <2> QED
    BY <2>1, <2>2, <2>3, <2>4
<1>11. CASE Restart
  <2>1. losses' \in 0..MaxLosses
    BY <1>11, ConsumerAssumption DEF Restart
  <2>2. place' \in [Events -> {"queue", "unacked", "acked", "rejected"}]
    BY <1>11 DEF Restart, Requeue
  <2>3. /\ rows' \subseteq [id : Nat, at : Nat, status : {"received", "ok", "failed"}]
        /\ DOMAIN owner' \subseteq {r.id : r \in rows'} /\ owner' \in [DOMAIN owner' -> Events]
    <3>1. rows' \in {{}, rows} /\ owner' = <<>>
      BY <1>11 DEF Restart, StartLog
    <3> QED
      BY <3>1, NoOwners
  <2> QED
    BY <1>11, <2>1, <2>2, <2>3 DEF Restart
<1> QED
  BY <1>3, <1>4, <1>5, <1>6, <1>7, <1>8, <1>9, <1>10, <1>11 DEF Next, Consume

\* No message is in hand twice, and none is left on a broken connection.
LEMMA HandKept ==
  ASSUME TypeOK, HandInv, Next
  PROVE  HandInv'
<1> USE DEF TypeOK, HandInv
<1>1. ASSUME NEW e \in Events, Receive(e) PROVE HandInv'
  BY <1>1 DEF Receive, process, Unacked
<1>2. ASSUME NEW e \in Events, NEW next \in {"settle", "record", "dispatch"},
             NEW fails \in BOOLEAN, Handle(e, next, fails)
      PROVE  HandInv'
  BY <1>2, ConsumerAssumption DEF Handle, Unacked
<1>3. ASSUME NEW e \in Events, HandlerRaises(e) \/ HandlerRejects(e) \/ HandlerAccepts(e)
      PROVE  HandInv'
  BY <1>2, <1>3 DEF HandlerRaises, HandlerRejects, HandlerAccepts
<1>4. CASE Dispatch
  BY <1>4 DEF Dispatch, Unacked
<1>5. CASE Record
  BY <1>5 DEF Record, Unacked
<1>6. CASE Settle
  BY <1>6 DEF Settle, Unacked
<1>7. CASE LoseConnection
  BY <1>7 DEF LoseConnection, Requeue, Unacked
<1>8. CASE Restart
  BY <1>8 DEF Restart, Requeue, Unacked
<1> QED
  BY <1>1, <1>3, <1>4, <1>5, <1>6, <1>7, <1>8 DEF Next, Consume

\* Only a loss brings a message back.
LEMMA CountKept ==
  ASSUME TypeOK, HandInv, CountInv, Next
  PROVE  CountInv'
<1> USE DEF TypeOK, HandInv, CountInv
<1> losses \in Nat
  BY ConsumerAssumption
<1>1. ASSUME NEW e \in Events, Receive(e) PROVE CountInv'
  BY <1>1 DEF Receive, process, history
<1>2. ASSUME NEW e \in Events, NEW next, NEW fails, Handle(e, next, fails)
      PROVE  CountInv'
  <2>1. handled[e] <= losses /\ cur' = e /\ ~severed'
    BY <1>2, ConsumerAssumption DEF Handle, Unacked
  <2>2. /\ handled'[e] <= 1 + losses
        /\ \A o \in Events \ {e} : handled'[o] = handled[o] /\ o # cur
        /\ UNCHANGED <<place, losses>>
    BY <1>2, <2>1, ConsumerAssumption DEF Handle
  <2> QED
    BY <2>1, <2>2
<1>3. ASSUME NEW e \in Events, HandlerRaises(e) \/ HandlerRejects(e) \/ HandlerAccepts(e)
      PROVE  CountInv'
  BY <1>2, <1>3 DEF HandlerRaises, HandlerRejects, HandlerAccepts
<1>4. CASE Dispatch
  BY <1>4 DEF Dispatch
<1>5. CASE Record
  BY <1>5 DEF Record, history
<1>6. CASE Settle
  BY <1>6 DEF Settle, Fate, history
<1>7. CASE LoseConnection \/ Restart
  <2>1. losses' = losses + 1 /\ handled' = handled
    BY <1>7 DEF LoseConnection, Restart
  <2>2. \A e \in Events : handled'[e] <= losses'
    BY <2>1
  <2>3. \A e \in Events : handled'[e] <= 1 + losses'
    BY <2>1, <2>2
  <2> QED
    BY <2>2, <2>3
<1> QED
  BY <1>1, <1>3, <1>4, <1>5, <1>6, <1>7 DEF Next, Consume

\* An ack follows the effects it stands for.
LEMMA EffectKept ==
  ASSUME TypeOK, HandInv, EffectInv, Next
  PROVE  EffectInv'
<1> USE DEF TypeOK, HandInv, EffectInv
<1>1. ASSUME NEW e \in Events, Receive(e) PROVE EffectInv'
  BY <1>1 DEF Receive, process, history
<1>2. ASSUME NEW e \in Events, NEW next, NEW fails \in BOOLEAN, Handle(e, next, fails),
             next = "dispatch" \/ fails
      PROVE  EffectInv'
  BY <1>2 DEF Handle
<1>3. ASSUME NEW e \in Events, HandlerRaises(e) \/ HandlerRejects(e) \/ HandlerAccepts(e)
      PROVE  EffectInv'
  BY <1>2, <1>3 DEF HandlerRaises, HandlerRejects, HandlerAccepts
<1>4. CASE Dispatch
  <2>1. PICK ok \in BOOLEAN, n \in {0, 1} :
          /\ ok => n = 1
          /\ failed' = ~ok
          /\ applied' = [applied EXCEPT ![cur] = @ + n]
    BY <1>4 DEF Dispatch
  <2>2. /\ cur \in Events /\ applied[cur] < handled[cur]
        /\ pc' = "record" /\ UNCHANGED <<place, cur, handled>>
    BY <1>4 DEF Dispatch
  <2>3. \A e \in Events :
          applied'[e] \in Nat /\ applied'[e] <= handled'[e] /\ applied'[e] >= applied[e]
    BY <2>1, <2>2
  <2>4. ~failed' => applied'[cur] >= 1
    <3>1. CASE ok
      BY <2>1, <2>2, <3>1
    <3>2. CASE ~ok
      BY <2>1, <3>2
    <3> QED
      BY <3>1, <3>2
  <2> QED
    BY <2>2, <2>3, <2>4
<1>5. CASE Record
  BY <1>5 DEF Record, history
<1>6. CASE Settle
  BY <1>6 DEF Settle, Fate, history
<1>7. CASE LoseConnection \/ Restart
  <2>1. \A e \in Events : place'[e] = "acked" => place[e] = "acked"
    BY <1>7 DEF LoseConnection, Restart, Requeue
  <2>2. UNCHANGED <<applied, handled>>
    BY <1>7 DEF LoseConnection, Restart
  <2>3. pc' = "idle" \/ UNCHANGED <<pc, cur, failed>>
    BY <1>7 DEF LoseConnection, Restart
  <2> QED
    BY <2>1, <2>2, <2>3
<1> QED
  BY <1>1, <1>3, <1>4, <1>5, <1>6, <1>7 DEF Next, Consume

LEMMA NextInv == IInv /\ [Next]_vars => IInv'
<1> SUFFICES ASSUME IInv, [Next]_vars PROVE IInv'
  OBVIOUS
<1>1. CASE Next
  BY <1>1, TypesKept, HandKept, CountKept, EffectKept DEF IInv
<1>2. CASE UNCHANGED vars
  BY <1>2 DEF vars, process, log, history, IInv, TypeOK, HandInv, CountInv, EffectInv, Unacked
<1> QED
  BY <1>1, <1>2

LEMMA Invariant == Spec => []IInv
BY InitInv, NextInv, PTL DEF Spec

\* The variables keep their types.
THEOREM TypeCorrect == Spec => []TypeOK
<1>1. IInv => TypeOK
  BY DEF IInv
<1> QED
  BY <1>1, Invariant, PTL

\* handle acknowledges what was done and nothing else, and no failure of a
\* message makes the consumer handle it again.
THEOREM NoLoop == Spec => []DoneAndNoLoop
<1>1. IInv => DoneAndNoLoop
  BY DEF IInv, CountInv, EffectInv, DoneAndNoLoop
<1> QED
  BY <1>1, Invariant, PTL

-----------------------------------------------------------------------------
(* The log.                                                                *)

LEMMA LogKept ==
  ASSUME TypeOK, HandInv, EffectInv, LogInv, Next
  PROVE  LogInv'
<1> USE DEF TypeOK, HandInv, LogInv, LogTellsOwnStory
<1>1. /\ \A n \in DOMAIN owner : n \in Nat /\ owner[n] \in Events /\ n < processed
      /\ processed \in Nat
  BY DEF TypeOK
<1>2. ASSUME NEW e \in Events, Receive(e) PROVE LogInv'
  BY <1>2 DEF Receive, process, log, history
<1>3. ASSUME NEW e \in Events, HandlerRaises(e) PROVE LogInv'
  <2>1. /\ UNCHANGED <<rows, owner, applied>>
        /\ id' = processed /\ processed' = processed + 1
    BY <1>3 DEF HandlerRaises, Handle, log
  <2>2. \A n \in DOMAIN owner : n # processed /\ n < processed + 1
    BY <1>1
  <2> QED
    BY <2>1, <2>2
<1>4. ASSUME NEW e \in Events, HandlerRejects(e) \/ HandlerAccepts(e) PROVE LogInv'
  <2>1. /\ applied' = applied /\ cur' = e
        /\ id' = processed /\ processed' = processed + 1
        /\ SaveRow(e, processed)
    BY <1>4 DEF HandlerRejects, HandlerAccepts, Handle
  <2>2. /\ \A n \in DOMAIN owner : n < processed /\ owner'[n] = owner[n]
        /\ \A n \in DOMAIN owner' \ DOMAIN owner : n = processed /\ owner'[n] = e
        /\ \A r \in rows' \ rows : r.status = "received"
        /\ \A r \in rows : r.id \in DOMAIN owner' => r.id \in DOMAIN owner
    BY <1>1, <2>1, SaveRowTyped
  <2>3. \A n \in DOMAIN owner' : n < processed + 1
    BY <1>1, <2>2
  <2>4. processed \in DOMAIN owner' => owner'[processed] = e
    BY <1>1, <2>2
  <2>5. \A r \in rows' : r.id \in DOMAIN owner' /\ r.status = "ok"
          => applied[owner'[r.id]] >= 1
    BY <2>2
  <2> QED
    BY <2>1, <2>3, <2>4, <2>5
<1>5. CASE Dispatch
  <2>1. PICK n \in {0, 1} : applied' = [applied EXCEPT ![cur] = @ + n]
    BY <1>5 DEF Dispatch
  <2>2. /\ UNCHANGED <<rows, owner, cur, id, processed>> /\ pc # "idle"
    BY <1>5 DEF Dispatch, log
  <2>3. \A e \in Events : applied[e] >= 1 => applied'[e] >= 1
    BY <2>1
  <2> QED
    BY <1>1, <2>2, <2>3
<1>6. CASE Record
  <2>1. /\ rows' \in Updated(rows, id, FinalStatus) /\ pc = "record"
        /\ UNCHANGED <<owner, cur, id, processed, failed, applied>>
    BY <1>6 DEF Record, history
  <2>2. FinalStatus \in {"ok", "failed"} /\ (FinalStatus = "ok" => ~failed)
    BY DEF FinalStatus
  <2>3. /\ Ids(rows') = Ids(rows)
        /\ \A r \in rows' : r \in rows \/ (r.id = id /\ r.status = FinalStatus)
    BY <2>1, <2>2, UpdateCases DEF LogRows
  <2>4. ~failed => applied[cur] >= 1
    BY <2>1 DEF EffectInv
  <2>5. \A r \in rows' : r.id \in DOMAIN owner /\ r.status = "ok"
          => applied[owner[r.id]] >= 1
    BY <2>1, <2>2, <2>3, <2>4
  <2> QED
    BY <2>1, <2>5
<1>7. CASE Settle
  BY <1>7 DEF Settle, log, history
<1>8. CASE LoseConnection
  BY <1>8 DEF LoseConnection, log
<1>9. CASE Restart
  <2>1. DOMAIN owner' = {} /\ pc' = "idle"
    BY <1>9, NoOwners DEF Restart, StartLog
  <2> QED
    BY <2>1
<1> QED
  BY <1>2, <1>3, <1>4, <1>5, <1>6, <1>7, <1>8, <1>9 DEF Next, Consume

\* Whether run_local removes the log of the last process or not, an "ok" in a
\* row is about the message this process inserted it for.
THEOREM OwnStory == Spec => []LogTellsOwnStory
<1>1. Init => LogInv
  BY DEF Init, LogInv, LogTellsOwnStory
<1>2. IInv /\ LogInv /\ [Next]_vars => LogInv'
  <2>1. CASE UNCHANGED vars
    BY <2>1 DEF vars, process, log, history, LogInv, LogTellsOwnStory
  <2> QED
    BY <2>1, LogKept DEF IInv
<1>3. LogInv => LogTellsOwnStory
  BY DEF LogInv
<1> QED
  BY <1>1, <1>2, <1>3, Invariant, PTL DEF Spec

-----------------------------------------------------------------------------
(* How long the consumer is busy.                                          *)

Queued    == {e \in Events : place[e] = "queue"}
Unsettled == {e \in Events : place[e] \in {"queue", "unacked"}}

\* The steps left with the message in hand; one that came by a connection that
\* is gone is waited for until the mixin reconnects.
InHand ==
  (CASE pc = "idle" -> 4 [] pc = "dispatch" -> 3 [] pc = "record" -> 2 [] pc = "settle" -> 1)
  + (IF severed THEN 4 ELSE 0)

\* An upper bound of the steps left until every message is settled.
WorkLeft == 4 * Cardinality(Unsettled) + Cardinality(Queued) + InHand

\* The guards of the consumer's actions, one disjunct per action; what the log
\* does is never in the way.
CanConsume ==
  \/ Queued # {} /\ ~severed /\ Cardinality(Unacked) < PREFETCH
  \/ pc = "idle" /\ Unacked # {}
  \/ pc \in {"dispatch", "record", "settle"}

\* Every step of the consumer is one nearer to the end of its work, and that
\* end is what lies behind its guards.
WorksOff == Consume => WorkLeft' < WorkLeft
RestsWhenDone == CanConsume \/ Unsettled = {}

LEMMA WorkRange ==
  ASSUME IsFiniteSet(Events), TypeOK
  PROVE  /\ IsFiniteSet(Queued) /\ IsFiniteSet(Unsettled)
         /\ Cardinality(Queued) \in Nat /\ Cardinality(Unsettled) \in Nat
         /\ Cardinality(Queued) <= Cardinality(Events)
         /\ Cardinality(Unsettled) <= Cardinality(Events)
         /\ InHand \in 1..8
         /\ WorkLeft \in 0..(5 * Cardinality(Events) + 8)
<1>1. Queued \subseteq Events /\ Unsettled \subseteq Events
  BY DEF Queued, Unsettled
<1>2. /\ IsFiniteSet(Queued) /\ IsFiniteSet(Unsettled)
      /\ Cardinality(Queued) <= Cardinality(Events)
      /\ Cardinality(Unsettled) <= Cardinality(Events)
  BY <1>1, FS_Subset
<1>3. /\ Cardinality(Queued) \in Nat /\ Cardinality(Unsettled) \in Nat
      /\ Cardinality(Events) \in Nat
  BY <1>2, FS_CardinalityType
<1>4. InHand \in 1..8
  BY DEF InHand, TypeOK
<1> QED
  BY <1>2, <1>3, <1>4 DEF WorkLeft

\* A message that is taken from a finite set.
LEMMA OneFewer ==
  ASSUME NEW S, NEW T, IsFiniteSet(S), T \subseteq S, T # S
  PROVE  Cardinality(T) \in Nat /\ Cardinality(S) \in Nat
         /\ Cardinality(T) + 1 <= Cardinality(S)
<1>1. IsFiniteSet(T) /\ Cardinality(T) <= Cardinality(S)
      /\ (Cardinality(S) = Cardinality(T) => S = T)
  BY FS_Subset
<1>2. Cardinality(T) \in Nat /\ Cardinality(S) \in Nat
  BY <1>1, FS_CardinalityType
<1> QED
  BY <1>1, <1>2

LEMMA WorksOffStep ==
  ASSUME IsFiniteSet(Events), TypeOK, HandInv, Consume
  PROVE  WorkLeft' < WorkLeft
<1>1. /\ Cardinality(Queued) \in Nat /\ Cardinality(Unsettled) \in Nat
      /\ InHand \in 1..8 /\ IsFiniteSet(Queued) /\ IsFiniteSet(Unsettled)
  BY WorkRange
\* The three ways a step brings the end nearer.
<1>2. ASSUME place' = place, InHand' \in Nat, InHand' < InHand
      PROVE  WorkLeft' < WorkLeft
  <2>1. Queued' = Queued /\ Unsettled' = Unsettled
    BY <1>2 DEF Queued, Unsettled
  <2>2. /\ Cardinality(Queued') = Cardinality(Queued)
        /\ Cardinality(Unsettled') = Cardinality(Unsettled)
    BY <2>1
  <2> QED
    BY <1>1, <1>2, <2>2 DEF WorkLeft
<1>3. ASSUME NEW e \in Events, Receive(e)
      PROVE  WorkLeft' < WorkLeft
  <2>1. Unsettled' = Unsettled /\ Queued' \subseteq Queued /\ Queued' # Queued
    BY <1>3 DEF Receive, TypeOK, Queued, Unsettled
  <2>2. InHand' = InHand
    BY <1>3 DEF Receive, process, InHand
  <2>3. /\ Cardinality(Queued') \in Nat
        /\ Cardinality(Queued') + 1 <= Cardinality(Queued)
    BY <1>1, <2>1, OneFewer
  <2>4. Cardinality(Unsettled') = Cardinality(Unsettled)
    BY <2>1
  <2> QED
    BY <1>1, <2>2, <2>3, <2>4 DEF WorkLeft
<1>4. CASE Settle /\ ~severed
  <2>1. /\ cur \in Events /\ place[cur] = "unacked"
        /\ place' = [place EXCEPT ![cur] = Fate] /\ Fate \in {"rejected", "acked"}
    BY <1>4 DEF Settle, TypeOK, HandInv, Fate
  <2>2. Queued' = Queued /\ Unsettled' \subseteq Unsettled /\ Unsettled' # Unsettled
    BY <2>1 DEF TypeOK, Queued, Unsettled
  <2>3. InHand = 1 /\ InHand' = 4
    BY <1>4 DEF Settle, InHand
  <2>4. /\ Cardinality(Unsettled') \in Nat
        /\ Cardinality(Unsettled') + 1 <= Cardinality(Unsettled)
    BY <1>1, <2>2, OneFewer
  <2>5. Cardinality(Queued') = Cardinality(Queued)
    BY <2>2
  <2> QED
    BY <1>1, <2>3, <2>4, <2>5 DEF WorkLeft
<1>5. CASE Settle /\ severed
  <2>1. place' = place /\ InHand' = 4 /\ InHand = 5
    BY <1>5 DEF Settle, InHand
  <2> QED
    BY <1>2, <2>1
<1>6. ASSUME NEW e \in Events, HandlerRaises(e) \/ HandlerRejects(e) \/ HandlerAccepts(e)
      PROVE  WorkLeft' < WorkLeft
  <2>1. /\ place' = place /\ severed' = severed /\ pc = "idle"
        /\ pc' \in {"settle", "record", "dispatch"}
    BY <1>6 DEF HandlerRaises, HandlerRejects, HandlerAccepts, Handle
  <2>2. InHand' \in Nat /\ InHand' < InHand
    BY <2>1 DEF InHand, TypeOK
  <2> QED
    BY <1>2, <2>1, <2>2
<1>7. CASE Dispatch \/ Record
  <2>1. /\ place' = place /\ severed' = severed
        /\ \/ pc = "dispatch" /\ pc' = "record"
           \/ pc = "record" /\ pc' = "settle"
    BY <1>7 DEF Dispatch, Record
  <2>2. InHand' \in Nat /\ InHand' < InHand
    BY <2>1 DEF InHand, TypeOK
  <2> QED
    BY <1>2, <2>1, <2>2
<1> QED
  BY <1>3, <1>4, <1>5, <1>6, <1>7 DEF Consume

\* Whatever fails in the log, the decoding or the handler: between two losses
\* the consumer takes at most five steps per message, then all are settled.
\* It never requeues one, "a stuck message is worse than a lost one"
\* (local_consumer.py:78-79).
THEOREM QueueRunsDown ==
  IsFiniteSet(Events) =>
    (Spec => [](WorkLeft \in 0..(5 * Cardinality(Events) + 8)) /\ [][WorksOff]_vars)
<1> SUFFICES ASSUME IsFiniteSet(Events)
             PROVE  Spec => [](WorkLeft \in 0..(5 * Cardinality(Events) + 8)) /\ [][WorksOff]_vars
  OBVIOUS
<1>1. IInv => WorkLeft \in 0..(5 * Cardinality(Events) + 8)
  BY WorkRange DEF IInv
<1>2. IInv /\ [Next]_vars => WorksOff
  BY WorksOffStep DEF IInv, WorksOff
<1> QED
  BY <1>1, <1>2, Invariant, PTL DEF Spec

\* The consumer has a next step as long as a message is not settled, on a
\* broken connection too, and a broker that prefetches at all hands it out.
THEOREM NoMessageIsStuck == PREFETCH >= 1 => (Spec => []RestsWhenDone)
<1> SUFFICES ASSUME PREFETCH >= 1 PROVE Spec => []RestsWhenDone
  OBVIOUS
<1>1. IInv => RestsWhenDone
  <2> SUFFICES ASSUME TypeOK, HandInv, pc = "idle", Unacked = {}, NEW e \in Unsettled
               PROVE  CanConsume
    BY DEF IInv, RestsWhenDone, CanConsume, TypeOK
  <2>1. e \in Queued
    BY DEF Unsettled, Unacked, Queued
  <2>2. ~severed
    BY DEF HandInv
  <2>3. Cardinality(Unacked) = 0
    BY FS_EmptySet
  <2>4. Cardinality(Unacked) < PREFETCH
    BY <2>3, ConsumerAssumption
  <2> QED
    BY <2>1, <2>2, <2>4 DEF CanConsume
<1> QED
  BY <1>1, Invariant, PTL

\* A consumer that comes to rest has settled every message; with QueueRunsDown,
\* that it does is all that is left to the fairness of its steps.
THEOREM RestMeansSettled == PREFETCH >= 1 => (Spec => (<>[]~CanConsume => NothingSticks))
<1> SUFFICES ASSUME PREFETCH >= 1 PROVE Spec => (<>[]~CanConsume => NothingSticks)
  OBVIOUS
<1>1. ASSUME NEW e \in Events
      PROVE  Spec => (<>[]~CanConsume => (place[e] = "queue" ~> place[e] \in {"acked", "rejected"}))
  <2>1. TypeOK /\ RestsWhenDone /\ ~CanConsume => place[e] \in {"acked", "rejected"}
    BY <1>1 DEF TypeOK, RestsWhenDone, Unsettled
  <2>2. Spec => []TypeOK
    BY TypeCorrect
  <2>3. Spec => []RestsWhenDone
    BY NoMessageIsStuck
  <2> QED
    BY <2>1, <2>2, <2>3, PTL
<1> QED
  BY <1>1 DEF NothingSticks

-----------------------------------------------------------------------------
(* The wire.                                                               *)

Layers == Encodings \cup Contents

\* A text without its outermost layer is one, unless that was the only layer
\* or what it stood around is no text.
LEMMA TextTail ==
  ASSUME NEW t \in Texts
  PROVE  /\ t \in Seq(Layers) /\ Len(t) \in Nat \ {0}
         /\ t[1] # "bytes"
         /\ t[1] \in Encodings => Len(t) > 1
         /\ Len(t) > 1 => Tail(t)[1] = t[2]
         /\ Len(t) > 1 /\ t[2] # "bytes" => Tail(t) \in Texts
<1>1. t \in Seq(Layers) /\ t # <<>> /\ t[Len(t)] \in Contents
  BY DEF Texts, Layers
<1>2. Len(t) \in Nat \ {0}
  BY <1>1
<1>3. \A i \in 1..(Len(t) - 1) : t[i] \in Encodings
  BY DEF Texts
<1>4. t[Len(t)] = "bytes" => Len(t) > 1 /\ t[Len(t) - 1] # "envelope"
  BY DEF Texts
<1>5. "bytes" \notin Encodings /\ Encodings \cap Contents = {}
  BY DEF Encodings, Contents
<1>6. t[1] # "bytes" /\ (t[1] \in Encodings => Len(t) > 1)
  <2>1. CASE Len(t) = 1
    BY <1>1, <1>4, <1>5, <2>1
  <2>2. CASE Len(t) > 1
    <3>1. 1 \in 1..(Len(t) - 1)
      BY <1>2, <2>2
    <3> QED
      BY <1>3, <1>5, <2>2, <3>1
  <2> QED
    BY <1>2, <2>1, <2>2
<1>7. ASSUME Len(t) > 1
      PROVE  /\ Tail(t) \in Seq(Layers) /\ Len(Tail(t)) = Len(t) - 1
             /\ \A i \in 1..(Len(t) - 1) : Tail(t)[i] = t[i + 1]
  BY <1>1, <1>7
<1>8. ASSUME Len(t) > 1, t[2] # "bytes"
      PROVE  Tail(t) \in Texts
  <2> DEFINE s == Tail(t)
  <2>1. /\ s \in Seq(Layers) /\ Len(s) = Len(t) - 1 /\ Len(s) \in Nat \ {0}
        /\ \A i \in 1..Len(s) : s[i] = t[i + 1]
    BY <1>2, <1>7, <1>8
  <2> HIDE DEF s
  <2>2. s # <<>> /\ s[Len(s)] = t[Len(t)] /\ s[Len(s)] \in Contents
    BY <1>1, <1>2, <2>1
  <2>3. \A i \in 1..(Len(s) - 1) : s[i] \in Encodings
    BY <1>2, <1>3, <2>1
  <2>4. s[Len(s)] = "bytes" => Len(s) > 1 /\ s[Len(s) - 1] # "envelope"
    <3>1. Len(s) = 1 => s[1] # "bytes"
      BY <1>8, <2>1
    <3>2. Len(s) > 1 => s[Len(s) - 1] = t[Len(t) - 1]
      BY <1>2, <2>1
    <3> QED
      BY <1>4, <2>1, <2>2, <3>1, <3>2
  <2>5. s \in Texts
    BY <2>1, <2>2, <2>3, <2>4 DEF Texts, Layers
  <2> QED
    BY <2>5 DEF s
<1>9. Len(t) > 1 => Tail(t)[1] = t[2]
  <2>1. Len(t) > 1 => 1 \in 1..(Len(t) - 1)
    BY <1>2
  <2> QED
    BY <1>2, <1>7, <2>1
<1> QED
  BY <1>1, <1>2, <1>6, <1>8, <1>9

\* Whatever text is published through kombu's SQS transport, the worker that
\* unwraps it gets that text and nothing raises: one envelope and its base64
\* come off, also if the text itself looks like an envelope
\* (contracts/messages.py:145-210).
THEOREM EnvelopeRoundTrip ==
  \A t \in Texts : Unwrap(KombuSqs(t)) = t /\ ~UnwrapRaises(KombuSqs(t))
<1> TAKE t \in Texts
<1> DEFINE k == KombuSqs(t)
           c == <<"envelope64">> \o t
<1>1. t \in Seq(Layers) /\ Len(t) \in Nat \ {0} /\ t[1] # "bytes"
  BY TextTail
<1>2. k[1] = "base64" /\ k[2] = "envelope64"
  BY <1>1 DEF KombuSqs, Layers, Encodings
<1>3. Tail(k) = c
  BY <1>1 DEF KombuSqs, Layers, Encodings
<1>4. c[1] = "envelope64" /\ c[2] = t[1] /\ Tail(c) = t
  BY <1>1 DEF Layers, Encodings
<1> HIDE DEF k, c
<1>5. ~IsEnvelope(k) /\ Opened(k) = c
  BY <1>2, <1>3 DEF IsEnvelope, Opened
<1>6. Candidate(k) = c /\ IsEnvelope(c)
  BY <1>4, <1>5 DEF Candidate, IsEnvelope
<1>7. Unwrap(k) = t /\ ~UnwrapRaises(k)
  BY <1>1, <1>4, <1>6 DEF Unwrap, UnwrapRaises
<1> QED
  BY <1>7 DEF k

\* Of any text the unwrapping makes a text, or it raises: the bytes of a
\* spoilt envelope never reach the validation of an event.
THEOREM UnwrapGivesText == \A t \in Texts : UnwrapRaises(t) \/ Unwrap(t) \in Texts
<1> SUFFICES ASSUME NEW t \in Texts, ~UnwrapRaises(t)
             PROVE  Unwrap(t) \in Texts
  OBVIOUS
\* In the candidate's place: the text or what its base64 decodes to.
<1>1. Candidate(t) \in Texts
  <2>1. CASE t[1] = "base64" /\ t[2] # "bytes"
    <3>1. "base64" \in Encodings
      BY DEF Encodings
    <3>2. Len(t) > 1 /\ Tail(t) \in Texts
      BY <2>1, <3>1, TextTail
    <3> QED
      BY <3>2 DEF Candidate, Opened
  <2>2. CASE ~(t[1] = "base64" /\ t[2] # "bytes")
    BY <2>2 DEF Candidate, Opened
  <2> QED
    BY <2>1, <2>2
\* An envelope that says it is not base64 holds text.
<1>2. ASSUME NEW c \in Texts, IsEnvelope(c), ~(c[1] = "envelope64" /\ c[2] = "bytes")
      PROVE  Tail(c) \in Texts
  <2>1. c[1] \in Encodings
    BY <1>2 DEF IsEnvelope, Encodings
  <2>2. Len(c) > 1 /\ Len(c) \in Nat
    BY <2>1, TextTail
  <2>3. ASSUME c[1] = "envelope", c[2] = "bytes"
        PROVE  FALSE
    <3>1. /\ \A i \in 1..(Len(c) - 1) : c[i] \in Encodings
          /\ c[Len(c)] = "bytes" => c[Len(c) - 1] # "envelope"
      BY DEF Texts
    <3>2. "bytes" \notin Encodings
      BY DEF Encodings
    <3>3. 2 \notin 1..(Len(c) - 1)
      BY <2>3, <3>1, <3>2
    <3>4. Len(c) = 2
      <4>1. \A n \in Nat : n > 1 /\ 2 \notin 1..(n - 1) => n = 2
        OBVIOUS
      <4> QED
        BY <2>2, <3>3, <4>1
    <3> QED
      BY <2>3, <3>1, <3>4
  <2>4. c[2] # "bytes"
    BY <1>2, <2>3 DEF IsEnvelope
  <2> QED
    BY <2>2, <2>4, TextTail
<1> QED
  BY <1>1, <1>2 DEF Unwrap, UnwrapRaises
=============================================================================
