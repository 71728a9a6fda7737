------------------------- MODULE AsyncWorker_proofs -------------------------
(***************************************************************************)
(* Type correctness of AsyncWorker and the property that matters most, no  *)
(* event is acknowledged before all it asked for was done, for any number  *)
(* of messages, containers, quests and retries, any backend of the event   *)
(* log and any combination of faults.                                      *)
(***************************************************************************)
EXTENDS AsyncWorker, FiniteSetTheorems, TLAPS

Handling == {"credit", "weekly", "monthly", "quests", "bump"}

\* The loop's bookkeeping of one container.
LoopInv(w) ==
  /\ todo[w] \subseteq batch[w]
  /\ failures[w] \subseteq batch[w] \ todo[w]
  /\ pc[w] = "idle" => batch[w] = {}
  /\ pc[w] \in {"idle", "loop"} => cur[w] = NoMsg
  /\ pc[w] \notin {"idle", "loop"} => cur[w] \in batch[w] \ todo[w]
  /\ pc[w] \in Handling => cur[w] \notin failures[w]

\* What has been done for the record in hand when its handler reaches a stage.
StageInv(w) ==
  /\ pc[w] \in Handling => Valid(body[cur[w]])
  /\ pc[w] \in {"weekly", "monthly", "quests", "bump"} => CreditMet(cur[w])
  /\ pc[w] = "monthly" => weekly[cur[w]] >= 1
  /\ pc[w] \in {"quests", "bump"} => BoardMet(cur[w])
  /\ pc[w] = "bump" =>
       \A q \in (Advances(body[cur[w]]) \cap active) \ toBump[w] : bumps[cur[w]][q] >= 1
  /\ pc[w] = "record" /\ cur[w] \notin failures[w] => Applied(cur[w])

\* A record the loop is done with and did not report has been applied.
BatchInv(w) == \A m \in Completed(w) : Applied(m)

WorkerInv(w) == LoopInv(w) /\ StageInv(w) /\ BatchInv(w)

IInv ==
  /\ TypeOK
  /\ IsFiniteSet(rows)
  /\ \A w \in Workers : WorkerInv(w)
  /\ AckedMeansApplied

-----------------------------------------------------------------------------
(* The operators the steps are built from.                                 *)

\* An event that never reaches the quest evaluation advances no quest.
LEMMA NoUnitNoQuest == \A b : ~EvaluatesQuests(b) => Advances(b) = {}
BY EventsAssumption DEF EvaluatesQuests, Advances

\* One call adds a number, and adds at least 1 if it returned.
LEMMA OneCall ==
  ASSUME NEW n \in Nat, NEW r \in CallOutcomes(n) \cup {CleanOutcome}
  PROVE  r.applied \in Nat /\ (r.ok => r.applied >= 1)
<1>1. CASE r \in CallOutcomes(n)
  BY <1>1 DEF CallOutcomes
<1>2. CASE r = CleanOutcome
  BY <1>2 DEF CleanOutcome
<1> QED
  BY <1>1, <1>2

LEMMA Results ==
  \A r \in CallResults \cup WriteResults : r.applied \in Nat /\ (r.ok => r.applied >= 1)
<1>1. /\ CallResults \subseteq CallOutcomes(MaxAttempts) \cup {CleanOutcome}
      /\ WriteResults \subseteq CallOutcomes(WriteAttempts) \cup {CleanOutcome}
  BY DEF CallResults, WriteResults
<1>2. MaxAttempts \in Nat /\ WriteAttempts \in Nat
  BY WorkerAssumption
<1> QED
  BY <1>1, <1>2, OneCall

LogRows == [id : Msgs, at : Nat, status : {"received", "ok", "failed"}]

\* A save keeps the event log well formed.
LEMMA SaveTyped ==
  ASSUME NEW R, R \subseteq LogRows, IsFiniteSet(R), NEW m \in Msgs, NEW S \in Saved(R, m)
  PROVE  S \subseteq LogRows /\ IsFiniteSet(S)
<1>1. Cardinality(RowsOf(R, m)) \in Nat
  <2>1. RowsOf(R, m) \in SUBSET R
    BY DEF RowsOf
  <2> QED
    BY <2>1, FS_Subset, FS_CardinalityType
<1>2. NewRow(R, m) \in LogRows
  BY <1>1 DEF NewRow, LogRows
<1>3. S = R \/ S = R \cup {NewRow(R, m)}
  BY DEF Saved, OrFails, SqliteSave, DynamoSave
<1> QED
  BY <1>2, <1>3, FS_AddElement

\* So does setting the status of some of its rows.
LEMMA SetStatusTyped ==
  ASSUME NEW R, R \subseteq LogRows, IsFiniteSet(R), NEW W \in SUBSET R,
         NEW s \in {"received", "ok", "failed"}
  PROVE  SetStatus(R, W, s) \subseteq LogRows /\ IsFiniteSet(SetStatus(R, W, s))
<1> DEFINE img == {[r EXCEPT !.status = s] : r \in W}
<1> DEFINE f == [r \in W |-> [r EXCEPT !.status = s]]
<1>1. img \subseteq LogRows
  BY DEF LogRows
<1>2. IsFiniteSet(img)
  <2>1. f \in Surjection(W, img)
    BY DEF Surjection
  <2>2. IsFiniteSet(W)
    BY FS_Subset
  <2> QED
    BY <2>1, <2>2, FS_Surjection
<1>3. IsFiniteSet(R \ W)
  BY FS_Subset
<1>4. IsFiniteSet((R \ W) \cup img)
  BY <1>2, <1>3, FS_Union
<1> QED
  BY <1>1, <1>4 DEF SetStatus

LEMMA UpdateTyped ==
  ASSUME NEW R, R \subseteq LogRows, IsFiniteSet(R), NEW m, NEW s \in {"ok", "failed"},
         NEW S \in Updated(R, m, s)
  PROVE  S \subseteq LogRows /\ IsFiniteSet(S)
<1>1. S = R \/ \E W \in SUBSET R : S = SetStatus(R, W, s)
  BY DEF Updated, OrFails, SqliteUpdate, DynamoUpdates, RowsOf
<1> QED
  BY <1>1, SetStatusTyped

-----------------------------------------------------------------------------
(* Types.                                                                  *)

Stages == {"idle", "loop", "credit", "weekly", "monthly", "quests", "bump", "record"}

LEMMA EffectsAreStages ==
  \A b : /\ FirstEffect(b) \in Stages /\ AfterCredit(b) \in Stages /\ AfterBoard(b) \in Stages
         /\ Advances(b) \subseteq Quests
BY DEF FirstEffect, AfterCredit, AfterBoard, Advances, Stages

LEMMA InitInv == Init => IInv
<1> SUFFICES ASSUME Init PROVE IInv
  OBVIOUS
<1>1. TypeOK
  BY WorkerAssumption DEF Init, TypeOK
<1>2. IsFiniteSet(rows)
  BY FS_EmptySet DEF Init
<1>3. ASSUME NEW w \in Workers PROVE WorkerInv(w)
  BY DEF Init, WorkerInv, LoopInv, StageInv, BatchInv, Completed, Handling
<1>4. AckedMeansApplied
  BY DEF Init, AckedMeansApplied
<1> QED
  BY <1>1, <1>2, <1>3, <1>4 DEF IInv

\* The types of what EndInvocation resets.
LEMMA EndTyped ==
  ASSUME TypeOK, NEW w \in Workers, EndInvocation(w)
  PROVE  /\ pc' \in [Workers -> Stages]
         /\ batch' \in [Workers -> SUBSET Msgs] /\ todo' \in [Workers -> SUBSET Msgs]
         /\ cur' \in [Workers -> Msgs \cup {NoMsg}]
         /\ failures' \in [Workers -> SUBSET Msgs]
         /\ toBump' \in [Workers -> SUBSET Quests]
BY DEF TypeOK, EndInvocation, Stages

LEMMA TakeTyped ==
  ASSUME TypeOK, IsFiniteSet(rows), NEW w \in Workers, NEW m \in Msgs, NEW p \in Stages,
         Take(w, m, p), failures' \in [Workers -> SUBSET Msgs]
  PROVE  TypeOK' /\ IsFiniteSet(rows)'
<1>1. rows' \subseteq LogRows /\ IsFiniteSet(rows')
  BY SaveTyped DEF TypeOK, Take, LogRows
<1> QED
  BY <1>1 DEF TypeOK, Take, queueVars, coreVars, effects, LogRows, Stages

\* What a step of a handler does to pc and failures.
LEMMA ProceedTyped ==
  ASSUME TypeOK, NEW w \in Workers, cur[w] \in Msgs, NEW ok, NEW p \in Stages, Proceed(w, ok, p)
  PROVE  pc' \in [Workers -> Stages] /\ failures' \in [Workers -> SUBSET Msgs]
BY DEF TypeOK, Proceed, Stages

\* There is a record in hand whenever the loop is past choosing one.
LEMMA InHand ==
  ASSUME IInv, NEW w \in Workers, pc[w] \notin {"idle", "loop"}
  PROVE  cur[w] \in batch[w] /\ cur[w] \in Msgs
BY DEF IInv, WorkerInv, LoopInv, TypeOK

LEMMA LoopTyped ==
  ASSUME IInv, NEW w \in Workers, Loop(w)
  PROVE  TypeOK' /\ IsFiniteSet(rows)'
<1> USE DEF IInv
<1>1. CASE RepoUnavailable(w)
  BY <1>1, EndTyped DEF RepoUnavailable, TypeOK, queueVars, coreVars, effects, Stages
<1>2. CASE ParseEscapes(w)
  BY <1>2, EndTyped DEF ParseEscapes, TypeOK, queueVars, coreVars, effects, Stages
<1>3. ASSUME NEW m \in Msgs, Accept(w, m) PROVE TypeOK' /\ IsFiniteSet(rows)'
  <2>1. failures' \in [Workers -> SUBSET Msgs]
    BY <1>3 DEF Accept, TypeOK
  <2> QED
    BY <1>3, <2>1, TakeTyped, EffectsAreStages DEF Accept
<1>4. ASSUME NEW m \in Msgs, RejectInvalid(w, m) PROVE TypeOK' /\ IsFiniteSet(rows)'
  <2>1. failures' \in [Workers -> SUBSET Msgs]
    BY <1>4 DEF RejectInvalid, TypeOK
  <2>2. "record" \in Stages
    BY DEF Stages
  <2> QED
    BY <1>4, <2>1, <2>2, TakeTyped DEF RejectInvalid
<1>5. CASE Record(w)
  <2>1. cur[w] \in Msgs /\ FinalStatus(w) \in {"ok", "failed"}
    BY <1>5, InHand DEF Record, FinalStatus
  <2>2. rows' \subseteq LogRows /\ IsFiniteSet(rows')
    BY <1>5, <2>1, UpdateTyped DEF Record, TypeOK, LogRows
  <2> QED
    BY <1>5, <2>2 DEF Record, TypeOK, LogRows, queueVars, coreVars, effects
<1>6. CASE Return(w)
  <2>1. place' \in [Msgs -> {"unsent", "queue", "done", "dlq"}]
    BY <1>6 DEF Return, TypeOK
  <2> QED
    BY <1>6, <2>1, EndTyped DEF Return, TypeOK, coreVars, effects, Stages
<1> QED
  BY <1>1, <1>2, <1>3, <1>4, <1>5, <1>6 DEF Loop

LEMMA HandleTyped ==
  ASSUME IInv, NEW w \in Workers, Handle(w)
  PROVE  TypeOK' /\ IsFiniteSet(rows)'
<1> USE DEF IInv, TypeOK
<1>1. pc[w] \in Handling
  BY DEF Handle, Credit, Weekly, Monthly, SkipQuests, ListQuests, ListFails, Bump, Handling
<1>2. cur[w] \in Msgs
  BY <1>1, InHand DEF Handling
<1>3. "monthly" \in Stages /\ "record" \in Stages /\ "bump" \in Stages
  BY DEF Stages
<1>4. CASE Credit(w)
  <2>1. PICK r \in CallResults : xp' = [xp EXCEPT ![cur[w]] = @ + r.applied]
                                 /\ Proceed(w, r.ok, AfterCredit(body[cur[w]]))
    BY <1>4 DEF Credit
  <2>2. xp' \in [Msgs -> Nat]
    BY <1>2, <2>1, Results
  <2>3. pc' \in [Workers -> Stages] /\ failures' \in [Workers -> SUBSET Msgs]
    BY <1>2, <2>1, ProceedTyped, EffectsAreStages
  <2> QED
    BY <1>4, <2>2, <2>3 DEF Credit, queueVars, coreVars, Stages
<1>5. CASE Weekly(w)
  <2>1. PICK r \in WriteResults : weekly' = [weekly EXCEPT ![cur[w]] = @ + r.applied]
                                  /\ Proceed(w, r.ok, "monthly")
    BY <1>5 DEF Weekly
  <2>2. weekly' \in [Msgs -> Nat]
    BY <1>2, <2>1, Results
  <2>3. pc' \in [Workers -> Stages] /\ failures' \in [Workers -> SUBSET Msgs]
    BY <1>2, <1>3, <2>1, ProceedTyped
  <2> QED
    BY <1>5, <2>2, <2>3 DEF Weekly, queueVars, coreVars, Stages
<1>6. CASE Monthly(w)
  <2>1. PICK r \in WriteResults : monthly' = [monthly EXCEPT ![cur[w]] = @ + r.applied]
                                  /\ Proceed(w, r.ok, AfterBoard(body[cur[w]]))
    BY <1>6 DEF Monthly
  <2>2. monthly' \in [Msgs -> Nat]
    BY <1>2, <2>1, Results
  <2>3. pc' \in [Workers -> Stages] /\ failures' \in [Workers -> SUBSET Msgs]
    BY <1>2, <2>1, ProceedTyped, EffectsAreStages
  <2> QED
    BY <1>6, <2>2, <2>3 DEF Monthly, queueVars, coreVars, Stages
<1>7. CASE SkipQuests(w)
  BY <1>2, <1>7 DEF SkipQuests, queueVars, coreVars
<1>8. CASE ListQuests(w)
  <2>1. toBump' \in [Workers -> SUBSET Quests]
    BY <1>8, EffectsAreStages DEF ListQuests
  <2>2. pc' \in [Workers -> Stages]
    BY <1>8 DEF ListQuests, Stages
  <2> QED
    BY <1>8, <2>1, <2>2 DEF ListQuests, queueVars, coreVars, effects, Stages
<1>9. CASE ListFails(w)
  <2>1. pc' \in [Workers -> Stages] /\ failures' \in [Workers -> SUBSET Msgs]
    BY <1>2, <1>3, <1>9, ProceedTyped DEF ListFails
  <2> QED
    BY <1>9, <2>1 DEF ListFails, queueVars, coreVars, effects, Stages
<1>10. CASE Bump(w)
  <2>1. PICK q \in toBump[w], r \in CallResults :
          LET rest == IF r.ok THEN toBump[w] \ {q} ELSE {}
          IN  /\ bumps' = [bumps EXCEPT ![cur[w]][q] = @ + r.applied]
              /\ toBump' = [toBump EXCEPT ![w] = rest]
              /\ Proceed(w, r.ok, IF rest = {} THEN "record" ELSE "bump")
    BY <1>10 DEF Bump
  <2>2. r.applied \in Nat /\ q \in Quests
    BY <2>1, Results
  <2>3. bumps' \in [Msgs -> [Quests -> Nat]] /\ toBump' \in [Workers -> SUBSET Quests]
    BY <1>2, <2>1, <2>2
  <2>4. pc' \in [Workers -> Stages] /\ failures' \in [Workers -> SUBSET Msgs]
    BY <1>2, <1>3, <2>1, ProceedTyped
  <2> QED
    BY <1>10, <2>3, <2>4 DEF Bump, queueVars, coreVars, Stages
<1> QED
  BY <1>4, <1>5, <1>6, <1>7, <1>8, <1>9, <1>10 DEF Handle

LEMMA NextTyped ==
  ASSUME IInv, [Next]_vars
  PROVE  TypeOK' /\ IsFiniteSet(rows)'
<1> USE DEF IInv
<1>1. ASSUME NEW m \in Msgs, Publish(m) \/ Bury(m) PROVE TypeOK' /\ IsFiniteSet(rows)'
  BY <1>1 DEF Publish, Bury, TypeOK, loopVars, coreVars, effects
<1>2. ASSUME NEW w \in Workers, Invoke(w) PROVE TypeOK' /\ IsFiniteSet(rows)'
  <2>1. PICK S \in SUBSET {m \in Msgs : Deliverable(m)} :
          /\ receives' = [m \in Msgs |-> IF m \in S THEN receives[m] + 1 ELSE receives[m]]
          /\ batch' = [batch EXCEPT ![w] = S]
          /\ todo' = [todo EXCEPT ![w] = S]
    BY <1>2 DEF Invoke
  <2>2. receives' \in [Msgs -> 0..MaxReceive]
    BY <2>1, WorkerAssumption DEF Deliverable, TypeOK
  <2> QED
    BY <1>2, <2>1, <2>2 DEF Invoke, TypeOK, coreVars, effects
<1>3. ASSUME NEW w \in Workers, Crash(w) \/ Recycle(w) PROVE TypeOK' /\ IsFiniteSet(rows)'
  BY <1>3, EndTyped DEF Crash, Recycle, TypeOK, queueVars, coreVars, effects, Stages
<1>4. CASE MountQuests \/ \E q \in Quests : CloseQuest(q)
  BY <1>4 DEF MountQuests, CloseQuest, TypeOK, queueVars, loopVars, effects
<1>5. CASE UNCHANGED vars
  BY <1>5 DEF vars, TypeOK, queueVars, loopVars, coreVars, effects
<1> QED
  BY <1>1, <1>2, <1>3, <1>4, <1>5, LoopTyped, HandleTyped DEF Next

-----------------------------------------------------------------------------
(* Effects are never taken back, so what was applied stays applied.        *)

Grow ==
  /\ body' = body
  /\ \A m \in Msgs :
       /\ xp[m] <= xp'[m] /\ weekly[m] <= weekly'[m] /\ monthly[m] <= monthly'[m]
       /\ \A q \in Quests : bumps[m][q] <= bumps'[m][q]
  /\ missed \subseteq missed' /\ active' \subseteq active

\* No step is smaller than these frame conditions make it.
LEMMA SameEffectsGrow ==
  ASSUME TypeOK, UNCHANGED effects, body' = body, active' \subseteq active
  PROVE  Grow
BY DEF Grow, effects, TypeOK

LEMMA HandleGrows ==
  ASSUME IInv, NEW w \in Workers, Handle(w)
  PROVE  Grow
<1> USE DEF IInv, TypeOK
<1>1. cur[w] \in Msgs
  BY InHand DEF Handle, Credit, Weekly, Monthly, SkipQuests, ListQuests, ListFails, Bump
<1>2. \A r \in CallResults \cup WriteResults : r.applied \in Nat
  BY Results
<1>3. CASE Credit(w)
  BY <1>1, <1>2, <1>3 DEF Credit, Grow, queueVars, coreVars
<1>4. CASE Weekly(w)
  BY <1>1, <1>2, <1>4 DEF Weekly, Grow, queueVars, coreVars
<1>5. CASE Monthly(w)
  BY <1>1, <1>2, <1>5 DEF Monthly, Grow, queueVars, coreVars
<1>6. CASE SkipQuests(w)
  BY <1>6 DEF SkipQuests, Grow, queueVars, coreVars
<1>7. CASE ListQuests(w) \/ ListFails(w)
  BY <1>7, SameEffectsGrow DEF ListQuests, ListFails, queueVars, coreVars
<1>8. CASE Bump(w)
  <2>1. PICK q \in Quests, r \in CallResults : bumps' = [bumps EXCEPT ![cur[w]][q] = @ + r.applied]
    BY <1>8 DEF Bump
  <2>2. \A m \in Msgs, p \in Quests : bumps[m][p] <= bumps'[m][p]
    BY <1>1, <1>2, <2>1
  <2> QED
    BY <1>8, <2>2 DEF Bump, Grow, queueVars, coreVars
<1> QED
  BY <1>3, <1>4, <1>5, <1>6, <1>7, <1>8 DEF Handle

LEMMA LoopGrows ==
  ASSUME IInv, NEW w \in Workers, Loop(w)
  PROVE  Grow
<1>1. UNCHANGED <<effects, coreVars>> /\ body' = body
  BY DEF Loop, RepoUnavailable, ParseEscapes, Accept, RejectInvalid, Take, Record, Return, queueVars
<1> QED
  BY <1>1, SameEffectsGrow DEF IInv, coreVars

LEMMA NextGrows ==
  ASSUME IInv, [Next]_vars
  PROVE  Grow
<1>1. CASE \E m \in Msgs : Publish(m) \/ Bury(m)
  BY <1>1, SameEffectsGrow DEF IInv, Publish, Bury, coreVars
<1>2. CASE \E w \in Workers : Invoke(w) \/ Crash(w) \/ Recycle(w)
  BY <1>2, SameEffectsGrow DEF IInv, Invoke, Crash, Recycle, coreVars, queueVars
<1>3. CASE MountQuests \/ \E q \in Quests : CloseQuest(q)
  BY <1>3, SameEffectsGrow DEF IInv, MountQuests, CloseQuest, queueVars
<1>4. CASE UNCHANGED vars
  BY <1>4, SameEffectsGrow DEF IInv, vars, queueVars, coreVars
<1> QED
  BY <1>1, <1>2, <1>3, <1>4, HandleGrows, LoopGrows DEF Next

LEMMA MetStable ==
  ASSUME TypeOK, TypeOK', Grow, NEW m \in Msgs
  PROVE  /\ CreditMet(m) => CreditMet(m)'
         /\ BoardMet(m) => BoardMet(m)'
         /\ weekly[m] >= 1 => weekly'[m] >= 1
         /\ Applied(m) => Applied(m)'
<1>1. CreditMet(m) => CreditMet(m)'
  BY DEF TypeOK, Grow, CreditMet
<1>2. BoardMet(m) => BoardMet(m)'
  BY DEF TypeOK, Grow, BoardMet
<1>3. weekly[m] >= 1 => weekly'[m] >= 1
  BY DEF TypeOK, Grow
<1>4. QuestsMet(m) => QuestsMet(m)'
  <2>1. \A q \in Quests : bumps[m][q] \in Nat /\ bumps'[m][q] \in Nat
    BY DEF TypeOK
  <2> QED
    BY <2>1, EffectsAreStages DEF Grow, QuestsMet
<1> QED
  BY <1>1, <1>2, <1>3, <1>4 DEF Applied, Grow

-----------------------------------------------------------------------------
(* The containers.                                                         *)

\* A container that takes no step keeps its invariant while others work.
SameLocal(w) ==
  /\ pc'[w] = pc[w] /\ batch'[w] = batch[w] /\ todo'[w] = todo[w]
  /\ cur'[w] = cur[w] /\ failures'[w] = failures[w] /\ toBump'[w] = toBump[w]

LEMMA Elsewhere ==
  ASSUME IInv, TypeOK', Grow, NEW w \in Workers, SameLocal(w)
  PROVE  WorkerInv(w)'
<1> USE DEF IInv, WorkerInv
<1>1. LoopInv(w)'
  BY DEF SameLocal, LoopInv
<1>2. BatchInv(w)'
  <2>1. \A m \in Completed(w) : m \in Msgs
    BY DEF Completed, TypeOK
  <2>2. Completed(w)' = Completed(w)
    BY DEF SameLocal, Completed
  <2> QED
    BY <2>1, <2>2, MetStable DEF BatchInv
<1>3. StageInv(w)'
  <2>1. CASE pc[w] \in {"idle", "loop"}
    BY <2>1 DEF SameLocal, StageInv, Handling
  <2>2. CASE pc[w] \notin {"idle", "loop"}
    <3>1. cur[w] \in Msgs
      BY <2>2, InHand
    <3>2. \A q \in Quests : bumps[cur[w]][q] \in Nat /\ bumps'[cur[w]][q] \in Nat
                            /\ bumps[cur[w]][q] <= bumps'[cur[w]][q]
      BY <3>1 DEF TypeOK, Grow
    <3>3. pc'[w] = "bump" =>
            \A q \in (Advances(body'[cur'[w]]) \cap active') \ toBump'[w] : bumps'[cur'[w]][q] >= 1
      <4> SUFFICES ASSUME pc'[w] = "bump",
                          NEW q \in (Advances(body'[cur'[w]]) \cap active') \ toBump'[w]
                   PROVE  bumps'[cur'[w]][q] >= 1
        OBVIOUS
      <4>1. /\ body'[cur'[w]] = body[cur[w]] /\ cur'[w] = cur[w]
            /\ toBump'[w] = toBump[w] /\ pc[w] = "bump"
        BY DEF SameLocal, Grow
      <4>2. q \in (Advances(body[cur[w]]) \cap active) \ toBump[w]
        BY <4>1 DEF Grow
      <4>3. bumps[cur[w]][q] >= 1
        BY <4>1, <4>2 DEF StageInv
      <4>4. q \in Quests
        BY <4>2, EffectsAreStages
      <4> QED
        BY <3>2, <4>1, <4>3, <4>4
    <3>4. Valid(body[cur[w]]) => Valid(body[cur[w]])'
      BY DEF Grow, SameLocal
    <3> QED
      BY <3>1, <3>3, <3>4, MetStable DEF SameLocal, StageInv
  <2> QED
    BY <2>1, <2>2
<1> QED
  BY <1>1, <1>2, <1>3

\* An invocation that ends leaves nothing behind.
LEMMA EndInv ==
  ASSUME IInv, NEW w \in Workers, EndInvocation(w)
  PROVE  WorkerInv(w)'
BY DEF IInv, TypeOK, EndInvocation, WorkerInv, LoopInv, StageInv, BatchInv, Completed, Handling

\* What a record needs that reaches the end of _dispatch without a callback.
LEMMA NothingOwed ==
  ASSUME NEW b
  PROVE  /\ FirstEffect(b) # "credit" => ~NeedsCredit(b) /\ FirstEffect(b) = AfterCredit(b)
         /\ AfterCredit(b) # "weekly" => ~WritesBoard(b) /\ AfterCredit(b) = AfterBoard(b)
         /\ AfterBoard(b) # "quests" => AfterBoard(b) = "record" /\ Advances(b) = {}
         /\ FirstEffect(b) \in {"credit", "weekly", "quests", "record"}
         /\ AfterCredit(b) \in {"weekly", "quests", "record"}
         /\ AfterBoard(b) \in {"quests", "record"}
BY NoUnitNoQuest DEF FirstEffect, AfterCredit, AfterBoard

\* The loop turns to a record.
LEMMA TakeInv ==
  ASSUME IInv, TypeOK', NEW w \in Workers, NEW m \in todo[w], NEW p \in Stages,
         pc[w] = "loop", p \notin {"idle", "loop"}, Take(w, m, p),
         \/ failures' = failures
         \/ p = "record" /\ failures' = [failures EXCEPT ![w] = @ \cup {m}]
  PROVE  LoopInv(w)' /\ BatchInv(w)' /\ pc'[w] = p /\ cur'[w] = m
<1> USE DEF IInv, WorkerInv, TypeOK
<1>1. /\ pc'[w] = p /\ cur'[w] = m /\ todo'[w] = todo[w] \ {m} /\ batch'[w] = batch[w]
      /\ failures'[w] \subseteq failures[w] \cup {m} /\ failures[w] \subseteq failures'[w]
      /\ p \in Handling => failures'[w] = failures[w]
  BY DEF Take, Handling
<1>2. LoopInv(w)'
  BY <1>1 DEF LoopInv
<1>3. Completed(w)' \subseteq Completed(w)
  BY <1>1, WorkerAssumption DEF Completed, LoopInv
<1>4. \A x \in Msgs : Applied(x)' = Applied(x)
  BY DEF Take, queueVars, coreVars, effects, Applied, CreditMet, BoardMet, QuestsMet
<1>5. BatchInv(w)'
  BY <1>3, <1>4 DEF BatchInv, Completed
<1> QED
  BY <1>1, <1>2, <1>5

LEMMA AcceptInv ==
  ASSUME IInv, TypeOK', NEW w \in Workers, NEW m \in Msgs, Accept(w, m)
  PROVE  WorkerInv(w)'
<1> DEFINE b == body[m]
<1>1. FirstEffect(b) \in Stages \ {"idle", "loop"}
  BY NothingOwed, EffectsAreStages
<1>2. LoopInv(w)' /\ BatchInv(w)' /\ pc'[w] = FirstEffect(b) /\ cur'[w] = m
  BY <1>1, TakeInv DEF Accept
<1>3. UNCHANGED <<body, active, xp, weekly, monthly, bumps, missed>> /\ Valid(b)
  BY DEF Accept, Take, queueVars, coreVars, effects
<1>4. FirstEffect(b) # "credit" => CreditMet(m)'
  BY <1>3, NothingOwed DEF CreditMet
<1>5. FirstEffect(b) \notin {"credit", "weekly"} => BoardMet(m)'
  BY <1>3, NothingOwed DEF BoardMet
<1>6. FirstEffect(b) = "record" => QuestsMet(m)'
  BY <1>3, NothingOwed DEF QuestsMet
<1>7. FirstEffect(b) = "record" => Applied(m)'
  BY <1>3, <1>4, <1>5, <1>6 DEF Applied
<1>8. FirstEffect(b) \notin {"monthly", "bump"}
  BY NothingOwed
<1>9. StageInv(w)'
  BY <1>2, <1>3, <1>4, <1>5, <1>7, <1>8 DEF StageInv
<1> QED
  BY <1>2, <1>9 DEF WorkerInv

LEMMA RejectInv ==
  ASSUME IInv, TypeOK', NEW w \in Workers, NEW m \in Msgs, RejectInvalid(w, m)
  PROVE  WorkerInv(w)'
<1>1. LoopInv(w)' /\ BatchInv(w)' /\ pc'[w] = "record" /\ cur'[w] = m
  BY TakeInv DEF RejectInvalid, Stages
<1>2. m \in failures'[w]
  BY DEF IInv, TypeOK, RejectInvalid
<1>3. StageInv(w)'
  BY <1>1, <1>2 DEF StageInv, Handling
<1> QED
  BY <1>1, <1>3 DEF WorkerInv

LEMMA RecordInv ==
  ASSUME IInv, NEW w \in Workers, Record(w)
  PROVE  WorkerInv(w)'
<1> USE DEF IInv, TypeOK, WorkerInv
<1>1. /\ pc'[w] = "loop" /\ cur'[w] = NoMsg
      /\ batch'[w] = batch[w] /\ todo'[w] = todo[w] /\ failures'[w] = failures[w]
  BY DEF Record
<1>2. LoopInv(w)'
  BY <1>1 DEF LoopInv, Record, Handling
<1>3. \A x \in Msgs : Applied(x)' = Applied(x)
  BY DEF Record, queueVars, coreVars, effects, Applied, CreditMet, BoardMet, QuestsMet
<1>4. \A x \in Completed(w)' : x \in Completed(w) \/ (x = cur[w] /\ cur[w] \notin failures[w])
  BY <1>1 DEF Completed
<1>5. BatchInv(w)'
  BY <1>3, <1>4 DEF BatchInv, StageInv, Record, Completed
<1>6. StageInv(w)'
  BY <1>1 DEF StageInv, Handling
<1> QED
  BY <1>2, <1>5, <1>6

\* A handler's step, whatever its effect: it goes on or gives the record up.
LEMMA ProceedInv ==
  ASSUME IInv, TypeOK', Grow, NEW w \in Workers, pc[w] \in Handling,
         NEW ok, NEW p \in Stages \ {"idle", "loop"}, Proceed(w, ok, p),
         UNCHANGED <<batch, todo, cur>>
  PROVE  /\ LoopInv(w)' /\ BatchInv(w)'
         /\ pc'[w] = IF ok THEN p ELSE "record"
         /\ ~ok => cur[w] \in failures'[w]
         /\ cur[w] \in Msgs /\ cur'[w] = cur[w] /\ Valid(body[cur[w]])'
<1> USE DEF IInv, TypeOK, WorkerInv
<1>1. /\ cur[w] \in Msgs /\ cur[w] \in batch[w] \ todo[w] /\ cur[w] \notin failures[w]
      /\ Valid(body[cur[w]])
  BY DEF LoopInv, StageInv, Handling
<1>2. /\ pc'[w] = IF ok THEN p ELSE "record"
      /\ failures'[w] = IF ok THEN failures[w] ELSE failures[w] \cup {cur[w]}
      /\ batch'[w] = batch[w] /\ todo'[w] = todo[w] /\ cur'[w] = cur[w]
  BY DEF Proceed
<1>3. LoopInv(w)'
  BY <1>1, <1>2 DEF LoopInv, Handling
<1>4. Completed(w)' \subseteq Completed(w) /\ Completed(w) \subseteq Msgs
  BY <1>2 DEF Completed
<1>5. BatchInv(w)'
  BY <1>4, MetStable DEF BatchInv
<1>6. Valid(body[cur[w]])'
  BY <1>1, <1>2 DEF Grow
<1> QED
  BY <1>1, <1>2, <1>3, <1>5, <1>6

LEMMA CreditInv ==
  ASSUME IInv, TypeOK', Grow, NEW w \in Workers, Credit(w)
  PROVE  WorkerInv(w)'
<1> DEFINE c == cur[w]
           b == body[c]
<1>1. PICK r \in CallResults : xp' = [xp EXCEPT ![c] = @ + r.applied]
                               /\ Proceed(w, r.ok, AfterCredit(b))
  BY DEF Credit
<1>2. /\ LoopInv(w)' /\ BatchInv(w)' /\ pc'[w] = IF r.ok THEN AfterCredit(b) ELSE "record"
      /\ ~r.ok => c \in failures'[w]
      /\ c \in Msgs /\ cur'[w] = c /\ Valid(body[c])'
  BY <1>1, ProceedInv, NothingOwed, EffectsAreStages DEF Credit, Handling
<1>3. r.ok => xp'[c] >= 1
  BY <1>1, <1>2, Results DEF IInv, TypeOK
<1>4. UNCHANGED <<body, active, weekly, monthly, bumps, missed>>
  BY DEF Credit, queueVars, coreVars
<1>5. r.ok => CreditMet(c)'
  BY <1>2, <1>3 DEF CreditMet
<1>6. r.ok /\ AfterCredit(b) # "weekly" => BoardMet(c)'
  BY <1>2, <1>4, NothingOwed DEF BoardMet
<1>7. r.ok /\ AfterCredit(b) = "record" => QuestsMet(c)'
  BY <1>2, <1>4, NothingOwed DEF QuestsMet
<1>8. r.ok /\ AfterCredit(b) = "record" => Applied(c)'
  BY <1>2, <1>5, <1>6, <1>7 DEF Applied
<1>9. AfterCredit(b) \in {"weekly", "quests", "record"}
  BY NothingOwed
<1>10. StageInv(w)'
  BY <1>2, <1>5, <1>6, <1>8, <1>9 DEF StageInv, Handling
<1> QED
  BY <1>2, <1>10 DEF WorkerInv

LEMMA WeeklyInv ==
  ASSUME IInv, TypeOK', Grow, NEW w \in Workers, Weekly(w)
  PROVE  WorkerInv(w)'
<1> DEFINE c == cur[w]
<1>1. PICK r \in WriteResults : weekly' = [weekly EXCEPT ![c] = @ + r.applied]
                                /\ Proceed(w, r.ok, "monthly")
  BY DEF Weekly
<1>2. /\ LoopInv(w)' /\ BatchInv(w)' /\ pc'[w] = IF r.ok THEN "monthly" ELSE "record"
      /\ ~r.ok => c \in failures'[w]
      /\ c \in Msgs /\ cur'[w] = c /\ Valid(body[c])'
  BY <1>1, ProceedInv DEF Weekly, Handling, Stages
<1>3. r.ok => weekly'[c] >= 1
  BY <1>1, <1>2, Results DEF IInv, TypeOK
<1>4. CreditMet(c)
  BY DEF IInv, WorkerInv, StageInv, Weekly
<1>5. CreditMet(c)'
  BY <1>2, <1>4, MetStable DEF IInv
<1>6. StageInv(w)'
  BY <1>2, <1>3, <1>5 DEF StageInv, Handling
<1> QED
  BY <1>2, <1>6 DEF WorkerInv

LEMMA MonthlyInv ==
  ASSUME IInv, TypeOK', Grow, NEW w \in Workers, Monthly(w)
  PROVE  WorkerInv(w)'
<1> DEFINE c == cur[w]
           b == body[c]
<1>1. PICK r \in WriteResults : monthly' = [monthly EXCEPT ![c] = @ + r.applied]
                                /\ Proceed(w, r.ok, AfterBoard(b))
  BY DEF Monthly
<1>2. /\ LoopInv(w)' /\ BatchInv(w)' /\ pc'[w] = IF r.ok THEN AfterBoard(b) ELSE "record"
      /\ ~r.ok => c \in failures'[w]
      /\ c \in Msgs /\ cur'[w] = c /\ Valid(body[c])'
  BY <1>1, ProceedInv, NothingOwed, EffectsAreStages DEF Monthly, Handling
<1>3. CreditMet(c) /\ weekly[c] >= 1
  BY DEF IInv, WorkerInv, StageInv, Monthly
<1>4. CreditMet(c)' /\ weekly'[c] >= 1
  BY <1>2, <1>3, MetStable DEF IInv
<1>5. r.ok => monthly'[c] >= 1
  BY <1>1, <1>2, Results DEF IInv, TypeOK
<1>6. r.ok => BoardMet(c)'
  BY <1>2, <1>4, <1>5 DEF BoardMet
<1>7. r.ok /\ AfterBoard(b) = "record" => Applied(c)'
  <2>1. UNCHANGED <<body, active, bumps, missed>>
    BY DEF Monthly, queueVars, coreVars
  <2> QED
    BY <1>2, <1>4, <1>6, <2>1, NothingOwed DEF Applied, QuestsMet
<1>8. AfterBoard(b) \in {"quests", "record"}
  BY NothingOwed
<1>9. StageInv(w)'
  BY <1>2, <1>4, <1>6, <1>7, <1>8 DEF StageInv, Handling
<1> QED
  BY <1>2, <1>9 DEF WorkerInv

\* What the bookkeeping of w sees of a step that changes its stage only.
LEMMA StageStep ==
  ASSUME IInv, TypeOK', Grow, NEW w \in Workers, pc[w] \in Handling,
         NEW p \in {"record", "bump"}, pc' = [pc EXCEPT ![w] = p],
         UNCHANGED <<batch, todo, cur, failures>>
  PROVE  /\ LoopInv(w)' /\ BatchInv(w)' /\ pc'[w] = p
         /\ cur[w] \in Msgs /\ cur'[w] = cur[w] /\ Valid(body[cur[w]])'
         /\ (CreditMet(cur[w]) => CreditMet(cur[w])') /\ (BoardMet(cur[w]) => BoardMet(cur[w])')
<1> USE DEF IInv, TypeOK, WorkerInv
<1>1. /\ cur[w] \in Msgs /\ Valid(body[cur[w]]) /\ cur[w] \notin failures[w]
      /\ cur[w] \in batch[w] \ todo[w]
  BY DEF LoopInv, StageInv, Handling
<1>2. pc'[w] = p /\ cur'[w] = cur[w]
  OBVIOUS
<1>3. LoopInv(w)'
  BY <1>1, <1>2 DEF LoopInv, Handling
<1>4. Completed(w)' = Completed(w) /\ Completed(w) \subseteq Msgs
  BY DEF Completed
<1>5. BatchInv(w)'
  BY <1>4, MetStable DEF BatchInv
<1>6. Valid(body[cur[w]])'
  BY <1>1, <1>2 DEF Grow
<1>7. (CreditMet(cur[w]) => CreditMet(cur[w])') /\ (BoardMet(cur[w]) => BoardMet(cur[w])')
  BY <1>1, <1>2, MetStable
<1> QED
  BY <1>1, <1>2, <1>3, <1>5, <1>6, <1>7

LEMMA QuestsInv ==
  ASSUME IInv, TypeOK', Grow, NEW w \in Workers,
         SkipQuests(w) \/ ListQuests(w) \/ ListFails(w)
  PROVE  WorkerInv(w)'
<1> DEFINE c == cur[w]
<1>1. pc[w] = "quests" /\ pc[w] \in Handling
  BY DEF SkipQuests, ListQuests, ListFails, Handling
<1>2. CreditMet(c) /\ BoardMet(c)
  BY <1>1 DEF IInv, WorkerInv, StageInv
<1>3. CASE SkipQuests(w)
  <2>1. /\ LoopInv(w)' /\ BatchInv(w)' /\ pc'[w] = "record" /\ c \in Msgs /\ cur'[w] = c
        /\ Valid(body[c])' /\ CreditMet(c)' /\ BoardMet(c)'
    BY <1>1, <1>2, <1>3, StageStep DEF SkipQuests
  <2>2. Applied(c)'
    BY <1>3, <2>1 DEF SkipQuests, Applied, QuestsMet
  <2>3. StageInv(w)'
    BY <2>1, <2>2 DEF StageInv, Handling
  <2> QED
    BY <2>1, <2>3 DEF WorkerInv
<1>4. CASE ListQuests(w)
  <2>1. /\ toBump'[w] = Advances(body[c]) \cap active
        /\ UNCHANGED <<body, active, xp, weekly, monthly, bumps, missed>>
    BY <1>4 DEF ListQuests, queueVars, coreVars, effects, IInv, TypeOK
  <2>2. PICK p \in {"record", "bump"} : /\ pc' = [pc EXCEPT ![w] = p]
                                        /\ p = "record" => toBump'[w] = {}
    BY <1>4 DEF ListQuests
  <2>3. /\ LoopInv(w)' /\ BatchInv(w)' /\ pc'[w] = p /\ c \in Msgs /\ cur'[w] = c
        /\ Valid(body[c])' /\ CreditMet(c)' /\ BoardMet(c)'
    BY <1>1, <1>2, <1>4, <2>2, StageStep DEF ListQuests
  <2>4. p = "record" => Applied(c)'
    BY <2>1, <2>2, <2>3 DEF Applied, QuestsMet
  <2>5. StageInv(w)'
    BY <2>1, <2>2, <2>3, <2>4 DEF StageInv, Handling
  <2> QED
    BY <2>3, <2>5 DEF WorkerInv
<1>5. CASE ListFails(w)
  <2>1. LoopInv(w)' /\ BatchInv(w)' /\ pc'[w] = "record" /\ c \in failures'[w] /\ cur'[w] = c
    BY <1>1, <1>5, ProceedInv DEF ListFails, Stages
  <2>2. StageInv(w)'
    BY <2>1 DEF StageInv, Handling
  <2> QED
    BY <2>1, <2>2 DEF WorkerInv
<1> QED
  BY <1>3, <1>4, <1>5

LEMMA BumpInv ==
  ASSUME IInv, TypeOK', Grow, NEW w \in Workers, Bump(w)
  PROVE  WorkerInv(w)'
<1> DEFINE c == cur[w]
           owed == Advances(body[c]) \cap active
<1>1. PICK q \in toBump[w], r \in CallResults :
        LET rest == IF r.ok THEN toBump[w] \ {q} ELSE {}
        IN  /\ bumps' = [bumps EXCEPT ![c][q] = @ + r.applied]
            /\ toBump' = [toBump EXCEPT ![w] = rest]
            /\ Proceed(w, r.ok, IF rest = {} THEN "record" ELSE "bump")
  BY DEF Bump
<1> DEFINE rest == IF r.ok THEN toBump[w] \ {q} ELSE {}
           p == IF rest = {} THEN "record" ELSE "bump"
<1>2. /\ LoopInv(w)' /\ BatchInv(w)' /\ pc'[w] = IF r.ok THEN p ELSE "record"
      /\ ~r.ok => c \in failures'[w]
      /\ c \in Msgs /\ cur'[w] = c /\ Valid(body[c])'
  <2>1. p \in Stages \ {"idle", "loop"} /\ pc[w] \in Handling
    BY DEF Bump, Stages, Handling
  <2>2. UNCHANGED <<batch, todo, cur>> /\ Proceed(w, r.ok, p)
    BY <1>1 DEF Bump
  <2> QED
    BY <2>1, <2>2, ProceedInv
<1>3. CreditMet(c) /\ BoardMet(c) /\ \A x \in owed \ toBump[w] : bumps[c][x] >= 1
  BY DEF IInv, WorkerInv, StageInv, Bump
<1>4. CreditMet(c)' /\ BoardMet(c)'
  BY <1>2, <1>3, MetStable DEF IInv
<1>5. toBump'[w] = rest /\ UNCHANGED <<body, active, missed>>
  <2>1. UNCHANGED <<body, active, missed>>
    BY DEF Bump, queueVars, coreVars
  <2>2. toBump' = [toBump EXCEPT ![w] = rest]
    BY <1>1
  <2>3. toBump \in [Workers -> SUBSET Quests]
    BY DEF IInv, TypeOK
  <2> QED
    BY <2>1, <2>2, <2>3, Zenon
<1>6. r.ok => \A x \in owed \ rest : bumps'[c][x] >= 1
  <2> SUFFICES ASSUME r.ok, NEW x \in owed \ rest PROVE bumps'[c][x] >= 1
    OBVIOUS
  <2>1. q \in Quests /\ x \in Quests /\ r.applied \in Nat /\ r.applied >= 1
    BY Results, EffectsAreStages DEF IInv, TypeOK
  <2>2. bumps[c][q] \in Nat /\ bumps[c][x] \in Nat /\ bumps[c][x] <= bumps'[c][x]
    BY <1>2, <2>1 DEF IInv, TypeOK, Grow
  <2>3. CASE x = q
    <3>1. bumps'[c][q] = bumps[c][q] + r.applied
      BY <1>1, <1>2, <2>1 DEF IInv, TypeOK
    <3> QED
      BY <2>1, <2>2, <2>3, <3>1
  <2>4. CASE x # q
    <3>1. bumps[c][x] >= 1
      BY <1>3, <2>4
    <3>2. bumps'[c][x] \in Nat
      BY <1>2, <2>1 DEF TypeOK
    <3> QED
      BY <2>2, <3>1, <3>2
  <2> QED
    BY <2>3, <2>4
<1>7. r.ok /\ rest = {} => Applied(c)'
  BY <1>2, <1>4, <1>5, <1>6 DEF Applied, QuestsMet
<1>8. StageInv(w)'
  BY <1>2, <1>4, <1>5, <1>6, <1>7 DEF StageInv, Handling
<1> QED
  BY <1>2, <1>8 DEF WorkerInv

LEMMA HandleInv ==
  ASSUME IInv, TypeOK', Grow, NEW w \in Workers, Handle(w)
  PROVE  WorkerInv(w)'
BY CreditInv, WeeklyInv, MonthlyInv, QuestsInv, BumpInv DEF Handle

LEMMA LoopStepInv ==
  ASSUME IInv, TypeOK', Grow, NEW w \in Workers, Loop(w)
  PROVE  WorkerInv(w)'
BY AcceptInv, RejectInv, RecordInv, EndInv DEF Loop, RepoUnavailable, ParseEscapes, Return

LEMMA InvokeInv ==
  ASSUME IInv, TypeOK', NEW w \in Workers, Invoke(w)
  PROVE  WorkerInv(w)'
<1> USE DEF IInv, TypeOK, WorkerInv
<1>1. /\ pc[w] = "idle" /\ pc'[w] = "loop" /\ batch'[w] = todo'[w]
      /\ cur'[w] = cur[w] /\ failures'[w] = failures[w]
  BY DEF Invoke
<1>2. cur'[w] = NoMsg /\ failures'[w] = {}
  BY <1>1 DEF LoopInv
<1> QED
  BY <1>1, <1>2 DEF LoopInv, StageInv, BatchInv, Completed, Handling

\* The steps of a container touch no other container's variables.
LEMMA OneContainer ==
  ASSUME TypeOK, NEW w \in Workers, NEW v \in Workers \ {w},
         Invoke(w) \/ Loop(w) \/ Handle(w) \/ Crash(w) \/ Recycle(w)
  PROVE  SameLocal(v)
<1> USE DEF TypeOK, SameLocal
<1>1. CASE Invoke(w) \/ Crash(w) \/ Recycle(w)
  BY <1>1 DEF Invoke, Crash, Recycle, EndInvocation
<1>2. CASE Loop(w)
  <2>1. CASE RepoUnavailable(w) \/ ParseEscapes(w) \/ Return(w)
    BY <2>1 DEF RepoUnavailable, ParseEscapes, Return, EndInvocation
  <2>2. CASE Record(w)
    BY <2>2 DEF Record
  <2>3. CASE \E m \in Msgs : Accept(w, m) \/ RejectInvalid(w, m)
    BY <2>3 DEF Accept, RejectInvalid, Take
  <2> QED
    BY <1>2, <2>1, <2>2, <2>3 DEF Loop
<1>3. CASE Handle(w)
  <2>1. CASE Credit(w) \/ Weekly(w) \/ Monthly(w)
    BY <2>1 DEF Credit, Weekly, Monthly, Proceed
  <2>2. CASE SkipQuests(w) \/ ListQuests(w) \/ ListFails(w)
    BY <2>2 DEF SkipQuests, ListQuests, ListFails, Proceed
  <2>3. CASE Bump(w)
    BY <2>3 DEF Bump, Proceed
  <2> QED
    BY <1>3, <2>1, <2>2, <2>3 DEF Handle
<1> QED
  BY <1>1, <1>2, <1>3

\* A message is deleted only by Return, and only if the loop completed it.
LEMMA DoneStep ==
  ASSUME IInv, [Next]_vars, NEW m \in Msgs, place[m] # "done", place'[m] = "done"
  PROVE  \E w \in Workers : Return(w) /\ m \in Completed(w)
<1>1. PICK w \in Workers : Return(w)
  <2>1. \A x \in Msgs : Publish(x) \/ Bury(x) => place'[m] # "done"
    BY DEF IInv, TypeOK, Publish, Bury
  <2>2. place' # place
    OBVIOUS
  <2>3. \A w \in Workers : Invoke(w) \/ Handle(w) \/ Crash(w) \/ Recycle(w) => place' = place
    BY DEF Invoke, Crash, Recycle, Handle, Credit, Weekly, Monthly, SkipQuests, ListQuests,
       ListFails, Bump, queueVars
  <2>4. \A w \in Workers : Loop(w) /\ ~Return(w) => place' = place
    BY DEF Loop, RepoUnavailable, ParseEscapes, Accept, RejectInvalid, Take, Record, queueVars
  <2>5. MountQuests \/ (\E q \in Quests : CloseQuest(q)) \/ UNCHANGED vars => place' = place
    BY DEF MountQuests, CloseQuest, vars, queueVars
  <2> QED
    BY <2>1, <2>2, <2>3, <2>4, <2>5 DEF Next
<1>2. m \in Deleted(w)
  BY <1>1 DEF Return, IInv, TypeOK
<1>3. m \in Completed(w)
  BY <1>1, <1>2, WorkerAssumption
  DEF Deleted, Completed, Return, IInv, WorkerInv, LoopInv
<1> QED
  BY <1>1, <1>3

LEMMA AckedInv ==
  ASSUME IInv, [Next]_vars, TypeOK', Grow
  PROVE  AckedMeansApplied'
<1> SUFFICES ASSUME NEW m \in Msgs, place'[m] = "done" PROVE Applied(m)'
  BY DEF AckedMeansApplied
<1>1. CASE place[m] = "done"
  BY <1>1, MetStable DEF IInv, AckedMeansApplied
<1>2. CASE place[m] # "done"
  <2>1. PICK w \in Workers : m \in Completed(w)
    BY <1>2, DoneStep
  <2> QED
    BY <2>1, MetStable DEF IInv, WorkerInv, BatchInv
<1> QED
  BY <1>1, <1>2

LEMMA NextInv ==
  ASSUME IInv, [Next]_vars
  PROVE  IInv'
<1>1. TypeOK' /\ IsFiniteSet(rows)' /\ Grow
  BY NextTyped, NextGrows
<1>2. AckedMeansApplied'
  BY <1>1, AckedInv
<1>3. ASSUME NEW v \in Workers PROVE WorkerInv(v)'
  <2>1. CASE \E w \in Workers : Invoke(w) \/ Loop(w) \/ Handle(w) \/ Crash(w) \/ Recycle(w)
    <3>1. PICK w \in Workers : Invoke(w) \/ Loop(w) \/ Handle(w) \/ Crash(w) \/ Recycle(w)
      BY <2>1
    <3>2. CASE v # w
      BY <1>1, <3>1, <3>2, OneContainer, Elsewhere DEF IInv
    <3>3. CASE v = w /\ ~Recycle(w)
      BY <1>1, <3>1, <3>3, InvokeInv, LoopStepInv, HandleInv, EndInv DEF Crash
    <3>4. CASE v = w /\ Recycle(w)
      <4>1. SameLocal(v)
        BY <3>4 DEF Recycle, SameLocal
      <4> QED
        BY <1>1, <4>1, Elsewhere
    <3> QED
      BY <3>2, <3>3, <3>4
  <2>2. CASE ~\E w \in Workers : Invoke(w) \/ Loop(w) \/ Handle(w) \/ Crash(w) \/ Recycle(w)
    <3>1. SameLocal(v)
      BY <2>2 DEF Next, Publish, Bury, MountQuests, CloseQuest, vars, loopVars, SameLocal
    <3> QED
      BY <1>1, <3>1, Elsewhere
  <2> QED
    BY <2>1, <2>2
<1> QED
  BY <1>1, <1>2, <1>3 DEF IInv

LEMMA Inductive == Spec => []IInv
<1>1. Init => IInv
  BY InitInv
<1>2. IInv /\ [Next]_vars => IInv'
  BY NextInv
<1> QED
  BY <1>1, <1>2, PTL DEF Spec

-----------------------------------------------------------------------------
\* Every variable of the worker keeps its type; in particular no message is
\* delivered more than MaxReceive times.
THEOREM TypeCorrect == Spec => []TypeOK
<1>1. IInv => TypeOK
  BY DEF IInv
<1> QED
  BY <1>1, Inductive, PTL

\* lambda_handler never lets SQS delete an event whose credit, leaderboard
\* writes or quest steps have not all been made, whatever fails, is killed or
\* is delivered twice (handler.py, dispatch loop; xp_awarded.py:40-46).
THEOREM NoEarlyAck == Spec => []AckedMeansApplied
<1>1. IInv => AckedMeansApplied
  BY DEF IInv
<1> QED
  BY <1>1, Inductive, PTL

\* No step takes an effect back, so an obligation once met stays met.
THEOREM EffectsOnlyGrow == Spec => [][Grow]_vars
<1>1. IInv /\ [Next]_vars => [Grow]_vars
  BY NextGrows
<1> QED
  BY <1>1, Inductive, PTL DEF Spec

-----------------------------------------------------------------------------
(* The event log.                                                          *)

\* The rows a save or an update may leave behind.
LEMMA RowsAfter ==
  ASSUME NEW R, NEW m, NEW s
  PROVE  /\ \A S \in Saved(R, m) : S \subseteq R \cup {NewRow(R, m)}
         /\ \A S \in Updated(R, m, s) : \A r \in S :
              r \in R \/ \E x \in R : x.id = m /\ r = [x EXCEPT !.status = s]
<1>1. \A S \in Saved(R, m) : S \subseteq R \cup {NewRow(R, m)}
  BY DEF Saved, OrFails, SqliteSave, DynamoSave
<1>2. \A S \in Updated(R, m, s) : S = R \/ \E W \in SUBSET RowsOf(R, m) : S = SetStatus(R, W, s)
  BY DEF Updated, OrFails, SqliteUpdate, DynamoUpdates
<1> QED
  BY <1>1, <1>2 DEF SetStatus, RowsOf

\* Only a save or an update changes the log.
LEMMA RowsSteps ==
  ASSUME [Next]_vars
  PROVE  \/ rows' = rows
         \/ \E w \in Workers : Record(w) \/ \E m \in Msgs, p \in Stages : Take(w, m, p)
<1>1. \A w \in Workers : Loop(w) => rows' = rows \/ Record(w) \/ \E m \in Msgs, p \in Stages : Take(w, m, p)
  BY EffectsAreStages DEF Loop, RepoUnavailable, ParseEscapes, Return, Accept, RejectInvalid, Stages
<1>2. \A w \in Workers : Invoke(w) \/ Handle(w) \/ Crash(w) \/ Recycle(w) => rows' = rows
  BY DEF Invoke, Crash, Recycle, Handle, Credit, Weekly, Monthly, SkipQuests, ListQuests, ListFails, Bump
<1>3. (\E m \in Msgs : Publish(m) \/ Bury(m)) \/ MountQuests \/ (\E q \in Quests : CloseQuest(q))
        \/ UNCHANGED vars => rows' = rows
  BY DEF Publish, Bury, MountQuests, CloseQuest, vars
<1> QED
  BY <1>1, <1>2, <1>3 DEF Next

LEMMA LogStep ==
  ASSUME IInv, [Next]_vars, LogNeverOverstates
  PROVE  LogNeverOverstates'
<1> SUFFICES ASSUME NEW r \in rows', r.status = "ok" PROVE Applied(r.id)'
  BY DEF LogNeverOverstates
<1>1. TypeOK' /\ Grow
  BY NextTyped, NextGrows
<1>2. ASSUME r \in rows PROVE Applied(r.id)'
  BY <1>1, <1>2, MetStable DEF LogNeverOverstates, IInv, TypeOK
<1>3. ASSUME NEW w \in Workers, NEW m \in Msgs, NEW p, Take(w, m, p) PROVE Applied(r.id)'
  <2>1. r \in rows \/ r = NewRow(rows, m)
    BY <1>3, RowsAfter DEF Take
  <2>2. r # NewRow(rows, m)
    BY DEF NewRow
  <2> QED
    BY <1>2, <2>1, <2>2
<1>4. ASSUME NEW w \in Workers, Record(w) PROVE Applied(r.id)'
  <2>1. r \in rows \/ \E x \in rows : x.id = cur[w] /\ r = [x EXCEPT !.status = FinalStatus(w)]
    BY <1>4, RowsAfter DEF Record
  <2>2. CASE r \in rows
    BY <1>2, <2>2
  <2>3. CASE r \notin rows
    <3>1. PICK x \in rows : x.id = cur[w] /\ r = [x EXCEPT !.status = FinalStatus(w)]
      BY <2>1, <2>3
    <3>2. r.id = cur[w] /\ r.status = FinalStatus(w)
      BY <3>1 DEF IInv, TypeOK
    <3>3. cur[w] \in Msgs /\ Applied(cur[w])
      BY <1>4, <3>2, InHand DEF Record, FinalStatus, IInv, WorkerInv, StageInv
    <3> QED
      BY <1>1, <3>2, <3>3, MetStable DEF IInv
  <2> QED
    BY <2>2, <2>3
<1>5. CASE rows' = rows
  BY <1>2, <1>5
<1>6. \/ rows' = rows
      \/ \E w \in Workers : Record(w) \/ \E m \in Msgs, p \in Stages : Take(w, m, p)
  BY RowsSteps
<1> QED
  BY <1>3, <1>4, <1>5, <1>6

\* Whatever the backend, and however many of its writes are lost, a row of
\* the event log says "ok" only of an event that was applied (handler.py,
\* _safe_save and _safe_update_status around _dispatch).
THEOREM LogIsHonest == Spec => []LogNeverOverstates
<1>1. Init => LogNeverOverstates
  BY DEF Init, LogNeverOverstates
<1>2. IInv /\ [Next]_vars /\ LogNeverOverstates => LogNeverOverstates'
  BY LogStep
<1> QED
  BY <1>1, <1>2, Inductive, PTL DEF Spec

-----------------------------------------------------------------------------
(* The contract with the queue.                                            *)

Status == [m \in Msgs |-> CASE place[m] = "queue" -> "pending"
                             [] place[m] = "dlq"   -> "dead"
                             [] OTHER -> place[m]]

Met == {m \in Msgs : Applied(m)}

\* A step that moves no message and counts no delivery is work at most.
LEMMA WorkStep ==
  ASSUME IInv, TypeOK', Grow, place' = place, receives' = receives
  PROVE  Contract!Work
<1>1. Status' = Status
  BY DEF Status
<1>2. Met \subseteq Met' /\ Met' \subseteq Msgs
  BY MetStable DEF Met, IInv
<1> QED
  BY <1>1, <1>2 DEF Contract!Work, Status, Met

LEMMA SameMet ==
  ASSUME UNCHANGED <<body, coreVars, effects>>
  PROVE  Met' = Met
BY DEF Met, Applied, CreditMet, BoardMet, QuestsMet, coreVars, effects

LEMMA QueueStep ==
  ASSUME IInv, NEW m \in Msgs, Publish(m) \/ Bury(m)
  PROVE  Contract!Send(m) \/ Contract!GiveUp(m)
<1>1. Met' = Met
  BY SameMet DEF Publish, Bury
<1>2. CASE Publish(m)
  <2>1. Status[m] = "unsent" /\ Status' = [Status EXCEPT ![m] = "pending"] /\ receives' = receives
    BY <1>2 DEF Status, Publish, IInv, TypeOK
  <2> QED
    BY <1>1, <2>1 DEF Contract!Send, Status, Met
<1>3. CASE Bury(m)
  <2>1. /\ Status[m] = "pending" /\ Status' = [Status EXCEPT ![m] = "dead"]
        /\ receives[m] = MaxReceive /\ receives' = receives
    BY <1>3 DEF Status, Bury, IInv, TypeOK
  <2> QED
    BY <1>1, <2>1 DEF Contract!GiveUp, Status, Met
<1> QED
  BY <1>2, <1>3

LEMMA InvokeStep ==
  ASSUME IInv, NEW w \in Workers, Invoke(w)
  PROVE  \E S \in SUBSET Msgs : Contract!Try(S)
<1>1. Met' = Met /\ Status' = Status
  BY SameMet DEF Invoke, Status
<1>2. PICK S \in SUBSET {m \in Msgs : Deliverable(m)} :
        receives' = [m \in Msgs |-> IF m \in S THEN receives[m] + 1 ELSE receives[m]]
  BY DEF Invoke
<1>3. S \in SUBSET Msgs /\ \A m \in S : Status[m] = "pending" /\ receives[m] < MaxReceive
  BY <1>2 DEF Deliverable, Status
<1> QED
  BY <1>1, <1>2, <1>3 DEF Contract!Try, Status, Met

LEMMA ReturnStep ==
  ASSUME IInv, NEW w \in Workers, Return(w)
  PROVE  \E S \in SUBSET Msgs : Contract!Complete(S)
<1> DEFINE S == {m \in Deleted(w) : place[m] = "queue"}
<1>1. S \subseteq Completed(w) /\ S \subseteq Msgs
  BY WorkerAssumption DEF Deleted, Completed, Return, IInv, TypeOK, WorkerInv, LoopInv
<1>2. S \subseteq Met
  BY <1>1 DEF IInv, WorkerInv, BatchInv, Met
<1>3. \A m \in S : Status[m] = "pending"
  BY <1>1 DEF Status
<1>4. Status' = [m \in Msgs |-> IF m \in S THEN "done" ELSE Status[m]]
  <2>1. place' = [m \in Msgs |-> IF m \in S THEN "done" ELSE place[m]]
    BY DEF Return
  <2> QED
    BY <2>1 DEF Status
<1>5. Met' = Met /\ receives' = receives
  BY SameMet DEF Return
<1> QED
  BY <1>1, <1>2, <1>3, <1>4, <1>5 DEF Contract!Complete, Status, Met

LEMMA StepRefines ==
  ASSUME IInv, [Next]_vars
  PROVE  Contract!Next
<1>1. TypeOK' /\ Grow
  BY NextTyped, NextGrows
<1>2. CASE \E m \in Msgs : Publish(m) \/ Bury(m)
  BY <1>2, QueueStep DEF Contract!Next
<1>3. CASE \E w \in Workers : Invoke(w)
  BY <1>3, InvokeStep DEF Contract!Next
<1>4. CASE \E w \in Workers : Return(w)
  BY <1>4, ReturnStep DEF Contract!Next
<1>5. CASE ~\E w \in Workers : Invoke(w) \/ Return(w)
  <2>1. \A w \in Workers : Loop(w) /\ ~Return(w) => place' = place /\ receives' = receives
    BY DEF Loop, RepoUnavailable, ParseEscapes, Accept, RejectInvalid, Take, Record, queueVars
  <2>2. \A w \in Workers : Handle(w) \/ Crash(w) \/ Recycle(w) => place' = place /\ receives' = receives
    BY DEF Crash, Recycle, Handle, Credit, Weekly, Monthly, SkipQuests, ListQuests,
       ListFails, Bump, queueVars
  <2>3. MountQuests \/ (\E q \in Quests : CloseQuest(q)) \/ UNCHANGED vars
          => place' = place /\ receives' = receives
    BY DEF MountQuests, CloseQuest, vars, queueVars
  <2>4. (\E m \in Msgs : Publish(m) \/ Bury(m)) \/ (place' = place /\ receives' = receives)
    BY <1>5, <2>1, <2>2, <2>3 DEF Next
  <2> QED
    BY <1>1, <1>2, <2>4, WorkStep DEF Contract!Next
<1> QED
  BY <1>2, <1>3, <1>4, <1>5

LEMMA InitRefines == Init => Contract!Init
<1> SUFFICES ASSUME Init PROVE Contract!Init
  OBVIOUS
<1>1. Status = [m \in Msgs |-> "unsent"] /\ receives = [m \in Msgs |-> 0]
  BY DEF Init, Status
<1>2. Met \in SUBSET Msgs
  BY DEF Met
<1> QED
  BY <1>1, <1>2 DEF Contract!Init, Status, Met

\* The worker implements Delivery: it completes only messages whose
\* obligations are met, gives up only after MaxReceive deliveries, and never
\* loses an obligation it has met.
THEOREM Refinement == Spec => KeepsContract
<1>1. Init => Contract!Init
  BY InitRefines
<1>2. IInv /\ [Next]_vars => [Contract!Next]_(Contract!vars)
  BY StepRefines
<1> QED
  BY <1>1, <1>2, Inductive, PTL DEF Spec, KeepsContract, Contract!Spec

-----------------------------------------------------------------------------
(* Nothing is done that was not asked for.                                 *)

\* The stage w is at is one that its record's handler comes to.
StageAsked(w) ==
  /\ pc[w] = "credit" => NeedsCredit(body[cur[w]])
  /\ pc[w] \in {"weekly", "monthly"} => WritesBoard(body[cur[w]])
  /\ pc[w] = "bump" => toBump[w] \subseteq Advances(body[cur[w]])

\* What was done for m is what its body asks for.
Asked(m) ==
  /\ xp[m] > 0 => Valid(body[m]) /\ NeedsCredit(body[m])
  /\ weekly[m] > 0 \/ monthly[m] > 0 => Valid(body[m]) /\ WritesBoard(body[m])
  /\ \A q \in Quests : bumps[m][q] > 0 => Valid(body[m]) /\ q \in Advances(body[m])

NothingUnasked == \A m \in Msgs : Asked(m)

AskedInv == (\A w \in Workers : StageAsked(w)) /\ NothingUnasked

LEMMA StagesAsked ==
  ASSUME NEW b
  PROVE  /\ FirstEffect(b) = "credit" => NeedsCredit(b)
         /\ FirstEffect(b) = "weekly" => WritesBoard(b)
         /\ AfterCredit(b) = "weekly" => WritesBoard(b)
BY DEF FirstEffect, AfterCredit, AfterBoard

\* Where a container's own step leaves it.
LEMMA StageAskedStep ==
  ASSUME IInv, NEW w \in Workers, StageAsked(w), body' = body,
         Invoke(w) \/ Loop(w) \/ Handle(w) \/ Crash(w) \/ Recycle(w)
  PROVE  StageAsked(w)'
<1> USE DEF IInv, TypeOK
<1>1. CASE Invoke(w) \/ EndInvocation(w) \/ Record(w)
  BY <1>1 DEF Invoke, EndInvocation, Record, StageAsked
<1>2. CASE Recycle(w)
  BY <1>2 DEF Recycle, StageAsked
<1>3. ASSUME NEW m \in Msgs, Accept(w, m) PROVE StageAsked(w)'
  <2>1. pc'[w] = FirstEffect(body[m]) /\ cur'[w] = m
    BY <1>3 DEF Accept, Take
  <2> QED
    BY <2>1, StagesAsked, NothingOwed DEF StageAsked
<1>4. ASSUME NEW m \in Msgs, RejectInvalid(w, m) PROVE StageAsked(w)'
  BY <1>4 DEF RejectInvalid, Take, StageAsked
<1>5. CASE Credit(w)
  <2>1. pc'[w] \in {AfterCredit(body[cur[w]]), "record"} /\ cur' = cur
    BY <1>5 DEF Credit, Proceed
  <2> QED
    BY <2>1, StagesAsked, NothingOwed DEF StageAsked
<1>6. CASE Weekly(w)
  BY <1>6 DEF Weekly, Proceed, StageAsked
<1>7. CASE Monthly(w)
  <2>1. pc'[w] \in {AfterBoard(body[cur[w]]), "record"} /\ cur' = cur
    BY <1>7 DEF Monthly, Proceed
  <2> QED
    BY <2>1, NothingOwed DEF StageAsked
<1>8. CASE SkipQuests(w) \/ ListFails(w)
  BY <1>8 DEF SkipQuests, ListFails, Proceed, StageAsked
<1>9. CASE ListQuests(w)
  <2>1. /\ pc'[w] \in {"record", "bump"} /\ cur' = cur
        /\ toBump'[w] = Advances(body[cur[w]]) \cap active
    BY <1>9 DEF ListQuests
  <2> QED
    BY <2>1 DEF StageAsked
<1>10. CASE Bump(w)
  <2>1. /\ pc[w] = "bump" /\ pc'[w] \in {"record", "bump"} /\ cur' = cur
        /\ toBump'[w] \subseteq toBump[w]
    BY <1>10 DEF Bump, Proceed
  <2> QED
    BY <2>1 DEF StageAsked
<1> QED
  BY <1>1, <1>2, <1>3, <1>4, <1>5, <1>6, <1>7, <1>8, <1>9, <1>10
  DEF Loop, Handle, Crash, RepoUnavailable, ParseEscapes, Return

\* A handler adds to the effects of its own record, those it asks for.
LEMMA HandleAsked ==
  ASSUME IInv, NEW w \in Workers, StageAsked(w), Handle(w), NEW m \in Msgs, Asked(m)
  PROVE  Asked(m)'
<1> USE DEF IInv, TypeOK
<1>1. /\ pc[w] \in Handling /\ body' = body
      /\ cur[w] \in Msgs /\ Valid(body[cur[w]])
  <2>1. pc[w] \in Handling /\ body' = body
    BY DEF Handle, Credit, Weekly, Monthly, SkipQuests, ListQuests, ListFails, Bump, Handling,
       queueVars
  <2> QED
    BY <2>1, InHand DEF Handling, WorkerInv, StageInv
<1>2. CASE Credit(w)
  <2>1. NeedsCredit(body[cur[w]])
    BY <1>2 DEF Credit, StageAsked
  <2>2. (m # cur[w] => xp'[m] = xp[m]) /\ UNCHANGED <<weekly, monthly, bumps>>
    BY <1>1, <1>2 DEF Credit
  <2> QED
    BY <1>1, <2>1, <2>2 DEF Asked
<1>3. CASE Weekly(w) \/ Monthly(w)
  <2>1. WritesBoard(body[cur[w]])
    BY <1>3 DEF Weekly, Monthly, StageAsked
  <2>2. /\ m # cur[w] => weekly'[m] = weekly[m] /\ monthly'[m] = monthly[m]
        /\ UNCHANGED <<xp, bumps>>
    BY <1>1, <1>3 DEF Weekly, Monthly
  <2> QED
    BY <1>1, <2>1, <2>2 DEF Asked
<1>4. CASE SkipQuests(w) \/ ListQuests(w) \/ ListFails(w)
  BY <1>1, <1>4 DEF SkipQuests, ListQuests, ListFails, effects, Asked
<1>5. CASE Bump(w)
  <2>1. PICK q \in toBump[w], r \in CallResults : bumps' = [bumps EXCEPT ![cur[w]][q] = @ + r.applied]
    BY <1>5 DEF Bump
  <2>2. q \in Advances(body[cur[w]])
    BY <1>5, <2>1 DEF Bump, StageAsked
  <2>3. \A x \in Quests : (m # cur[w] \/ x # q) => bumps'[m][x] = bumps[m][x]
    BY <1>1, <2>1
  <2>4. UNCHANGED <<xp, weekly, monthly>>
    BY <1>5 DEF Bump
  <2> QED
    BY <1>1, <2>2, <2>3, <2>4 DEF Asked
<1> QED
  BY <1>2, <1>3, <1>4, <1>5 DEF Handle

LEMMA NextAsked ==
  ASSUME IInv, [Next]_vars, AskedInv
  PROVE  AskedInv'
<1>1. body' = body
  BY NextGrows DEF Grow
<1>2. ASSUME NEW v \in Workers PROVE StageAsked(v)'
  <2>1. CASE Invoke(v) \/ Loop(v) \/ Handle(v) \/ Crash(v) \/ Recycle(v)
    BY <1>1, <2>1, StageAskedStep DEF AskedInv
  <2>2. CASE ~(Invoke(v) \/ Loop(v) \/ Handle(v) \/ Crash(v) \/ Recycle(v))
    <3>1. SameLocal(v)
      BY <2>2, OneContainer
      DEF IInv, Next, Publish, Bury, MountQuests, CloseQuest, vars, loopVars, SameLocal
    <3> QED
      BY <1>1, <3>1 DEF AskedInv, SameLocal, StageAsked
  <2> QED
    BY <2>1, <2>2
<1>3. ASSUME NEW m \in Msgs PROVE Asked(m)'
  <2>1. CASE \E w \in Workers : Handle(w)
    BY <2>1, HandleAsked DEF AskedInv, NothingUnasked
  <2>2. CASE ~\E w \in Workers : Handle(w)
    <3>1. UNCHANGED effects
      BY <2>2 DEF Next, Publish, Bury, Invoke, Loop, RepoUnavailable, ParseEscapes, Accept,
         RejectInvalid, Take, Record, Return, Crash, Recycle, MountQuests, CloseQuest, vars
    <3> QED
      BY <1>1, <3>1 DEF AskedInv, NothingUnasked, Asked, effects
  <2> QED
    BY <2>1, <2>2
<1> QED
  BY <1>2, <1>3 DEF AskedInv, NothingUnasked

\* No credit the producer already made is made again, no leaderboard entry is
\* written for a user who opted out or an award of nothing, no quest moves on
\* an event of another unit, and nothing at all is done for a message that
\* does not parse (xp_awarded.py:39, updater.py:36-44, evaluator.py:47-77).
THEOREM OnlyWhatWasAsked == Spec => []NothingUnasked
<1>1. Init => AskedInv
  BY DEF Init, AskedInv, StageAsked, NothingUnasked, Asked
<1>2. IInv /\ [Next]_vars /\ AskedInv => AskedInv'
  BY NextAsked
<1>3. AskedInv => NothingUnasked
  BY DEF AskedInv
<1> QED
  BY <1>1, <1>2, <1>3, Inductive, PTL DEF Spec

-----------------------------------------------------------------------------
(* Messages nobody can parse.                                              *)

\* A message that does not parse is never acknowledged, and stays what it is.
LEMMA PoisonStep ==
  ASSUME NEW m \in Msgs
  PROVE  /\ IInv => ~(~Valid(body[m]) /\ place[m] = "done")
         /\ IInv /\ [Next]_vars /\ ~Valid(body[m]) => (~Valid(body[m]))'
<1>1. IInv => ~(~Valid(body[m]) /\ place[m] = "done")
  BY DEF IInv, AckedMeansApplied, Applied
<1>2. IInv /\ [Next]_vars /\ ~Valid(body[m]) => (~Valid(body[m]))'
  BY NextGrows DEF Grow
<1> QED
  BY <1>1, <1>2

\* Where every message leaves the queue, as the worker_liveness run shows it
\* does, a message nobody can parse leaves it for the DLQ
\* (handler.py:206-208).
THEOREM PoisonGoesToDlq == Spec => (EventuallySettled => PoisonIsKept)
<1>1. ASSUME NEW m \in Msgs
      PROVE  Spec => (   (place[m] = "queue" ~> place[m] \in {"done", "dlq"})
                      => (place[m] = "queue" /\ ~Valid(body[m]) ~> place[m] = "dlq"))
  <2>1. /\ IInv => ~(~Valid(body[m]) /\ place[m] = "done")
        /\ IInv /\ [Next]_vars /\ ~Valid(body[m]) => (~Valid(body[m]))'
    BY PoisonStep
  <2>2. place[m] \in {"done", "dlq"} <=> place[m] = "done" \/ place[m] = "dlq"
    OBVIOUS
  <2> QED
    BY <2>1, <2>2, Inductive, PTL DEF Spec
<1> QED
  BY <1>1 DEF EventuallySettled, PoisonIsKept
=============================================================================
