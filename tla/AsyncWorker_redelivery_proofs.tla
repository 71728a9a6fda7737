------------------- MODULE AsyncWorker_redelivery_proofs -------------------
(***************************************************************************)
(* What redelivery can multiply, what one invocation owes the records of   *)
(* its batch, and how the work runs down, for every value of AsyncWorker's *)
(* constants.                                                              *)
(*                                                                         *)
(* Each bound is kept as a budget: of the deliveries a message had, those  *)
(* whose effect is still to come have not used up their attempts.  Without *)
(* faults the budget is one, and every effect happens once.                *)
(***************************************************************************)
EXTENDS AsyncWorker_proofs

\* Requests of one call that may take effect: retries need a failure to follow.
CoreTries  == IF "core" \in Faults THEN MaxAttempts ELSE 1
WriteTries == IF "dynamo" \in Faults THEN WriteAttempts ELSE 1

\* n effects, and K more from each container in T, fit into c times K.
Within(n, K, T, c) == IsFiniteSet(T) /\ n + K * Cardinality(T) <= K * c

\* The containers that have m before them, or in hand at a stage of S.
Owing(m, S) == {w \in Workers : m \in todo[w] \/ (cur[w] = m /\ pc[w] \in S)}

BumpOwing(m, q) ==
  Owing(m, {"credit", "weekly", "monthly", "quests"})
    \cup {w \in Workers : cur[w] = m /\ pc[w] = "bump" /\ q \in toBump[w]}

\* Those that have m in hand at a stage of S.
Fed(m, S) == {w \in Workers : cur[w] = m /\ pc[w] \in S}

BumpFed(m, q) ==
  Fed(m, {"weekly", "monthly", "quests"})
    \cup {w \in Workers : cur[w] = m /\ pc[w] = "bump" /\ q \in toBump[w]}

Damage(m) ==
  /\ Within(xp[m], CoreTries, Owing(m, {"credit"}), receives[m])
  /\ Within(weekly[m], WriteTries, Owing(m, {"credit", "weekly"}), receives[m])
  /\ Within(monthly[m], WriteTries, Owing(m, {"credit", "weekly", "monthly"}), receives[m])
  /\ \A q \in Quests : Within(bumps[m][q], CoreTries, BumpOwing(m, q), receives[m])

Fanout(m) ==
  /\ NeedsCredit(body[m]) =>
       /\ Within(weekly[m], WriteTries, Fed(m, {"weekly"}), xp[m])
       /\ \A q \in Quests : Within(bumps[m][q], CoreTries, BumpFed(m, q), xp[m])
  /\ Within(monthly[m], WriteTries, Fed(m, {"monthly"}), weekly[m])

Budgets == \A m \in Msgs : Damage(m) /\ Fanout(m)

-----------------------------------------------------------------------------
(* Budgets in general.                                                     *)

LEMMA Times ==
  ASSUME NEW K \in Nat, NEW a \in Nat, NEW b \in Nat, a <= b
  PROVE  K * a \in Nat /\ K * a <= K * b
<1>1. PICK d \in Nat : b = a + d
  <2>1. b - a \in Nat /\ b = a + (b - a)
    OBVIOUS
  <2> QED
    BY <2>1
<1>2. K * b = K * a + K * d
  BY <1>1
<1>3. K * a \in Nat /\ K * d \in Nat
  OBVIOUS
<1> QED
  BY <1>2, <1>3

\* A step of w keeps the budget Within(n, K, S, c): w joins no set, or what the
\* budget is measured by grows, or w leaves the set for K at most.
Keeps(w, n, n2, K, S, T, c, c2) ==
  /\ c <= c2
  /\ \/ n2 = n /\ (w \in T => w \in S)
     \/ n2 = n /\ c < c2
     \/ n2 <= n + K /\ w \in S /\ w \notin T

LEMMA BudgetKept ==
  ASSUME NEW w, NEW S, NEW T, T \subseteq S \cup {w}, NEW K \in Nat,
         NEW n \in Nat, NEW c \in Nat, NEW n2 \in Nat, NEW c2 \in Nat,
         Within(n, K, S, c), Keeps(w, n, n2, K, S, T, c, c2)
  PROVE  Within(n2, K, T, c2)
<1> USE DEF Keeps
<1>1. /\ IsFiniteSet(S) /\ Cardinality(S) \in Nat
      /\ n + K * Cardinality(S) <= K * c
  BY FS_CardinalityType DEF Within
<1>2. CASE n2 = n /\ (w \in T => w \in S)
  <2>1. T \in SUBSET S
    BY <1>2
  <2>2. IsFiniteSet(T) /\ Cardinality(T) \in Nat /\ Cardinality(T) <= Cardinality(S)
    BY <1>1, <2>1, FS_Subset, FS_CardinalityType
  <2>3. K * Cardinality(T) <= K * Cardinality(S) /\ K * c <= K * c2
    BY <1>1, <2>2, Times
  <2>4. /\ K * Cardinality(T) \in Nat /\ K * Cardinality(S) \in Nat
        /\ K * c \in Nat /\ K * c2 \in Nat
    BY <1>1, <2>2, Times
  <2> QED
    BY <1>1, <1>2, <2>2, <2>3, <2>4 DEF Within
<1>3. CASE n2 = n /\ c < c2
  <2>1. T \in SUBSET (S \cup {w})
    OBVIOUS
  <2>2. /\ IsFiniteSet(S \cup {w}) /\ Cardinality(S \cup {w}) \in Nat
        /\ Cardinality(S \cup {w}) <= Cardinality(S) + 1
    <3>1. /\ IsFiniteSet(S \cup {w})
          /\ Cardinality(S \cup {w}) = IF w \in S THEN Cardinality(S) ELSE Cardinality(S) + 1
      BY <1>1, FS_AddElement
    <3> QED
      BY <1>1, <3>1
  <2>3. IsFiniteSet(T) /\ Cardinality(T) \in Nat /\ Cardinality(T) <= Cardinality(S) + 1
    BY <1>1, <2>1, <2>2, FS_Subset, FS_CardinalityType
  <2>4. /\ K * Cardinality(T) <= K * (Cardinality(S) + 1)
        /\ K * (c + 1) <= K * c2
    BY <1>1, <1>3, <2>3, Times
  <2>5. K * (Cardinality(S) + 1) = K * Cardinality(S) + K /\ K * (c + 1) = K * c + K
    BY <1>1
  <2>6. /\ K * Cardinality(T) \in Nat /\ K * Cardinality(S) \in Nat
        /\ K * c \in Nat /\ K * c2 \in Nat
    BY <1>1, <2>3, Times
  <2> QED
    BY <1>1, <1>3, <2>3, <2>4, <2>5, <2>6 DEF Within
<1>4. CASE n2 <= n + K /\ w \in S /\ w \notin T
  <2>1. T \in SUBSET (S \ {w})
    BY <1>4
  <2>2. /\ IsFiniteSet(S \ {w}) /\ Cardinality(S \ {w}) \in Nat
        /\ Cardinality(S \ {w}) = Cardinality(S) - 1
    <3>1. /\ IsFiniteSet(S \ {w}) /\ Cardinality(S \ {w}) = Cardinality(S) - 1
      BY <1>1, <1>4, FS_RemoveElement
    <3> QED
      BY <3>1, FS_CardinalityType
  <2>3. IsFiniteSet(T) /\ Cardinality(T) \in Nat /\ Cardinality(T) + 1 <= Cardinality(S)
    BY <1>1, <2>1, <2>2, FS_Subset, FS_CardinalityType
  <2>4. /\ K * (Cardinality(T) + 1) <= K * Cardinality(S)
        /\ K * c <= K * c2
    BY <1>1, <2>3, Times
  <2>5. K * (Cardinality(T) + 1) = K * Cardinality(T) + K
    BY <2>3
  <2>6. /\ K * Cardinality(T) \in Nat /\ K * Cardinality(S) \in Nat
        /\ K * c \in Nat /\ K * c2 \in Nat
    BY <1>1, <2>3, Times
  <2> QED
    BY <1>1, <1>4, <2>3, <2>4, <2>5, <2>6 DEF Within
<1> QED
  BY <1>2, <1>3, <1>4

LEMMA Tries ==
  /\ CoreTries \in Nat /\ CoreTries <= MaxAttempts
  /\ WriteTries \in Nat /\ WriteTries <= WriteAttempts
BY WorkerAssumption DEF CoreTries, WriteTries

\* One call adds its number of tries at most.
LEMMA Attempts ==
  /\ \A r \in CallResults : r.applied \in 0..CoreTries /\ (r.ok => r.applied >= 1)
  /\ \A r \in WriteResults : r.applied \in 0..WriteTries /\ (r.ok => r.applied >= 1)
<1>1. \A r \in CallResults : r.applied \in 0..CoreTries /\ (r.ok => r.applied >= 1)
  <2>1. CASE "core" \in Faults
    BY <2>1, WorkerAssumption DEF CallResults, CallOutcomes, CoreTries
  <2>2. CASE "core" \notin Faults
    BY <2>2 DEF CallResults, CleanOutcome, CoreTries
  <2> QED
    BY <2>1, <2>2
<1>2. \A r \in WriteResults : r.applied \in 0..WriteTries /\ (r.ok => r.applied >= 1)
  <2>1. CASE "dynamo" \in Faults
    BY <2>1, WorkerAssumption DEF WriteResults, CallOutcomes, WriteTries
  <2>2. CASE "dynamo" \notin Faults
    BY <2>2 DEF WriteResults, CleanOutcome, WriteTries
  <2> QED
    BY <2>1, <2>2
<1> QED
  BY <1>1, <1>2

\* A container's step changes no other container's place in these sets.
LEMMA OthersStay ==
  ASSUME TypeOK, NEW w \in Workers,
         \A v \in Workers \ {w} : SameLocal(v)
  PROVE  \A m \in Msgs :
           /\ \A S \in SUBSET Stages : /\ Owing(m, S)' \subseteq Owing(m, S) \cup {w}
                                       /\ Fed(m, S)' \subseteq Fed(m, S) \cup {w}
           /\ \A q \in Quests : /\ BumpOwing(m, q)' \subseteq BumpOwing(m, q) \cup {w}
                                /\ BumpFed(m, q)' \subseteq BumpFed(m, q) \cup {w}
BY DEF SameLocal, Owing, Fed, BumpOwing, BumpFed

KeepsDamage(w, m) ==
  /\ Keeps(w, xp[m], xp'[m], CoreTries,
           Owing(m, {"credit"}), Owing(m, {"credit"})', receives[m], receives'[m])
  /\ Keeps(w, weekly[m], weekly'[m], WriteTries,
           Owing(m, {"credit", "weekly"}), Owing(m, {"credit", "weekly"})',
           receives[m], receives'[m])
  /\ Keeps(w, monthly[m], monthly'[m], WriteTries,
           Owing(m, {"credit", "weekly", "monthly"}), Owing(m, {"credit", "weekly", "monthly"})',
           receives[m], receives'[m])
  /\ \A q \in Quests :
       Keeps(w, bumps[m][q], bumps'[m][q], CoreTries,
             BumpOwing(m, q), BumpOwing(m, q)', receives[m], receives'[m])

KeepsFanout(w, m) ==
  /\ NeedsCredit(body[m]) =>
       /\ Keeps(w, weekly[m], weekly'[m], WriteTries,
                Fed(m, {"weekly"}), Fed(m, {"weekly"})', xp[m], xp'[m])
       /\ \A q \in Quests :
            Keeps(w, bumps[m][q], bumps'[m][q], CoreTries,
                  BumpFed(m, q), BumpFed(m, q)', xp[m], xp'[m])
  /\ Keeps(w, monthly[m], monthly'[m], WriteTries,
           Fed(m, {"monthly"}), Fed(m, {"monthly"})', weekly[m], weekly'[m])

LEMMA BudgetsKept ==
  ASSUME TypeOK, TypeOK', body' = body, NEW w \in Workers,
         \A v \in Workers \ {w} : SameLocal(v),
         NEW m \in Msgs, Damage(m), Fanout(m), KeepsDamage(w, m), KeepsFanout(w, m)
  PROVE  Damage(m)' /\ Fanout(m)'
<1>1. /\ receives[m] \in Nat /\ xp[m] \in Nat /\ weekly[m] \in Nat /\ monthly[m] \in Nat
      /\ receives'[m] \in Nat /\ xp'[m] \in Nat /\ weekly'[m] \in Nat /\ monthly'[m] \in Nat
      /\ \A q \in Quests : bumps[m][q] \in Nat /\ bumps'[m][q] \in Nat
  BY WorkerAssumption DEF TypeOK
<1>2. CoreTries \in Nat /\ WriteTries \in Nat
  BY Tries
<1>3. ASSUME NEW S \in SUBSET Stages
      PROVE  /\ Owing(m, S)' \subseteq Owing(m, S) \cup {w}
             /\ Fed(m, S)' \subseteq Fed(m, S) \cup {w}
  BY OthersStay
<1>4. ASSUME NEW q \in Quests
      PROVE  /\ BumpOwing(m, q)' \subseteq BumpOwing(m, q) \cup {w}
             /\ BumpFed(m, q)' \subseteq BumpFed(m, q) \cup {w}
  BY OthersStay
<1>5. Damage(m)'
  <2>1. Within(xp'[m], CoreTries, Owing(m, {"credit"})', receives'[m])
    <3>1. Owing(m, {"credit"})' \subseteq Owing(m, {"credit"}) \cup {w}
      BY <1>3 DEF Stages
    <3>2. Within(xp[m], CoreTries, Owing(m, {"credit"}), receives[m])
      BY DEF Damage
    <3>3. Keeps(w, xp[m], xp'[m], CoreTries, Owing(m, {"credit"}), Owing(m, {"credit"})',
                receives[m], receives'[m])
      BY DEF KeepsDamage
    <3> QED
      BY <1>1, <1>2, <3>1, <3>2, <3>3, BudgetKept
  <2>2. Within(weekly'[m], WriteTries, Owing(m, {"credit", "weekly"})', receives'[m])
    <3>1. Owing(m, {"credit", "weekly"})' \subseteq Owing(m, {"credit", "weekly"}) \cup {w}
      BY <1>3 DEF Stages
    <3>2. Within(weekly[m], WriteTries, Owing(m, {"credit", "weekly"}), receives[m])
      BY DEF Damage
    <3>3. Keeps(w, weekly[m], weekly'[m], WriteTries, Owing(m, {"credit", "weekly"}), Owing(m, {"credit", "weekly"})',
                receives[m], receives'[m])
      BY DEF KeepsDamage
    <3> QED
      BY <1>1, <1>2, <3>1, <3>2, <3>3, BudgetKept
  <2>3. Within(monthly'[m], WriteTries, Owing(m, {"credit", "weekly", "monthly"})',
             receives'[m])
    <3>1. Owing(m, {"credit", "weekly", "monthly"})'
            \subseteq Owing(m, {"credit", "weekly", "monthly"}) \cup {w}
      BY <1>3 DEF Stages
    <3>2. Within(monthly[m], WriteTries, Owing(m, {"credit", "weekly", "monthly"}), receives[m])
      BY DEF Damage
    <3>3. Keeps(w, monthly[m], monthly'[m], WriteTries, Owing(m, {"credit", "weekly", "monthly"}), Owing(m, {"credit", "weekly", "monthly"})',
                receives[m], receives'[m])
      BY DEF KeepsDamage
    <3> QED
      BY <1>1, <1>2, <3>1, <3>2, <3>3, BudgetKept
  <2>4. ASSUME NEW q \in Quests
        PROVE  Within(bumps'[m][q], CoreTries, BumpOwing(m, q)', receives'[m])
    <3>1. Within(bumps[m][q], CoreTries, BumpOwing(m, q), receives[m])
      BY DEF Damage
    <3>2. Keeps(w, bumps[m][q], bumps'[m][q], CoreTries, BumpOwing(m, q), BumpOwing(m, q)',
                receives[m], receives'[m])
      BY DEF KeepsDamage
    <3> QED
      BY <1>1, <1>2, <1>4, <3>1, <3>2, BudgetKept
  <2> QED
    BY <2>1, <2>2, <2>3, <2>4 DEF Damage, Within
<1>6. Fanout(m)'
  <2>1. ASSUME NeedsCredit(body[m])
        PROVE  Within(weekly'[m], WriteTries, Fed(m, {"weekly"})', xp'[m])
    <3>1. Fed(m, {"weekly"})' \subseteq Fed(m, {"weekly"}) \cup {w}
      BY <1>3 DEF Stages
    <3>2. Within(weekly[m], WriteTries, Fed(m, {"weekly"}), xp[m])
      BY <2>1 DEF Fanout
    <3>3. Keeps(w, weekly[m], weekly'[m], WriteTries, Fed(m, {"weekly"}), Fed(m, {"weekly"})',
                xp[m], xp'[m])
      BY <2>1 DEF KeepsFanout
    <3> QED
      BY <1>1, <1>2, <3>1, <3>2, <3>3, BudgetKept
  <2>2. ASSUME NeedsCredit(body[m]), NEW q \in Quests
        PROVE  Within(bumps'[m][q], CoreTries, BumpFed(m, q)', xp'[m])
    <3>1. Within(bumps[m][q], CoreTries, BumpFed(m, q), xp[m])
      BY <2>2 DEF Fanout
    <3>2. Keeps(w, bumps[m][q], bumps'[m][q], CoreTries, BumpFed(m, q), BumpFed(m, q)',
                xp[m], xp'[m])
      BY <2>2 DEF KeepsFanout
    <3> QED
      BY <1>1, <1>2, <1>4, <3>1, <3>2, BudgetKept
  <2>3. Within(monthly'[m], WriteTries, Fed(m, {"monthly"})', weekly'[m])
    <3>1. Fed(m, {"monthly"})' \subseteq Fed(m, {"monthly"}) \cup {w}
      BY <1>3 DEF Stages
    <3>2. Within(monthly[m], WriteTries, Fed(m, {"monthly"}), weekly[m])
      BY DEF Fanout
    <3>3. Keeps(w, monthly[m], monthly'[m], WriteTries, Fed(m, {"monthly"}), Fed(m, {"monthly"})',
                weekly[m], weekly'[m])
      BY DEF KeepsFanout
    <3> QED
      BY <1>1, <1>2, <3>1, <3>2, <3>3, BudgetKept
  <2> QED
    BY <2>1, <2>2, <2>3 DEF Fanout, Within
<1> QED
  BY <1>5, <1>6

-----------------------------------------------------------------------------
(* The steps of a container.                                               *)

SameCounts(m) ==
  /\ receives'[m] = receives[m]
  /\ xp'[m] = xp[m] /\ weekly'[m] = weekly[m] /\ monthly'[m] = monthly[m]
  /\ \A q \in Quests : bumps'[m][q] = bumps[m][q]

\* A step that neither delivers nor takes effect keeps every budget if it
\* brings no message to a stage that the budget counts.
LEMMA QuietKeeps ==
  ASSUME TypeOK, NEW w \in Workers, NEW m \in Msgs, SameCounts(m),
         \A S \in SUBSET Handling : w \in Owing(m, S)' => w \in Owing(m, S),
         \A q \in Quests : w \in BumpOwing(m, q)' => w \in BumpOwing(m, q),
         NeedsCredit(body[m]) =>
           /\ w \in Fed(m, {"weekly"})' => w \in Fed(m, {"weekly"})
           /\ \A q \in Quests : w \in BumpFed(m, q)' => w \in BumpFed(m, q),
         w \in Fed(m, {"monthly"})' => w \in Fed(m, {"monthly"})
  PROVE  KeepsDamage(w, m) /\ KeepsFanout(w, m)
<1>1. /\ receives[m] <= receives[m] /\ xp[m] <= xp[m] /\ weekly[m] <= weekly[m]
  BY WorkerAssumption DEF TypeOK
<1>2. \A S \in {{"credit"}, {"credit", "weekly"}, {"credit", "weekly", "monthly"}} :
        w \in Owing(m, S)' => w \in Owing(m, S)
  BY DEF Handling
<1>3. KeepsDamage(w, m)
  BY <1>1, <1>2 DEF KeepsDamage, Keeps, SameCounts
<1>4. KeepsFanout(w, m)
  BY <1>1 DEF KeepsFanout, Keeps, SameCounts
<1> QED
  BY <1>3, <1>4

\* An invocation that ends owes nothing more.
LEMMA EndKeeps ==
  ASSUME TypeOK, NEW w \in Workers, NEW m \in Msgs, EndInvocation(w),
         UNCHANGED <<receives, xp, weekly, monthly, bumps>>
  PROVE  KeepsDamage(w, m) /\ KeepsFanout(w, m)
<1>1. todo'[w] = {} /\ cur'[w] = NoMsg /\ NoMsg # m
  BY WorkerAssumption DEF TypeOK, EndInvocation
<1>2. /\ \A S \in SUBSET Handling : w \notin Owing(m, S)' /\ w \notin Fed(m, S)'
      /\ \A q \in Quests : w \notin BumpOwing(m, q)' /\ w \notin BumpFed(m, q)'
  BY <1>1 DEF Owing, Fed, BumpOwing, BumpFed
<1>3. {"weekly"} \in SUBSET Handling /\ {"monthly"} \in SUBSET Handling
  BY DEF Handling
<1> QED
  BY <1>2, <1>3, QuietKeeps DEF SameCounts

LEMMA TakeKeeps ==
  ASSUME IInv, NEW w \in Workers, NEW x \in todo[w], NEW m \in Msgs,
         NEW p \in Stages \ {"idle", "loop", "monthly", "bump"}, Take(w, x, p),
         p \in {"weekly", "quests"} => ~NeedsCredit(body[x])
  PROVE  KeepsDamage(w, m) /\ KeepsFanout(w, m)
<1> USE DEF IInv, TypeOK
<1>1. todo'[w] \subseteq todo[w] /\ cur'[w] = x /\ pc'[w] = p
  BY DEF Take
<1>2. /\ \A S \in SUBSET Handling : w \in Owing(m, S)' => w \in Owing(m, S)
      /\ \A q \in Quests : w \in BumpOwing(m, q)' => w \in BumpOwing(m, q)
  BY <1>1 DEF Owing, BumpOwing
<1>3. NeedsCredit(body[m]) =>
        w \notin Fed(m, {"weekly"})' /\ \A q \in Quests : w \notin BumpFed(m, q)'
  BY <1>1 DEF Fed, BumpFed
<1>4. w \notin Fed(m, {"monthly"})'
  BY <1>1 DEF Fed
<1>5. SameCounts(m)
  BY DEF Take, queueVars, effects, SameCounts
<1> QED
  BY <1>2, <1>3, <1>4, <1>5, QuietKeeps

LEMMA LoopKeeps ==
  ASSUME IInv, NEW w \in Workers, NEW m \in Msgs, Loop(w)
  PROVE  KeepsDamage(w, m) /\ KeepsFanout(w, m)
<1> USE DEF IInv
<1>1. CASE RepoUnavailable(w) \/ ParseEscapes(w) \/ Return(w)
  BY <1>1, EndKeeps DEF RepoUnavailable, ParseEscapes, Return, queueVars, effects
<1>2. ASSUME NEW x \in Msgs, Accept(w, x)
      PROVE  KeepsDamage(w, m) /\ KeepsFanout(w, m)
  <2>1. /\ FirstEffect(body[x]) \in Stages \ {"idle", "loop", "monthly", "bump"}
        /\ FirstEffect(body[x]) \in {"weekly", "quests"} => ~NeedsCredit(body[x])
    BY NothingOwed, EffectsAreStages
  <2> QED
    BY <1>2, <2>1, TakeKeeps DEF Accept
<1>3. ASSUME NEW x \in Msgs, RejectInvalid(w, x)
      PROVE  KeepsDamage(w, m) /\ KeepsFanout(w, m)
  BY <1>3, TakeKeeps DEF RejectInvalid, Stages
<1>4. CASE Record(w)
  <2>1. todo'[w] = todo[w] /\ cur'[w] = NoMsg /\ NoMsg # m
    BY <1>4, WorkerAssumption DEF Record, TypeOK
  <2>2. /\ \A S \in SUBSET Handling : w \in Owing(m, S)' => w \in Owing(m, S)
        /\ \A q \in Quests : w \in BumpOwing(m, q)' => w \in BumpOwing(m, q)
    BY <2>1 DEF Owing, BumpOwing
  <2>3. w \notin Fed(m, {"weekly"})' /\ w \notin Fed(m, {"monthly"})'
    BY <2>1 DEF Fed
  <2>4. \A q \in Quests : w \notin BumpFed(m, q)'
    BY <2>1 DEF Fed, BumpFed
  <2>5. SameCounts(m)
    BY <1>4 DEF Record, queueVars, effects, SameCounts
  <2> QED
    BY <2>2, <2>3, <2>4, <2>5, QuietKeeps
<1> QED
  BY <1>1, <1>2, <1>3, <1>4 DEF Loop

\* A delivery raises what every effect is measured by.
LEMMA InvokeKeeps ==
  ASSUME IInv, NEW w \in Workers, NEW m \in Msgs, Invoke(w)
  PROVE  KeepsDamage(w, m) /\ KeepsFanout(w, m)
<1> USE DEF IInv, TypeOK
<1>1. PICK S \in SUBSET Msgs :
        /\ receives' = [x \in Msgs |-> IF x \in S THEN receives[x] + 1 ELSE receives[x]]
        /\ todo' = [todo EXCEPT ![w] = S]
  BY DEF Invoke
<1>2. cur'[w] = NoMsg /\ NoMsg # m
  BY WorkerAssumption DEF Invoke, WorkerInv, LoopInv
<1>3. receives[m] \in Nat /\ todo'[w] = S
  BY <1>1
<1>4. UNCHANGED <<xp, weekly, monthly, bumps, body>>
  BY DEF Invoke, effects
<1>5. /\ w \notin Fed(m, {"weekly"})' /\ w \notin Fed(m, {"monthly"})'
      /\ \A q \in Quests : w \notin BumpFed(m, q)'
  BY <1>2 DEF Fed, BumpFed
<1>6. KeepsFanout(w, m)
  <2>1. xp[m] <= xp[m] /\ weekly[m] <= weekly[m]
    OBVIOUS
  <2> QED
    BY <1>4, <1>5, <2>1 DEF KeepsFanout, Keeps
<1>7. CASE m \in S
  <2>1. receives[m] < receives'[m] /\ receives[m] <= receives'[m]
    BY <1>1, <1>3, <1>7
  <2> QED
    BY <1>4, <1>6, <2>1 DEF KeepsDamage, Keeps
<1>8. CASE m \notin S
  <2>1. receives[m] <= receives'[m]
    BY <1>1, <1>3, <1>8
  <2>2. \A Q : w \notin Owing(m, Q)'
    BY <1>2, <1>3, <1>8 DEF Owing
  <2>3. \A q : w \notin BumpOwing(m, q)'
    BY <1>2, <2>2 DEF BumpOwing
  <2> QED
    BY <1>4, <1>6, <2>1, <2>2, <2>3 DEF KeepsDamage, Keeps
<1> QED
  BY <1>7, <1>8

\* A handler leaves the other messages alone.
LEMMA OthersKeep ==
  ASSUME IInv, NEW w \in Workers, NEW m \in Msgs, m # cur[w], SameCounts(m),
         UNCHANGED <<todo, cur>>
  PROVE  KeepsDamage(w, m) /\ KeepsFanout(w, m)
<1>1. /\ \A S \in SUBSET Handling : w \in Owing(m, S)' => w \in Owing(m, S)
      /\ \A q \in Quests : w \in BumpOwing(m, q)' => w \in BumpOwing(m, q)
      /\ \A S : w \notin Fed(m, S)'
      /\ \A q \in Quests : w \notin BumpFed(m, q)'
  BY DEF Owing, BumpOwing, Fed, BumpFed
<1> QED
  BY <1>1, QuietKeeps DEF IInv

\* What w's record has in hand and not before it.
LEMMA HandSets ==
  ASSUME IInv, NEW w \in Workers, pc[w] \in Handling,
         UNCHANGED <<todo, cur>>
  PROVE  /\ cur[w] \in Msgs
         /\ \A S : /\ w \in Owing(cur[w], S) <=> pc[w] \in S
                   /\ w \in Owing(cur[w], S)' <=> pc'[w] \in S
                   /\ w \in Fed(cur[w], S) <=> pc[w] \in S
                   /\ w \in Fed(cur[w], S)' <=> pc'[w] \in S
         /\ \A q : /\ w \in BumpOwing(cur[w], q) <=>
                        \/ pc[w] \in {"credit", "weekly", "monthly", "quests"}
                        \/ pc[w] = "bump" /\ q \in toBump[w]
                   /\ w \in BumpOwing(cur[w], q)' <=>
                        \/ pc'[w] \in {"credit", "weekly", "monthly", "quests"}
                        \/ pc'[w] = "bump" /\ q \in toBump'[w]
                   /\ w \in BumpFed(cur[w], q) <=>
                        \/ pc[w] \in {"weekly", "monthly", "quests"}
                        \/ pc[w] = "bump" /\ q \in toBump[w]
                   /\ w \in BumpFed(cur[w], q)' <=>
                        \/ pc'[w] \in {"weekly", "monthly", "quests"}
                        \/ pc'[w] = "bump" /\ q \in toBump'[w]
<1>1. cur[w] \in Msgs /\ cur[w] \notin todo[w]
  BY InHand DEF Handling, IInv, WorkerInv, LoopInv
<1>2. cur'[w] = cur[w] /\ todo'[w] = todo[w]
  OBVIOUS
<1>3. \A S : /\ w \in Owing(cur[w], S) <=> pc[w] \in S
             /\ w \in Owing(cur[w], S)' <=> pc'[w] \in S
             /\ w \in Fed(cur[w], S) <=> pc[w] \in S
             /\ w \in Fed(cur[w], S)' <=> pc'[w] \in S
  BY <1>1, <1>2 DEF Owing, Fed
<1>4. \A q : /\ w \in BumpOwing(cur[w], q) <=>
                  \/ w \in Owing(cur[w], {"credit", "weekly", "monthly", "quests"})
                  \/ pc[w] = "bump" /\ q \in toBump[w]
             /\ w \in BumpOwing(cur[w], q)' <=>
                  \/ w \in Owing(cur[w], {"credit", "weekly", "monthly", "quests"})'
                  \/ pc'[w] = "bump" /\ q \in toBump'[w]
             /\ w \in BumpFed(cur[w], q) <=>
                  \/ w \in Fed(cur[w], {"weekly", "monthly", "quests"})
                  \/ pc[w] = "bump" /\ q \in toBump[w]
             /\ w \in BumpFed(cur[w], q)' <=>
                  \/ w \in Fed(cur[w], {"weekly", "monthly", "quests"})'
                  \/ pc'[w] = "bump" /\ q \in toBump'[w]
  BY <1>1, <1>2 DEF BumpOwing, BumpFed
<1> QED
  BY <1>1, <1>3, <1>4

\* The credit pays for the weekly entry and the quest steps that follow it.
LEMMA CreditKeeps ==
  ASSUME IInv, NEW w \in Workers, NEW m \in Msgs, Credit(w)
  PROVE  KeepsDamage(w, m) /\ KeepsFanout(w, m)
<1> USE DEF IInv, TypeOK
<1> DEFINE c == cur[w]
<1>1. PICK r \in CallResults : xp' = [xp EXCEPT ![c] = @ + r.applied]
                               /\ Proceed(w, r.ok, AfterCredit(body[c]))
  BY DEF Credit
<1>2. /\ UNCHANGED <<receives, todo, cur, toBump, weekly, monthly, bumps>>
      /\ pc[w] = "credit" /\ pc[w] \in Handling
  BY DEF Credit, queueVars, Handling
<1>3. CASE m # c
  <2>1. SameCounts(m)
    BY <1>1, <1>2, <1>3 DEF SameCounts
  <2> QED
    BY <1>2, <1>3, <2>1, OthersKeep
<1>4. CASE m = c
  <2>1. /\ receives[m] \in Nat /\ weekly[m] \in Nat /\ xp[m] \in Nat
        /\ r.applied \in 0..CoreTries /\ (r.ok => r.applied >= 1)
    BY Attempts
  <2>2. xp'[m] = xp[m] + r.applied
    BY <1>1, <1>4
  <2>3. pc'[w] \in {"weekly", "quests", "record"} /\ (pc'[w] # "record" => r.ok)
    BY <1>1, NothingOwed DEF Proceed
  <2>4. /\ xp[m] <= xp'[m] /\ xp'[m] <= xp[m] + CoreTries
        /\ pc'[w] # "record" => xp[m] < xp'[m]
    BY <2>1, <2>2, <2>3, Tries
  <2>5. receives[m] <= receives'[m] /\ weekly[m] <= weekly'[m]
    BY <1>2, <2>1
  <2>6. KeepsDamage(w, m)
    BY <1>2, <1>4, <2>3, <2>4, <2>5, HandSets DEF KeepsDamage, Keeps
  <2>7. KeepsFanout(w, m)
    BY <1>2, <1>4, <2>3, <2>4, <2>5, HandSets DEF KeepsFanout, Keeps
  <2> QED
    BY <2>6, <2>7
<1> QED
  BY <1>3, <1>4

\* The weekly entry uses its credit up and pays for the monthly one.
LEMMA WeeklyKeeps ==
  ASSUME IInv, NEW w \in Workers, NEW m \in Msgs, Weekly(w)
  PROVE  KeepsDamage(w, m) /\ KeepsFanout(w, m)
<1> USE DEF IInv, TypeOK
<1> DEFINE c == cur[w]
<1>1. PICK r \in WriteResults : weekly' = [weekly EXCEPT ![c] = @ + r.applied]
                                /\ Proceed(w, r.ok, "monthly")
  BY DEF Weekly
<1>2. /\ UNCHANGED <<receives, todo, cur, toBump, xp, monthly, bumps>>
      /\ pc[w] = "weekly" /\ pc[w] \in Handling
  BY DEF Weekly, queueVars, Handling
<1>3. CASE m # c
  <2>1. SameCounts(m)
    BY <1>1, <1>2, <1>3 DEF SameCounts
  <2> QED
    BY <1>2, <1>3, <2>1, OthersKeep
<1>4. CASE m = c
  <2>1. /\ receives[m] \in Nat /\ weekly[m] \in Nat /\ xp[m] \in Nat
        /\ r.applied \in 0..WriteTries /\ (r.ok => r.applied >= 1)
    BY Attempts
  <2>2. weekly'[m] = weekly[m] + r.applied
    BY <1>1, <1>4
  <2>3. pc'[w] \in {"monthly", "record"} /\ (pc'[w] # "record" => r.ok)
    BY <1>1 DEF Proceed
  <2>4. /\ weekly[m] <= weekly'[m] /\ weekly'[m] <= weekly[m] + WriteTries
        /\ pc'[w] # "record" => weekly[m] < weekly'[m]
    BY <2>1, <2>2, <2>3, Tries
  <2>5. receives[m] <= receives'[m] /\ xp[m] <= xp'[m]
    BY <1>2, <2>1
  <2>6. KeepsDamage(w, m)
    <3>1. /\ \A S : (w \in Owing(m, S) <=> pc[w] \in S) /\ (w \in Owing(m, S)' => pc'[w] \in S)
          /\ \A q : w \in BumpOwing(m, q)
      BY <1>2, <1>4, HandSets
    <3>2. /\ w \notin Owing(m, {"credit"})'
          /\ w \in Owing(m, {"credit", "weekly"}) /\ w \notin Owing(m, {"credit", "weekly"})'
          /\ w \in Owing(m, {"credit", "weekly", "monthly"})
      BY <1>2, <2>3, <3>1
    <3> QED
      BY <1>2, <2>4, <2>5, <3>1, <3>2 DEF KeepsDamage, Keeps
  <2>7. KeepsFanout(w, m)
    BY <1>2, <1>4, <2>3, <2>4, <2>5, HandSets DEF KeepsFanout, Keeps
  <2> QED
    BY <2>6, <2>7
<1> QED
  BY <1>3, <1>4

LEMMA MonthlyKeeps ==
  ASSUME IInv, NEW w \in Workers, NEW m \in Msgs, Monthly(w)
  PROVE  KeepsDamage(w, m) /\ KeepsFanout(w, m)
<1> USE DEF IInv, TypeOK
<1> DEFINE c == cur[w]
<1>1. PICK r \in WriteResults : monthly' = [monthly EXCEPT ![c] = @ + r.applied]
                                /\ Proceed(w, r.ok, AfterBoard(body[c]))
  BY DEF Monthly
<1>2. /\ UNCHANGED <<receives, todo, cur, toBump, xp, weekly, bumps>>
      /\ pc[w] = "monthly" /\ pc[w] \in Handling
  BY DEF Monthly, queueVars, Handling
<1>3. CASE m # c
  <2>1. SameCounts(m)
    BY <1>1, <1>2, <1>3 DEF SameCounts
  <2> QED
    BY <1>2, <1>3, <2>1, OthersKeep
<1>4. CASE m = c
  <2>1. /\ receives[m] \in Nat /\ weekly[m] \in Nat /\ xp[m] \in Nat /\ monthly[m] \in Nat
        /\ r.applied \in 0..WriteTries
    BY Attempts
  <2>2. monthly'[m] <= monthly[m] + WriteTries
    BY <1>1, <1>4, <2>1, Tries
  <2>3. pc'[w] \in {"quests", "record"}
    BY <1>1, NothingOwed DEF Proceed
  <2>4. receives[m] <= receives'[m] /\ xp[m] <= xp'[m] /\ weekly[m] <= weekly'[m]
    BY <1>2, <2>1
  <2>5. KeepsDamage(w, m)
    <3>1. /\ \A S : (w \in Owing(m, S) <=> pc[w] \in S) /\ (w \in Owing(m, S)' => pc'[w] \in S)
          /\ \A q : w \in BumpOwing(m, q)
      BY <1>2, <1>4, HandSets
    <3>2. /\ w \notin Owing(m, {"credit"})' /\ w \notin Owing(m, {"credit", "weekly"})'
          /\ w \in Owing(m, {"credit", "weekly", "monthly"})
          /\ w \notin Owing(m, {"credit", "weekly", "monthly"})'
      BY <1>2, <2>3, <3>1
    <3> QED
      BY <1>2, <2>2, <2>4, <3>1, <3>2 DEF KeepsDamage, Keeps
  <2>6. KeepsFanout(w, m)
    BY <1>2, <1>4, <2>2, <2>3, <2>4, HandSets DEF KeepsFanout, Keeps
  <2> QED
    BY <2>5, <2>6
<1> QED
  BY <1>3, <1>4

\* Listing brings nothing to a stage that was not owed before.
LEMMA QuestsKeep ==
  ASSUME IInv, NEW w \in Workers, NEW m \in Msgs,
         SkipQuests(w) \/ ListQuests(w) \/ ListFails(w)
  PROVE  KeepsDamage(w, m) /\ KeepsFanout(w, m)
<1> USE DEF IInv, TypeOK
<1>1. /\ UNCHANGED <<receives, todo, cur, xp, weekly, monthly, bumps>>
      /\ pc[w] = "quests" /\ pc[w] \in Handling /\ pc'[w] \in {"record", "bump"}
  BY DEF SkipQuests, ListQuests, ListFails, Proceed, queueVars, effects, Handling
<1>2. SameCounts(m)
  BY <1>1 DEF SameCounts
<1>3. CASE m # cur[w]
  BY <1>1, <1>2, <1>3, OthersKeep
<1>4. CASE m = cur[w]
  <2>1. /\ \A q : w \in BumpOwing(m, q) /\ w \in BumpFed(m, q)
        /\ \A S \in SUBSET Handling : w \in Owing(m, S)' => "bump" \in S
    BY <1>1, <1>4, HandSets DEF Handling
  <2>2. \A S \in {{"credit"}, {"credit", "weekly"}, {"credit", "weekly", "monthly"}} :
          w \notin Owing(m, S)'
    BY <2>1 DEF Handling
  <2>3. w \notin Fed(m, {"weekly"})' /\ w \notin Fed(m, {"monthly"})'
    BY <1>1, <1>4, HandSets
  <2>4. /\ receives[m] <= receives[m] /\ xp[m] <= xp[m] /\ weekly[m] <= weekly[m]
    BY WorkerAssumption
  <2>5. KeepsDamage(w, m)
    BY <1>2, <2>1, <2>2, <2>4 DEF KeepsDamage, Keeps, SameCounts
  <2>6. KeepsFanout(w, m)
    BY <1>2, <2>1, <2>3, <2>4 DEF KeepsFanout, Keeps, SameCounts
  <2> QED
    BY <2>5, <2>6
<1> QED
  BY <1>3, <1>4

LEMMA BumpKeeps ==
  ASSUME IInv, NEW w \in Workers, NEW m \in Msgs, Bump(w)
  PROVE  KeepsDamage(w, m) /\ KeepsFanout(w, m)
<1> USE DEF IInv, TypeOK
<1> DEFINE c == cur[w]
<1>1. PICK q \in toBump[w], r \in CallResults :
        LET rest == IF r.ok THEN toBump[w] \ {q} ELSE {}
        IN  /\ bumps' = [bumps EXCEPT ![c][q] = @ + r.applied]
            /\ toBump' = [toBump EXCEPT ![w] = rest]
            /\ Proceed(w, r.ok, IF rest = {} THEN "record" ELSE "bump")
  BY DEF Bump
<1>2. /\ UNCHANGED <<receives, todo, cur, xp, weekly, monthly>>
      /\ pc[w] = "bump" /\ pc[w] \in Handling
  BY DEF Bump, queueVars, Handling
<1>3. c \in Msgs
  BY <1>2, HandSets
<1>4. CASE m # c
  <2>1. SameCounts(m)
    BY <1>1, <1>2, <1>3, <1>4 DEF SameCounts
  <2> QED
    BY <1>2, <1>4, <2>1, OthersKeep
<1>5. CASE m = c
  <2>1. /\ receives[m] <= receives'[m] /\ xp[m] <= xp'[m] /\ weekly[m] <= weekly'[m]
    BY <1>2, WorkerAssumption
  <2>2. toBump'[w] \subseteq toBump[w] \ {q} /\ pc'[w] \in {"record", "bump"}
    BY <1>1 DEF Proceed
  <2>3. \A S \in {{"credit"}, {"credit", "weekly"}, {"credit", "weekly", "monthly"}} :
          w \notin Owing(m, S)'
    <3>1. \A S : w \in Owing(m, S)' => pc'[w] \in S
      BY <1>2, <1>5, HandSets
    <3> QED
      BY <2>2, <3>1
  <2>4. w \notin Fed(m, {"weekly"})' /\ w \notin Fed(m, {"monthly"})'
    BY <1>2, <1>5, <2>2, HandSets
  <2>5. ASSUME NEW x \in Quests
        PROVE  /\ bumps[m][x] = bumps'[m][x] \/ x = q
               /\ bumps'[m][x] <= bumps[m][x] + CoreTries
    <3>1. r.applied \in 0..CoreTries /\ bumps[m][x] \in Nat /\ q \in Quests
      BY Attempts
    <3>2. bumps'[m][x] = IF x = q THEN bumps[m][x] + r.applied ELSE bumps[m][x]
      BY <1>1, <1>3, <1>5, <3>1
    <3> QED
      BY <3>1, <3>2, Tries
  <2>6. ASSUME NEW x
        PROVE  /\ w \in BumpOwing(m, x)' => x # q /\ w \in BumpOwing(m, x)
               /\ w \in BumpFed(m, x)' => x # q /\ w \in BumpFed(m, x)
               /\ w \in BumpOwing(m, q) /\ w \in BumpFed(m, q)
    BY <1>2, <1>5, <2>2, HandSets
  <2>7. KeepsDamage(w, m)
    BY <1>2, <2>1, <2>3, <2>5, <2>6 DEF KeepsDamage, Keeps
  <2>8. KeepsFanout(w, m)
    BY <1>2, <2>1, <2>4, <2>5, <2>6 DEF KeepsFanout, Keeps
  <2> QED
    BY <2>7, <2>8
<1> QED
  BY <1>4, <1>5

-----------------------------------------------------------------------------
(* The bounds.                                                             *)

LEMMA InitBudgets == Init => Budgets
<1> SUFFICES ASSUME Init, NEW m \in Msgs PROVE Damage(m) /\ Fanout(m)
  BY DEF Budgets
<1>1. /\ \A S \in SUBSET Handling : Owing(m, S) = {} /\ Fed(m, S) = {}
      /\ \A q : BumpOwing(m, q) = {} /\ BumpFed(m, q) = {}
  BY DEF Init, Owing, Fed, BumpOwing, BumpFed, Handling
<1>2. /\ IsFiniteSet({}) /\ Cardinality({}) = 0
      /\ \A K \in {CoreTries, WriteTries} : Within(0, K, {}, 0)
  BY FS_EmptySet, Tries DEF Within
<1>3. Damage(m)
  BY <1>1, <1>2 DEF Init, Damage, Handling
<1>4. Fanout(m)
  BY <1>1, <1>2 DEF Init, Fanout, Handling
<1> QED
  BY <1>3, <1>4

LEMMA NextBudgets ==
  ASSUME IInv, IInv', [Next]_vars, Budgets
  PROVE  Budgets'
<1> SUFFICES ASSUME NEW m \in Msgs PROVE Damage(m)' /\ Fanout(m)'
  BY DEF Budgets
<1>1. body' = body
  BY NextGrows DEF Grow
<1>2. CASE \E w \in Workers : Invoke(w) \/ Loop(w) \/ Handle(w) \/ Crash(w) \/ Recycle(w)
  <2>1. PICK w \in Workers : Invoke(w) \/ Loop(w) \/ Handle(w) \/ Crash(w) \/ Recycle(w)
    BY <1>2
  <2>2. \A v \in Workers \ {w} : SameLocal(v)
    BY <2>1, OneContainer DEF IInv
  <2>3. KeepsDamage(w, m) /\ KeepsFanout(w, m)
    <3>1. CASE Handle(w)
      BY <3>1, CreditKeeps, WeeklyKeeps, MonthlyKeeps, QuestsKeep, BumpKeeps DEF Handle
    <3>2. CASE Crash(w)
      BY <3>2, EndKeeps DEF Crash, IInv, queueVars, effects
    <3>3. CASE Recycle(w)
      <4>1. UNCHANGED <<pc, todo, cur, toBump>> /\ SameCounts(m)
        BY <3>3 DEF Recycle, SameCounts, queueVars, effects
      <4> QED
        BY <4>1, QuietKeeps DEF IInv, Owing, Fed, BumpOwing, BumpFed
    <3> QED
      BY <2>1, <3>1, <3>2, <3>3, InvokeKeeps, LoopKeeps
  <2> QED
    BY <1>1, <2>1, <2>2, <2>3, BudgetsKept DEF IInv, Budgets
<1>3. CASE ~\E w \in Workers : Invoke(w) \/ Loop(w) \/ Handle(w) \/ Crash(w) \/ Recycle(w)
  <2>1. UNCHANGED <<pc, todo, cur, toBump, receives, xp, weekly, monthly, bumps>>
    BY <1>3 DEF Next, Publish, Bury, MountQuests, CloseQuest, vars, queueVars, loopVars, effects
  <2>2. /\ \A S : Owing(m, S)' = Owing(m, S) /\ Fed(m, S)' = Fed(m, S)
        /\ \A q : BumpOwing(m, q)' = BumpOwing(m, q) /\ BumpFed(m, q)' = BumpFed(m, q)
    BY <2>1 DEF Owing, Fed, BumpOwing, BumpFed
  <2> QED
    BY <1>1, <2>1, <2>2 DEF Budgets, Damage, Fanout, Within
<1> QED
  BY <1>2, <1>3

LEMMA WithinBound ==
  ASSUME NEW n \in Nat, NEW K \in Nat, NEW T, NEW c \in Nat, Within(n, K, T, c)
  PROVE  n <= K * c
<1>1. Cardinality(T) \in Nat
  BY FS_CardinalityType DEF Within
<1>2. K * Cardinality(T) \in Nat /\ K * c \in Nat
  BY <1>1, Times
<1> QED
  BY <1>2 DEF Within

\* The bounds with the tries that the faults of this system leave.
TightFor(m) ==
  /\ xp[m] <= CoreTries * receives[m]
  /\ weekly[m] <= WriteTries * receives[m]
  /\ monthly[m] <= WriteTries * receives[m]
  /\ \A q \in Quests : bumps[m][q] <= CoreTries * receives[m]
  /\ NeedsCredit(body[m]) =>
       /\ weekly[m] <= WriteTries * xp[m]
       /\ \A q \in Quests : bumps[m][q] <= CoreTries * xp[m]
  /\ monthly[m] <= WriteTries * weekly[m]

Tight == \A m \in Msgs : TightFor(m)

LEMMA BudgetsBound == TypeOK /\ Budgets => Tight
<1> SUFFICES ASSUME TypeOK, Budgets, NEW m \in Msgs
             PROVE  TightFor(m)
  BY DEF Tight
<1>1. /\ receives[m] \in Nat /\ xp[m] \in Nat /\ weekly[m] \in Nat /\ monthly[m] \in Nat
      /\ \A q \in Quests : bumps[m][q] \in Nat
  BY WorkerAssumption DEF TypeOK
<1>2. Damage(m) /\ Fanout(m) /\ CoreTries \in Nat /\ WriteTries \in Nat
  BY Tries DEF Budgets
<1> QED
  BY <1>1, <1>2, WithinBound DEF Damage, Fanout, TightFor

\* Fewer tries, a smaller bound.
LEMMA Looser ==
  ASSUME NEW n \in Nat, NEW c \in Nat
  PROVE  /\ n <= CoreTries * c => n <= MaxAttempts * c
         /\ n <= WriteTries * c => n <= WriteAttempts * c
<1>1. /\ CoreTries \in Nat /\ MaxAttempts \in Nat /\ CoreTries <= MaxAttempts
      /\ WriteTries \in Nat /\ WriteAttempts \in Nat /\ WriteTries <= WriteAttempts
  BY Tries, WorkerAssumption
<1>2. c * CoreTries <= c * MaxAttempts /\ c * WriteTries <= c * WriteAttempts
  BY <1>1, Times
<1>3. /\ c * CoreTries = CoreTries * c /\ c * MaxAttempts = MaxAttempts * c
      /\ c * WriteTries = WriteTries * c /\ c * WriteAttempts = WriteAttempts * c
  BY <1>1
<1>4. /\ CoreTries * c \in Nat /\ MaxAttempts * c \in Nat
      /\ WriteTries * c \in Nat /\ WriteAttempts * c \in Nat
  BY <1>1, Times
<1> QED
  BY <1>2, <1>3, <1>4

LEMMA TightBounds == TypeOK /\ Tight => DamageBounded /\ FanoutFollowsCredit
<1> SUFFICES ASSUME TypeOK, Tight PROVE DamageBounded /\ FanoutFollowsCredit
  OBVIOUS
<1>1. ASSUME NEW m \in Msgs
      PROVE  /\ receives[m] \in Nat /\ xp[m] \in Nat /\ weekly[m] \in Nat /\ monthly[m] \in Nat
             /\ \A q \in Quests : bumps[m][q] \in Nat
  BY WorkerAssumption DEF TypeOK
<1>2. DamageBounded
  BY <1>1, Looser DEF Tight, TightFor, DamageBounded
<1>3. FanoutFollowsCredit
  BY <1>1, Looser DEF Tight, TightFor, FanoutFollowsCredit
<1> QED
  BY <1>2, <1>3

LEMMA BudgetsHold == Spec => []Budgets
<1>1. IInv /\ IInv' /\ [Next]_vars /\ Budgets => Budgets'
  BY NextBudgets
<1> QED
  BY <1>1, InitBudgets, Inductive, PTL DEF Spec

\* Only what can fail multiplies: while lingo-core answers every callback, a
\* credit or quest step happens once per delivery at most, however DynamoDB
\* and the containers fare; likewise for the leaderboard while its writes are
\* answered (lingo_core_client.py:91, the retries of _request; boto3's).
THEOREM OnlyFaultsMultiply == Spec => []Tight
<1>1. IInv => TypeOK
  BY DEF IInv
<1> QED
  BY <1>1, BudgetsBound, BudgetsHold, Inductive, PTL

\* However often an event is redelivered, and in however many containers at
\* once, each of its effects happens once per attempt and delivery at most.
THEOREM RedeliveryIsBounded == Spec => []DamageBounded
<1>1. IInv => TypeOK
  BY DEF IInv
<1> QED
  BY <1>1, TightBounds, OnlyFaultsMultiply, Inductive, PTL

\* No leaderboard entry or quest step without a credit that worked: a failed
\* add_xp, retried as often as it may be, multiplies nothing behind it
\* (xp_awarded.py:48-51).
THEOREM CreditPaysFanout == Spec => []FanoutFollowsCredit
<1>1. IInv => TypeOK
  BY DEF IInv
<1> QED
  BY <1>1, TightBounds, OnlyFaultsMultiply, Inductive, PTL

-----------------------------------------------------------------------------
(* The end of an invocation.                                               *)

\* Nothing ends an invocation but its return, or the log's constructor before
\* the first record.
Undisturbed == "crash" \notin Faults /\ \A b \in Bodies : ~Escapes(b)

LEMMA HowItEnds ==
  ASSUME IInv, [Next]_vars, Undisturbed, NEW w \in Workers,
         pc[w] # "idle", pc'[w] = "idle"
  PROVE  Return(w) \/ RepoUnavailable(w)
<1> USE DEF IInv, TypeOK
<1>1. PICK v \in Workers : Invoke(v) \/ Loop(v) \/ Handle(v)
  <2>1. ~\E v \in Workers : Crash(v)
    BY DEF Undisturbed, Crash
  <2>2. /\ ~\E m \in Msgs : Publish(m) \/ Bury(m)
        /\ ~\E v \in Workers : Recycle(v)
        /\ ~MountQuests /\ ~\E q \in Quests : CloseQuest(q)
        /\ ~UNCHANGED vars
    BY DEF Publish, Bury, Recycle, MountQuests, CloseQuest, vars, loopVars
  <2> QED
    BY <2>1, <2>2 DEF Next
<1>2. v = w
  BY <1>1, OneContainer DEF SameLocal
<1>3. ~Invoke(w)
  BY DEF Invoke
<1>4. ~Handle(w)
  <2>1. ASSUME Handle(w) PROVE pc'[w] \in {"weekly", "monthly", "quests", "bump", "record"}
    BY <2>1, NothingOwed
    DEF Handle, Credit, Weekly, Monthly, SkipQuests, ListQuests, ListFails, Bump, Proceed
  <2> QED
    BY <2>1
<1>5. ~ParseEscapes(w)
  BY DEF Undisturbed, ParseEscapes
<1>6. ASSUME NEW m \in Msgs PROVE ~Accept(w, m) /\ ~RejectInvalid(w, m)
  <2>1. FirstEffect(body[m]) # "idle"
    BY NothingOwed
  <2> QED
    BY <2>1 DEF Accept, RejectInvalid, Take
<1>7. ~Record(w)
  BY DEF Record
<1> QED
  BY <1>1, <1>2, <1>3, <1>4, <1>5, <1>6, <1>7 DEF Loop

\* Completed records are deleted whatever becomes of the rest of their batch,
\* as long as the container is not killed and no body escapes the parser; the
\* worker_peers run shows what happens if one does (handler.py:18-20).
THEOREM PeersAreDeleted == Undisturbed => (Spec => PeersAutoDelete)
<1> SUFFICES ASSUME Undisturbed PROVE Spec => PeersAutoDelete
  OBVIOUS
<1> DEFINE Step == \A w \in Workers :
             pc[w] # "idle" /\ pc'[w] = "idle" => \A m \in Completed(w) : place'[m] # "queue"
<1>1. IInv /\ [Next]_vars => Step
  <2> SUFFICES ASSUME IInv, [Next]_vars, NEW w \in Workers, pc[w] # "idle", pc'[w] = "idle",
                      NEW m \in Completed(w)
               PROVE  place'[m] # "queue"
    OBVIOUS
  <2>1. CASE Return(w)
    <3>1. m \in Deleted(w) /\ m \in Msgs
      BY DEF Completed, Deleted, IInv, TypeOK
    <3> QED
      BY <2>1, <3>1 DEF Return
  <2>2. CASE RepoUnavailable(w)
    BY <2>2 DEF RepoUnavailable, Completed
  <2> QED
    BY <2>1, <2>2, HowItEnds
<1>2. IInv /\ [Next]_vars => [Step]_vars
  BY <1>1
<1> QED
  BY <1>2, Inductive, PTL DEF Spec, PeersAutoDelete

-----------------------------------------------------------------------------
(* The log of a backend with one row for each message.                     *)

OneRowEach == EVENT_LOG_BACKEND = "sqlite" /\ ~LogFails

ClosedIn(R, m) == RowsOf(R, m) # {} /\ \A r \in RowsOf(R, m) : r.status # "received"

ClosedInv ==
  /\ \A w \in Workers :
       /\ cur[w] # NoMsg => RowsOf(rows, cur[w]) # {}
       /\ \A m \in batch[w] \ (todo[w] \cup {cur[w]}) : ClosedIn(rows, m)
  /\ \A m \in Msgs : place[m] = "done" => ClosedIn(rows, m)

\* A save finds the row of its message or adds it; other rows stay.
LEMMA SqliteSaves ==
  ASSUME OneRowEach, NEW R, NEW x, NEW S \in Saved(R, x)
  PROVE  /\ RowsOf(S, x) # {}
         /\ \A m : RowsOf(R, m) # {} => RowsOf(S, m) = RowsOf(R, m)
<1>1. S = SqliteSave(R, x)
  BY DEF OneRowEach, Saved, OrFails
<1>2. CASE RowsOf(R, x) = {}
  <2>1. S = R \cup {NewRow(R, x)} /\ NewRow(R, x).id = x
    BY <1>1, <1>2 DEF SqliteSave, NewRow
  <2> QED
    BY <1>2, <2>1 DEF RowsOf
<1>3. CASE RowsOf(R, x) # {}
  BY <1>1, <1>3 DEF SqliteSave
<1> QED
  BY <1>2, <1>3

\* An update gives all rows of its message the status, and no other row.
LEMMA SqliteUpdates ==
  ASSUME OneRowEach, NEW R, R \subseteq LogRows, NEW x, NEW s \in {"ok", "failed"},
         NEW S \in Updated(R, x, s)
  PROVE  /\ RowsOf(R, x) # {} => ClosedIn(S, x)
         /\ \A m : m # x => RowsOf(S, m) = RowsOf(R, m)
<1> DEFINE img == {[r EXCEPT !.status = s] : r \in RowsOf(R, x)}
<1>1. S = (R \ RowsOf(R, x)) \cup img
  BY DEF OneRowEach, Updated, OrFails, SqliteUpdate, SetStatus
<1>2. \A r \in img : r.id = x /\ r.status = s
  BY DEF RowsOf, LogRows
<1>3. RowsOf(S, x) = img
  BY <1>1, <1>2 DEF RowsOf
<1>4. RowsOf(R, x) # {} => img # {}
  OBVIOUS
<1>5. \A m : m # x => RowsOf(S, m) = RowsOf(R, m)
  BY <1>1, <1>2 DEF RowsOf
<1> QED
  BY <1>2, <1>3, <1>4, <1>5 DEF ClosedIn

\* A row that is there stays, and a closed one is not opened again.
LEMMA ClosedStable ==
  ASSUME IInv, [Next]_vars, OneRowEach, NEW m
  PROVE  /\ RowsOf(rows, m) # {} => RowsOf(rows', m) # {}
         /\ ClosedIn(rows, m) => ClosedIn(rows', m)
<1>1. ASSUME NEW w \in Workers, NEW x \in Msgs, NEW p, Take(w, x, p)
      PROVE  RowsOf(rows, m) # {} => RowsOf(rows', m) = RowsOf(rows, m)
  BY <1>1, SqliteSaves DEF Take
<1>2. ASSUME NEW w \in Workers, Record(w), RowsOf(rows, m) # {}
      PROVE  RowsOf(rows', m) = RowsOf(rows, m) \/ ClosedIn(rows', m)
  <2>1. rows \subseteq LogRows /\ FinalStatus(w) \in {"ok", "failed"}
    BY DEF IInv, TypeOK, LogRows, FinalStatus
  <2>2. rows' \in Updated(rows, cur[w], FinalStatus(w))
    BY <1>2 DEF Record
  <2> QED
    BY <1>2, <2>1, <2>2, SqliteUpdates
<1> QED
  BY <1>1, <1>2, RowsSteps DEF ClosedIn

\* The part of ClosedInv that is about one container.
ClosedBatch(w) ==
  /\ cur[w] # NoMsg => RowsOf(rows, cur[w]) # {}
  /\ \A m \in batch[w] \ (todo[w] \cup {cur[w]}) : ClosedIn(rows, m)

LEMMA ClosedStep ==
  ASSUME IInv, [Next]_vars, OneRowEach, NEW w \in Workers, ClosedBatch(w),
         Invoke(w) \/ Loop(w) \/ Handle(w) \/ Crash(w)
  PROVE  ClosedBatch(w)'
<1> USE DEF IInv, TypeOK
<1>1. CASE Invoke(w)
  BY <1>1 DEF Invoke, ClosedBatch, WorkerInv, LoopInv
<1>2. CASE EndInvocation(w)
  BY <1>2 DEF EndInvocation, ClosedBatch
<1>3. CASE Handle(w)
  <2>1. UNCHANGED <<batch, todo, cur>>
    BY <1>3 DEF Handle, Credit, Weekly, Monthly, SkipQuests, ListQuests, ListFails, Bump
  <2> QED
    BY <2>1, ClosedStable DEF ClosedBatch
<1>4. CASE Record(w)
  <2>1. batch' = batch /\ todo' = todo /\ cur'[w] = NoMsg
    BY <1>4 DEF Record
  <2>2. cur[w] # NoMsg
    BY <1>4, InHand, WorkerAssumption DEF Record
  <2>3. ClosedIn(rows', cur[w])
    BY <1>4, <2>2, SqliteUpdates DEF Record, FinalStatus, ClosedBatch, LogRows
  <2> QED
    BY <2>1, <2>3, ClosedStable DEF ClosedBatch
<1>5. ASSUME NEW m \in Msgs, NEW p, pc[w] = "loop", Take(w, m, p) PROVE ClosedBatch(w)'
  <2>1. batch' = batch /\ todo'[w] = todo[w] \ {m} /\ cur'[w] = m /\ cur[w] = NoMsg
    BY <1>5 DEF Take, WorkerInv, LoopInv
  <2>2. RowsOf(rows', m) # {}
    BY <1>5, SqliteSaves DEF Take
  <2>3. \A x \in batch[w] \ (todo'[w] \cup {m}) : ClosedIn(rows', x)
    BY <2>1, ClosedStable, WorkerAssumption DEF ClosedBatch
  <2> QED
    BY <2>1, <2>2, <2>3 DEF ClosedBatch
<1> QED
  BY <1>1, <1>2, <1>3, <1>4, <1>5
  DEF Crash, Loop, RepoUnavailable, ParseEscapes, Return, Accept, RejectInvalid

LEMMA NextClosed ==
  ASSUME IInv, [Next]_vars, OneRowEach, ClosedInv
  PROVE  ClosedInv'
<1>1. ASSUME NEW v \in Workers PROVE ClosedBatch(v)'
  <2>1. ClosedBatch(v)
    BY DEF ClosedInv, ClosedBatch
  <2>2. CASE Invoke(v) \/ Loop(v) \/ Handle(v) \/ Crash(v)
    BY <2>1, <2>2, ClosedStep
  <2>3. CASE ~(Invoke(v) \/ Loop(v) \/ Handle(v) \/ Crash(v))
    <3>1. cur'[v] = cur[v] /\ batch'[v] = batch[v] /\ todo'[v] = todo[v]
      <4>1. CASE \E w \in Workers \ {v} : Invoke(w) \/ Loop(w) \/ Handle(w) \/ Crash(w) \/ Recycle(w)
        BY <4>1, OneContainer DEF IInv, SameLocal
      <4>2. CASE ~\E w \in Workers \ {v} : Invoke(w) \/ Loop(w) \/ Handle(w) \/ Crash(w) \/ Recycle(w)
        BY <2>3, <4>2
        DEF Next, Recycle, Publish, Bury, MountQuests, CloseQuest, vars, loopVars
      <4> QED
        BY <4>1, <4>2
    <3> QED
      BY <2>1, <3>1, ClosedStable DEF ClosedBatch
  <2> QED
    BY <2>2, <2>3
<1>2. ASSUME NEW m \in Msgs, place'[m] = "done" PROVE ClosedIn(rows', m)
  <2>1. CASE place[m] = "done"
    BY <2>1, ClosedStable DEF ClosedInv
  <2>2. CASE place[m] # "done"
    <3>1. PICK w \in Workers : m \in Completed(w)
      BY <1>2, <2>2, DoneStep
    <3> QED
      BY <3>1, ClosedStable DEF Completed, ClosedInv
  <2> QED
    BY <2>1, <2>2
<1> QED
  BY <1>1, <1>2 DEF ClosedInv, ClosedBatch

\* With the sqlite log, whose writes work, the row of a deleted message has
\* its final status, in whatever order two deliveries saved and updated it
\* (handler.py:185-187).
THEOREM RowsGetClosed == OneRowEach => (Spec => []RowsAreClosed)
<1> SUFFICES ASSUME OneRowEach PROVE Spec => []RowsAreClosed
  OBVIOUS
<1>1. Init => ClosedInv
  BY WorkerAssumption DEF Init, ClosedInv
<1>2. IInv /\ [Next]_vars /\ ClosedInv => ClosedInv'
  BY NextClosed
<1>3. ClosedInv => RowsAreClosed
  BY DEF ClosedInv, ClosedIn, RowsAreClosed
<1> QED
  BY <1>1, <1>2, <1>3, Inductive, PTL DEF Spec

-----------------------------------------------------------------------------
(* The system when nothing goes wrong but what is published.               *)

Faultless ==
  /\ Faults = {} /\ ~ConstructorRaises
  /\ \A b \in Bodies : ~Escapes(b)
  /\ MaxReceive >= 1

\* Only a record that does not parse is reported, and a message that parses is
\* deleted by its first delivery.
OnceInv ==
  /\ \A w \in Workers :
       /\ \A m \in failures[w] : ~Valid(body[m])
       /\ \A m \in batch[w] : place[m] # "unsent"
  /\ \A m \in Msgs : Valid(body[m]) =>
       /\ receives[m] <= 1 /\ place[m] # "dlq"
       /\ place[m] \in {"unsent", "queue"} /\ ~InFlight(m) => receives[m] = 0

LEMMA NothingFails ==
  ASSUME Faultless, NEW w \in Workers, Handle(w), IInv
  PROVE  failures' = failures
<1>1. \A r \in CallResults \cup WriteResults : r.ok
  BY DEF Faultless, CallResults, WriteResults, CleanOutcome
<1>2. ~ListFails(w)
  BY DEF Faultless, ListFails
<1> QED
  BY <1>1, <1>2
  DEF Handle, Credit, Weekly, Monthly, SkipQuests, ListQuests, Bump, Proceed, IInv, TypeOK

\* Who is reported by one container, and what it has at hand.
LEMMA OnceBatch ==
  ASSUME IInv, [Next]_vars, Faultless, OnceInv, NEW v \in Workers
  PROVE  /\ \A m \in failures'[v] : ~Valid(body'[m])
         /\ \A m \in batch'[v] : place'[m] # "unsent"
<1> USE DEF IInv, TypeOK
<1>1. body' = body /\ \A m \in Msgs : place[m] # "unsent" => place'[m] # "unsent"
  <2>1. body' = body
    BY NextGrows DEF Grow
  <2>2. CASE \E w \in Workers : Return(w)
    BY <2>1, <2>2 DEF Return
  <2>3. CASE \E m \in Msgs : Publish(m) \/ Bury(m)
    BY <2>1, <2>3 DEF Publish, Bury
  <2>4. CASE /\ ~\E w \in Workers : Return(w)
             /\ ~\E m \in Msgs : Publish(m) \/ Bury(m)
    <3>1. place' = place
      BY <2>4 DEF Next, Invoke, Loop, RepoUnavailable, ParseEscapes, Accept, RejectInvalid, Take,
         Record, Handle, Credit, Weekly, Monthly, SkipQuests, ListQuests, ListFails, Bump, Crash,
         Recycle, MountQuests, CloseQuest, vars, queueVars
    <3> QED
      BY <2>1, <3>1
  <2> QED
    BY <2>2, <2>3, <2>4
<1>2. CASE failures'[v] = failures[v] /\ batch'[v] = batch[v]
  BY <1>1, <1>2 DEF OnceInv
<1>3. CASE Invoke(v)
  <2>1. failures'[v] = failures[v] /\ \A m \in batch'[v] : place[m] = "queue"
    BY <1>3 DEF Invoke, Deliverable
  <2> QED
    BY <1>1, <1>3, <2>1 DEF OnceInv, Invoke
<1>4. CASE EndInvocation(v)
  BY <1>4 DEF EndInvocation
<1>5. ASSUME NEW m \in Msgs, RejectInvalid(v, m)
      PROVE  /\ \A x \in failures'[v] : ~Valid(body'[x])
             /\ \A x \in batch'[v] : place'[x] # "unsent"
  BY <1>1, <1>5 DEF RejectInvalid, Take, OnceInv
<1>6. CASE \/ Handle(v) \/ Recycle(v) \/ Record(v)
           \/ \E m \in Msgs : Accept(v, m)
  <2>1. failures' = failures
    BY <1>6, NothingFails DEF Recycle, Record, Accept
  <2>2. batch' = batch
    BY <1>6 DEF Recycle, Record, Accept, Take,
       Handle, Credit, Weekly, Monthly, SkipQuests, ListQuests, ListFails, Bump
  <2> QED
    BY <1>2, <2>1, <2>2
<1>7. CASE ~(Invoke(v) \/ Loop(v) \/ Handle(v) \/ Crash(v) \/ Recycle(v))
  <2>1. SameLocal(v)
    BY <1>7, OneContainer
    DEF Next, Publish, Bury, MountQuests, CloseQuest, vars, loopVars, SameLocal
  <2> QED
    BY <1>2, <2>1 DEF SameLocal
<1> QED
  BY <1>3, <1>4, <1>5, <1>6, <1>7
  DEF Loop, Crash, RepoUnavailable, ParseEscapes, Return

\* A message that parses leaves a batch by being deleted.
LEMMA OnceMessage ==
  ASSUME IInv, IInv', [Next]_vars, Faultless, OnceInv, NEW m \in Msgs, Valid(body'[m])
  PROVE  /\ receives'[m] <= 1 /\ place'[m] # "dlq"
         /\ place'[m] \in {"unsent", "queue"} /\ ~InFlight(m)' => receives'[m] = 0
<1> USE DEF IInv, TypeOK
<1>1. Valid(body[m])
  BY NextGrows DEF Grow
<1>2. /\ receives[m] <= 1 /\ place[m] # "dlq"
      /\ place[m] \in {"unsent", "queue"} /\ ~InFlight(m) => receives[m] = 0
  BY <1>1 DEF OnceInv
<1>3. CASE \E w \in Workers : Invoke(w)
  <2>0. PICK w \in Workers : Invoke(w)
    BY <1>3
  <2>1. /\ place' = place /\ pc[w] = "idle"
        /\ \E S \in SUBSET {x \in Msgs : Deliverable(x)} :
             /\ receives' = [x \in Msgs |-> IF x \in S THEN receives[x] + 1 ELSE receives[x]]
             /\ batch' = [batch EXCEPT ![w] = S]
    BY <2>0, Zenon DEF Invoke
  <2> PICK S \in SUBSET {x \in Msgs : Deliverable(x)} :
        /\ receives' = [x \in Msgs |-> IF x \in S THEN receives[x] + 1 ELSE receives[x]]
        /\ batch' = [batch EXCEPT ![w] = S]
    BY <2>1, Zenon
  <2>2. CASE m \in S
    <3>1. place[m] = "queue" /\ ~InFlight(m)
      BY <2>2 DEF Deliverable, Faultless
    <3>2. receives'[m] = 1 /\ m \in batch'[w]
      BY <1>2, <2>1, <2>2, <3>1
    <3> QED
      BY <1>2, <2>1, <3>2 DEF InFlight
  <2>3. CASE m \notin S
    <3>1. receives'[m] = receives[m]
      BY <2>1, <2>3
    <3>2. InFlight(m) => InFlight(m)'
      <4> SUFFICES ASSUME NEW u \in Workers, m \in batch[u] PROVE m \in batch'[u]
        BY DEF InFlight
      <4>1. u # w
        BY <2>1 DEF WorkerInv, LoopInv
      <4> QED
        BY <2>1, <4>1
    <3> QED
      BY <1>2, <2>1, <3>1, <3>2
  <2> QED
    BY <2>2, <2>3
<1>4. CASE \E w \in Workers : Return(w)
  <2>1. PICK w \in Workers : Return(w)
    BY <1>4
  <2>2. /\ receives' = receives /\ batch' = [batch EXCEPT ![w] = {}]
        /\ place'[m] = IF m \in Deleted(w) /\ place[m] = "queue" THEN "done" ELSE place[m]
    BY <2>1 DEF Return, EndInvocation
  <2>3. CASE m \in batch[w]
    <3>1. m \in Deleted(w) /\ place[m] # "unsent"
      BY <1>1, <2>3 DEF Deleted, OnceInv
    <3> QED
      BY <1>2, <2>2, <3>1
  <2>4. CASE m \notin batch[w]
    <3>1. InFlight(m) => InFlight(m)'
      BY <2>2, <2>4 DEF InFlight
    <3>2. m \notin Deleted(w)
      BY <2>4 DEF Deleted
    <3> QED
      BY <1>2, <2>2, <3>1, <3>2
  <2> QED
    BY <2>3, <2>4
<1>5. CASE ~\E w \in Workers : Invoke(w) \/ Return(w)
  <2> USE <1>5
  <2>1. batch' = batch /\ receives' = receives
    <3>1. \A w \in Workers : ~RepoUnavailable(w) /\ ~ParseEscapes(w) /\ ~Crash(w)
      BY DEF Faultless, RepoUnavailable, ParseEscapes, Crash
    <3>2. \A w \in Workers : Loop(w) \/ Handle(w) \/ Recycle(w) => batch' = batch /\ receives' = receives
      BY <3>1
      DEF Loop, Accept, RejectInvalid, Take, Record, Handle, Credit, Weekly, Monthly, SkipQuests,
          ListQuests, ListFails, Bump, Recycle, queueVars
    <3>3. (\E x \in Msgs : Publish(x) \/ Bury(x)) => batch' = batch /\ receives' = receives
      BY DEF Publish, Bury, loopVars
    <3>4. MountQuests \/ (\E q \in Quests : CloseQuest(q)) \/ UNCHANGED vars
            => batch' = batch /\ receives' = receives
      BY DEF MountQuests, CloseQuest, vars, queueVars, loopVars
    <3> QED
      BY <3>1, <3>2, <3>3, <3>4 DEF Next
  <2>2. /\ place'[m] \in {"unsent", "queue"} => place[m] \in {"unsent", "queue"}
        /\ place'[m] # "dlq"
    <3>1. CASE \E x \in Msgs : Publish(x)
      BY <1>2, <3>1 DEF Publish
    <3>2. CASE \E x \in Msgs : Bury(x)
      <4>1. PICK x \in Msgs : Bury(x)
        BY <3>2
      <4>2. x # m
        BY <1>2, <4>1 DEF Bury, Faultless
      <4> QED
        BY <1>2, <4>1, <4>2 DEF Bury
    <3>3. CASE ~\E x \in Msgs : Publish(x) \/ Bury(x)
      <4>1. place' = place
        BY <1>5, <3>3
        DEF Next, Loop, RepoUnavailable, ParseEscapes, Accept, RejectInvalid, Take,
            Record, Handle, Credit, Weekly, Monthly, SkipQuests, ListQuests, ListFails, Bump, Crash,
            Recycle, MountQuests, CloseQuest, vars, queueVars
      <4> QED
        BY <1>2, <4>1
    <3> QED
      BY <3>1, <3>2, <3>3
  <2> QED
    BY <1>2, <2>1, <2>2 DEF InFlight
<1> QED
  BY <1>3, <1>4, <1>5

\* Every effect of a message that parses.
EachEffectOnce ==
  \A m \in Msgs : Valid(body[m]) =>
    /\ place[m] # "dlq"
    /\ xp[m] <= 1 /\ weekly[m] <= 1 /\ monthly[m] <= 1
    /\ \A q \in Quests : bumps[m][q] <= 1
    /\ place[m] = "done" =>
         /\ xp[m] = IF NeedsCredit(body[m]) THEN 1 ELSE 0
         /\ weekly[m] = IF WritesBoard(body[m]) THEN 1 ELSE 0
         /\ monthly[m] = weekly[m]
         /\ \A q \in Quests : q \notin Advances(body[m]) => bumps[m][q] = 0
         /\ m \notin missed => \A q \in Advances(body[m]) \cap active : bumps[m][q] = 1

LEMMA OnceEach ==
  ASSUME Faultless, IInv, OnceInv, Tight, NothingUnasked
  PROVE  EachEffectOnce
<1> SUFFICES ASSUME NEW m \in Msgs, Valid(body[m])
             PROVE  /\ place[m] # "dlq"
                    /\ xp[m] <= 1 /\ weekly[m] <= 1 /\ monthly[m] <= 1
                    /\ \A q \in Quests : bumps[m][q] <= 1
                    /\ place[m] = "done" =>
                         /\ xp[m] = IF NeedsCredit(body[m]) THEN 1 ELSE 0
                         /\ weekly[m] = IF WritesBoard(body[m]) THEN 1 ELSE 0
                         /\ monthly[m] = weekly[m]
                         /\ \A q \in Quests : q \notin Advances(body[m]) => bumps[m][q] = 0
                         /\ m \notin missed =>
                              \A q \in Advances(body[m]) \cap active : bumps[m][q] = 1
  BY DEF EachEffectOnce
<1>1. /\ receives[m] \in Nat /\ xp[m] \in Nat /\ weekly[m] \in Nat /\ monthly[m] \in Nat
      /\ \A q \in Quests : bumps[m][q] \in Nat
  BY WorkerAssumption DEF IInv, TypeOK
<1>2. CoreTries = 1 /\ WriteTries = 1 /\ receives[m] <= 1 /\ place[m] # "dlq"
  BY DEF Faultless, CoreTries, WriteTries, OnceInv
<1>3. /\ xp[m] <= 1 /\ weekly[m] <= 1 /\ monthly[m] <= 1
      /\ \A q \in Quests : bumps[m][q] <= 1
  BY <1>1, <1>2 DEF Tight, TightFor
<1>4. Asked(m)
  BY DEF NothingUnasked
<1>5. ASSUME place[m] = "done"
      PROVE  /\ xp[m] = IF NeedsCredit(body[m]) THEN 1 ELSE 0
             /\ weekly[m] = IF WritesBoard(body[m]) THEN 1 ELSE 0
             /\ monthly[m] = weekly[m]
             /\ \A q \in Quests : q \notin Advances(body[m]) => bumps[m][q] = 0
             /\ m \notin missed =>
                  \A q \in Advances(body[m]) \cap active : bumps[m][q] = 1
  <2>1. CreditMet(m) /\ BoardMet(m) /\ QuestsMet(m)
    BY <1>5 DEF IInv, AckedMeansApplied, Applied
  <2>2. xp[m] = IF NeedsCredit(body[m]) THEN 1 ELSE 0
    BY <1>1, <1>3, <1>4, <2>1 DEF CreditMet, Asked
  <2>3. weekly[m] = (IF WritesBoard(body[m]) THEN 1 ELSE 0) /\ monthly[m] = weekly[m]
    BY <1>1, <1>3, <1>4, <2>1 DEF BoardMet, Asked
  <2>4. \A q \in Quests : q \notin Advances(body[m]) => bumps[m][q] = 0
    BY <1>1, <1>4 DEF Asked
  <2>5. m \notin missed => \A q \in Advances(body[m]) \cap active : bumps[m][q] = 1
    BY <1>1, <1>3, <2>1, EffectsAreStages DEF QuestsMet
  <2> QED
    BY <2>2, <2>3, <2>4, <2>5
<1> QED
  BY <1>2, <1>3, <1>5

\* While nothing is killed, refused or duplicated, every event that parses is
\* handled exactly once, whatever it shares a batch with: a neighbour that
\* does not parse is retried alone (handler.py:18-20).
THEOREM ExactlyOnce == Faultless => (Spec => []EachEffectOnce)
<1> SUFFICES ASSUME Faultless PROVE Spec => []EachEffectOnce
  OBVIOUS
<1>1. Init => OnceInv
  BY DEF Init, OnceInv, InFlight
<1>2. IInv /\ IInv' /\ [Next]_vars /\ OnceInv => OnceInv'
  BY OnceBatch, OnceMessage DEF OnceInv
<1>3. IInv /\ OnceInv /\ Tight /\ NothingUnasked => EachEffectOnce
  BY OnceEach
<1> QED
  BY <1>1, <1>2, <1>3, Inductive, OnlyFaultsMultiply, OnlyWhatWasAsked, PTL DEF Spec

-----------------------------------------------------------------------------
(* Why the worker comes to rest: what is left to do only shrinks, and      *)
(* while a message is queued somebody can go on.                           *)

\* Steps a container can take at most before it is done with one record.
PerRecord == Cardinality(Quests) + 6

StageRank(w) ==
  CASE pc[w] = "credit"  -> Cardinality(Quests) + 5
    [] pc[w] = "weekly"  -> Cardinality(Quests) + 4
    [] pc[w] = "monthly" -> Cardinality(Quests) + 3
    [] pc[w] = "quests"  -> Cardinality(Quests) + 2
    [] pc[w] = "bump"    -> Cardinality(toBump[w]) + 1
    [] pc[w] = "record"  -> 1
    [] OTHER -> 0

\* Steps it can take at most before its invocation is over.
Remaining(w) ==
  IF pc[w] = "idle" THEN 0 ELSE 1 + Cardinality(todo[w]) * PerRecord + StageRank(w)

Unsent  == {m \in Msgs : place[m] = "unsent"}
Queued  == {m \in Msgs : place[m] = "queue"}
Chances == {d \in Msgs \X (1..MaxReceive) : receives[d[1]] < d[2]}
Latched == {w \in Workers : latched[w]}

Shrinks(S, T) == T \subseteq S /\ T # S

\* A message is published; or one is delivered; or a container goes on; or
\* the queue or lingo-core's quests change, or an idle container, for good.
Descends ==
  \/ Shrinks(Unsent, Unsent')
  \/ /\ Unsent' = Unsent
     /\ Shrinks(Chances, Chances')
  \/ /\ Unsent' = Unsent /\ Chances' = Chances
     /\ \E w \in Workers : /\ Remaining(w)' < Remaining(w)
                           /\ \A v \in Workers \ {w} : Remaining(v)' = Remaining(v)
  \/ /\ Unsent' = Unsent /\ Chances' = Chances
     /\ \A w \in Workers : Remaining(w)' = Remaining(w)
     /\ Queued' \subseteq Queued /\ active' \subseteq active /\ Latched' \subseteq Latched
     /\ mounted => mounted'
     /\ \/ Queued' # Queued \/ active' # active \/ Latched' # Latched \/ mounted' # mounted

Finite == IsFiniteSet(Msgs) /\ IsFiniteSet(Quests) /\ IsFiniteSet(Workers)

LEMMA Sizes ==
  ASSUME Finite, TypeOK, NEW w \in Workers
  PROVE  /\ IsFiniteSet(todo[w]) /\ Cardinality(todo[w]) \in Nat
         /\ IsFiniteSet(toBump[w]) /\ Cardinality(toBump[w]) \in Nat
         /\ Cardinality(Quests) \in Nat /\ Cardinality(toBump[w]) <= Cardinality(Quests)
         /\ PerRecord \in Nat
<1>1. todo[w] \in SUBSET Msgs /\ toBump[w] \in SUBSET Quests
  BY DEF TypeOK
<1>2. Cardinality(Quests) \in Nat
  BY FS_CardinalityType DEF Finite
<1>3. /\ IsFiniteSet(todo[w]) /\ Cardinality(todo[w]) \in Nat
      /\ IsFiniteSet(toBump[w]) /\ Cardinality(toBump[w]) \in Nat
      /\ Cardinality(toBump[w]) <= Cardinality(Quests)
  BY <1>1, FS_Subset, FS_CardinalityType DEF Finite
<1> QED
  BY <1>2, <1>3 DEF PerRecord

LEMMA RemainingType ==
  ASSUME Finite, TypeOK, NEW w \in Workers
  PROVE  Remaining(w) \in Nat /\ StageRank(w) \in Nat
<1>1. StageRank(w) \in Nat
  BY Sizes DEF StageRank
<1>2. Cardinality(todo[w]) * PerRecord \in Nat
  BY Sizes
<1> QED
  BY <1>1, <1>2 DEF Remaining

\* A step that leaves the records before w alone and lowers its stage.
LEMMA LowerStage ==
  ASSUME Finite, TypeOK, TypeOK', NEW w \in Workers, pc[w] # "idle", pc'[w] # "idle",
         todo'[w] = todo[w], StageRank(w)' < StageRank(w)
  PROVE  Remaining(w)' < Remaining(w)
<1> DEFINE before == Cardinality(todo[w]) * PerRecord
<1>1. before \in Nat /\ StageRank(w) \in Nat /\ StageRank(w)' \in Nat
  <2>1. before \in Nat /\ StageRank(w) \in Nat
    BY Sizes, RemainingType
  <2>2. StageRank(w)' \in Nat
    <3>1. toBump'[w] \in SUBSET Quests
      BY DEF TypeOK
    <3>2. Cardinality(toBump'[w]) \in Nat /\ Cardinality(Quests) \in Nat
      BY <3>1, FS_Subset, FS_CardinalityType DEF Finite
    <3> QED
      BY <3>2 DEF StageRank
  <2> QED
    BY <2>1, <2>2
<1>2. Remaining(w) = 1 + before + StageRank(w) /\ Remaining(w)' = 1 + before + StageRank(w)'
  BY DEF Remaining, PerRecord
<1> HIDE DEF before
<1> QED
  BY <1>1, <1>2

\* Turning to a record is a step down, whatever stage it begins at.
LEMMA TakeRank ==
  ASSUME Finite, TypeOK, TypeOK', NEW w \in Workers, NEW m \in todo[w],
         NEW p \in {"credit", "weekly", "quests", "record"}, pc[w] = "loop", Take(w, m, p)
  PROVE  Remaining(w)' < Remaining(w)
<1> DEFINE n == Cardinality(todo[w])
<1>1. todo'[w] = todo[w] \ {m} /\ pc'[w] = p
  BY DEF TypeOK, Take
<1>2. n \in Nat /\ PerRecord \in Nat /\ Cardinality(todo'[w]) = n - 1 /\ n >= 1
  <2>1. IsFiniteSet(todo[w]) /\ n \in Nat /\ PerRecord \in Nat
    BY Sizes
  <2>2. Cardinality(todo[w] \ {m}) = n - 1 /\ n - 1 \in Nat
    <3>1. IsFiniteSet(todo[w] \ {m}) /\ Cardinality(todo[w] \ {m}) = n - 1
      BY <2>1, FS_RemoveElement
    <3> QED
      BY <3>1, FS_CardinalityType
  <2> QED
    BY <1>1, <2>1, <2>2
<1>3. StageRank(w)' \in Nat /\ StageRank(w)' < PerRecord
  BY <1>1, Sizes DEF StageRank, PerRecord
<1>4. Remaining(w) = 1 + n * PerRecord + 0
  BY DEF Remaining, StageRank
<1>5. Remaining(w)' = 1 + (n - 1) * PerRecord + StageRank(w)'
  BY <1>1, <1>2 DEF Remaining, PerRecord
<1> HIDE DEF n
<1>6. /\ n * PerRecord = (n - 1) * PerRecord + PerRecord
      /\ n * PerRecord \in Nat /\ (n - 1) * PerRecord \in Nat
  BY <1>2
<1> QED
  BY <1>2, <1>3, <1>4, <1>5, <1>6

LEMMA HandleRank ==
  ASSUME Finite, IInv, TypeOK', NEW w \in Workers, Handle(w)
  PROVE  Remaining(w)' < Remaining(w)
<1> USE DEF IInv
<1>1. /\ todo' = todo /\ pc[w] \in Handling
      /\ pc'[w] \in {"weekly", "monthly", "quests", "bump", "record"}
  BY NothingOwed DEF TypeOK, Handle, Credit, Weekly, Monthly, SkipQuests, ListQuests, ListFails,
     Bump, Proceed, Handling
<1>2. /\ Cardinality(Quests) \in Nat
      /\ Cardinality(toBump[w]) \in Nat
      /\ Cardinality(toBump'[w]) \in Nat /\ Cardinality(toBump'[w]) <= Cardinality(Quests)
  <2>1. toBump'[w] \in SUBSET Quests
    BY DEF TypeOK
  <2> QED
    BY <2>1, Sizes, FS_Subset, FS_CardinalityType DEF Finite
<1>3. StageRank(w)' < StageRank(w)
  <2>1. CASE Credit(w)
    <3>1. pc[w] = "credit" /\ pc'[w] \in {"weekly", "quests", "record"}
      BY <2>1, NothingOwed DEF TypeOK, Credit, Proceed
    <3> QED
      BY <1>2, <3>1 DEF StageRank
  <2>2. CASE Weekly(w)
    <3>1. pc[w] = "weekly" /\ pc'[w] \in {"monthly", "record"}
      BY <2>2 DEF TypeOK, Weekly, Proceed
    <3> QED
      BY <1>2, <3>1 DEF StageRank
  <2>3. CASE Monthly(w)
    <3>1. pc[w] = "monthly" /\ pc'[w] \in {"quests", "record"}
      BY <2>3, NothingOwed DEF TypeOK, Monthly, Proceed
    <3> QED
      BY <1>2, <3>1 DEF StageRank
  <2>4. CASE SkipQuests(w) \/ ListQuests(w) \/ ListFails(w)
    <3>1. pc[w] = "quests" /\ pc'[w] \in {"bump", "record"}
      BY <2>4 DEF TypeOK, SkipQuests, ListQuests, ListFails, Proceed
    <3> QED
      BY <1>2, <3>1 DEF StageRank
  <2>5. CASE Bump(w)
    <3>1. PICK q \in toBump[w], r \in CallResults :
            LET rest == IF r.ok THEN toBump[w] \ {q} ELSE {}
            IN  /\ toBump' = [toBump EXCEPT ![w] = rest]
                /\ Proceed(w, r.ok, IF rest = {} THEN "record" ELSE "bump")
      BY <2>5 DEF Bump
    <3>2. toBump'[w] \in SUBSET (toBump[w] \ {q}) /\ pc'[w] \in {"bump", "record"}
      BY <3>1 DEF TypeOK, Proceed
    <3>3. IsFiniteSet(toBump[w])
      BY Sizes
    <3>4. /\ IsFiniteSet(toBump[w] \ {q})
          /\ Cardinality(toBump[w] \ {q}) = Cardinality(toBump[w]) - 1
      BY <3>1, <3>3, FS_RemoveElement
    <3>5. Cardinality(toBump'[w]) <= Cardinality(toBump[w]) - 1
      BY <3>2, <3>4, FS_Subset
    <3>6. pc[w] = "bump"
      BY <2>5 DEF Bump
    <3> QED
      BY <1>2, <3>2, <3>5, <3>6 DEF StageRank
  <2> QED
    BY <2>1, <2>2, <2>3, <2>4, <2>5 DEF Handle
<1> QED
  BY <1>1, <1>3, LowerStage DEF Handling

LEMMA LoopRank ==
  ASSUME Finite, IInv, TypeOK', NEW w \in Workers, Loop(w) \/ Crash(w)
  PROVE  Remaining(w)' < Remaining(w)
<1> USE DEF IInv
<1>1. CASE EndInvocation(w) /\ pc[w] # "idle"
  <2>1. pc'[w] = "idle"
    BY <1>1 DEF TypeOK, EndInvocation
  <2>2. Cardinality(todo[w]) * PerRecord \in Nat /\ StageRank(w) \in Nat
    BY Sizes, RemainingType
  <2>3. Remaining(w)' = 0 /\ Remaining(w) = 1 + Cardinality(todo[w]) * PerRecord + StageRank(w)
    BY <1>1, <2>1 DEF Remaining
  <2> QED
    BY <2>2, <2>3
<1>2. ASSUME NEW m \in Msgs, Accept(w, m) PROVE Remaining(w)' < Remaining(w)
  BY <1>2, TakeRank, NothingOwed DEF Accept
<1>3. ASSUME NEW m \in Msgs, RejectInvalid(w, m) PROVE Remaining(w)' < Remaining(w)
  BY <1>3, TakeRank DEF RejectInvalid
<1>4. CASE Record(w)
  <2>1. pc[w] = "record" /\ pc'[w] = "loop" /\ todo'[w] = todo[w]
    BY <1>4 DEF TypeOK, Record
  <2> QED
    BY <2>1, LowerStage DEF StageRank
<1> QED
  BY <1>1, <1>2, <1>3, <1>4
  DEF Loop, Crash, RepoUnavailable, ParseEscapes, Return

\* The steps that are no container's descend as well.
LEMMA QueueDescends ==
  ASSUME TypeOK, NEW m \in Msgs, Publish(m) \/ Bury(m)
  PROVE  Descends
<1>1. CASE Publish(m)
  <2>1. Unsent' = Unsent \ {m} /\ m \in Unsent
    BY <1>1 DEF Publish, TypeOK, Unsent
  <2> QED
    BY <2>1 DEF Descends, Shrinks
<1>2. CASE Bury(m)
  <2>1. Unsent' = Unsent /\ Queued' = Queued \ {m} /\ m \in Queued
    BY <1>2 DEF Bury, TypeOK, Unsent, Queued
  <2>2. UNCHANGED <<receives, pc, todo, toBump, latched, active, mounted>>
    BY <1>2 DEF Bury, loopVars, coreVars
  <2>3. Chances' = Chances /\ Latched' = Latched /\ \A w : Remaining(w)' = Remaining(w)
    BY <2>2 DEF Chances, Latched, Remaining, StageRank, PerRecord
  <2> QED
    BY <2>1, <2>2, <2>3 DEF Descends
<1> QED
  BY <1>1, <1>2

LEMMA InvokeDescends ==
  ASSUME TypeOK, NEW w \in Workers, Invoke(w)
  PROVE  Descends
<1> USE DEF TypeOK
<1>1. place' = place /\ \E S \in SUBSET {m \in Msgs : Deliverable(m)} :
        /\ S # {}
        /\ receives' = [m \in Msgs |-> IF m \in S THEN receives[m] + 1 ELSE receives[m]]
  BY Zenon DEF Invoke
<1>2. PICK S \in SUBSET {m \in Msgs : Deliverable(m)} :
        /\ S # {}
        /\ receives' = [m \in Msgs |-> IF m \in S THEN receives[m] + 1 ELSE receives[m]]
  BY <1>1, Zenon
<1>3. PICK m \in S : m \in Msgs /\ receives[m] < MaxReceive
  BY <1>2 DEF Deliverable
<1>4. Unsent' = Unsent
  BY <1>1 DEF Unsent
<1>5. \A x \in Msgs : receives[x] \in Nat /\ receives'[x] \in Nat /\ receives[x] <= receives'[x]
  BY <1>2, WorkerAssumption
<1>6. Chances' \subseteq Chances
  BY <1>5, WorkerAssumption DEF Chances
<1>7. receives[m] \in Nat /\ receives'[m] = receives[m] + 1 /\ receives[m] + 1 \in 1..MaxReceive
  BY <1>2, <1>3, WorkerAssumption
<1>8. <<m, receives[m] + 1>> \in Chances
  BY <1>3, <1>7 DEF Chances
<1>9. <<m, receives[m] + 1>> \notin Chances'
  BY <1>3, <1>7 DEF Chances
<1> QED
  BY <1>4, <1>6, <1>8, <1>9 DEF Descends, Shrinks

LEMMA CoreDescends ==
  ASSUME TypeOK, MountQuests \/ \E q \in Quests : CloseQuest(q)
  PROVE  Descends
<1>1. UNCHANGED <<place, receives, pc, todo, toBump, latched>>
  BY DEF MountQuests, CloseQuest, queueVars, loopVars
<1>2. /\ Unsent' = Unsent /\ Chances' = Chances /\ Queued' = Queued /\ Latched' = Latched
      /\ \A w : Remaining(w)' = Remaining(w)
  BY <1>1 DEF Unsent, Chances, Queued, Latched, Remaining, StageRank, PerRecord
<1>3. /\ active' \subseteq active /\ (mounted => mounted')
      /\ active' # active \/ mounted' # mounted
  BY DEF TypeOK, MountQuests, CloseQuest
<1> QED
  BY <1>2, <1>3 DEF Descends

LEMMA RecycleDescends ==
  ASSUME TypeOK, NEW w \in Workers, Recycle(w)
  PROVE  Descends
<1>1. UNCHANGED <<place, receives, pc, todo, toBump, active, mounted>>
  BY DEF Recycle, queueVars, coreVars
<1>2. /\ Unsent' = Unsent /\ Chances' = Chances /\ Queued' = Queued
      /\ \A v : Remaining(v)' = Remaining(v)
  BY <1>1 DEF Unsent, Chances, Queued, Remaining, StageRank, PerRecord
<1>3. Latched' = Latched \ {w} /\ w \in Latched
  BY DEF TypeOK, Recycle, Latched
<1> QED
  BY <1>1, <1>2, <1>3 DEF Descends

LEMMA ContainerDescends ==
  ASSUME Finite, IInv, TypeOK', NEW w \in Workers, Loop(w) \/ Handle(w) \/ Crash(w)
  PROVE  Descends
<1>1. receives' = receives /\ Unsent' = Unsent
  <2>1. CASE Return(w)
    BY <2>1 DEF Return, Unsent
  <2>2. CASE ~Return(w)
    <3>1. place' = place /\ receives' = receives
      BY <2>2 DEF Loop, RepoUnavailable, ParseEscapes, Accept, RejectInvalid, Take, Record,
         Handle, Credit, Weekly, Monthly, SkipQuests, ListQuests, ListFails, Bump, Crash, queueVars
    <3> QED
      BY <3>1 DEF Unsent
  <2> QED
    BY <2>1, <2>2
<1>2. Chances' = Chances
  BY <1>1 DEF Chances
<1>3. Remaining(w)' < Remaining(w)
  BY LoopRank, HandleRank
<1>4. \A v \in Workers \ {w} : Remaining(v)' = Remaining(v)
  BY OneContainer DEF IInv, SameLocal, Remaining, StageRank, PerRecord
<1> QED
  BY <1>1, <1>2, <1>3, <1>4 DEF Descends

\* Nothing the worker, its queue or lingo-core does can be done for ever: with
\* finitely many messages, quests and containers every step lowers a measure
\* that nothing raises except what stands above it.  Kills and duplicates are
\* steps of the model as well, and use deliveries up.
THEOREM EverythingRunsDown == Finite => (Spec => [][Descends]_vars)
<1> SUFFICES ASSUME Finite PROVE Spec => [][Descends]_vars
  OBVIOUS
<1>1. IInv /\ IInv' /\ [Next]_vars => [Descends]_vars
  <2> SUFFICES ASSUME IInv, IInv', Next PROVE Descends
    OBVIOUS
  <2> QED
    BY QueueDescends, InvokeDescends, CoreDescends, RecycleDescends, ContainerDescends
    DEF Next, IInv
<1> QED
  BY <1>1, Inductive, PTL DEF Spec

-----------------------------------------------------------------------------
(* The length of an invocation.                                            *)

Short == \A w \in Workers : Remaining(w) <= 1 + BatchSize * PerRecord

NeverLonger == \A w \in Workers : pc[w] # "idle" => Remaining(w)' <= Remaining(w)

BatchFits(w) == Cardinality(batch[w]) <= BatchSize

LEMMA NextFits ==
  ASSUME IInv, [Next]_vars, NEW v \in Workers, BatchFits(v), Finite
  PROVE  BatchFits(v)'
<1>1. CASE Invoke(v)
  <2>1. \E S \in SUBSET Msgs : Cardinality(S) <= BatchSize /\ batch' = [batch EXCEPT ![v] = S]
    BY <1>1 DEF Invoke
  <2> QED
    BY <2>1 DEF IInv, TypeOK, BatchFits
<1>2. CASE EndInvocation(v)
  <2>1. batch'[v] = {}
    BY <1>2 DEF EndInvocation, IInv, TypeOK
  <2> QED
    BY <2>1, FS_EmptySet, WorkerAssumption DEF BatchFits
<1>3. CASE ~Invoke(v) /\ ~EndInvocation(v)
  <2>1. batch'[v] = batch[v]
    <3>1. CASE Loop(v) \/ Handle(v) \/ Crash(v) \/ Recycle(v)
      BY <1>3, <3>1
      DEF Loop, RepoUnavailable, ParseEscapes, Accept, RejectInvalid, Take, Record, Return,
          Handle, Credit, Weekly, Monthly, SkipQuests, ListQuests, ListFails, Bump, Crash, Recycle
    <3>2. CASE ~(Loop(v) \/ Handle(v) \/ Crash(v) \/ Recycle(v))
      BY <1>3, <3>2, OneContainer
      DEF IInv, Next, Publish, Bury, MountQuests, CloseQuest, vars, loopVars, SameLocal
    <3> QED
      BY <3>1, <3>2
  <2> QED
    BY <2>1 DEF BatchFits
<1> QED
  BY <1>1, <1>2, <1>3

LEMMA FitIsShort ==
  ASSUME Finite, IInv, NEW w \in Workers, BatchFits(w)
  PROVE  Remaining(w) <= 1 + BatchSize * PerRecord
<1> USE DEF IInv
<1>1. /\ Cardinality(todo[w]) \in Nat /\ PerRecord \in Nat /\ BatchSize \in Nat
      /\ StageRank(w) \in Nat
  BY Sizes, RemainingType, WorkerAssumption
<1>2. /\ IsFiniteSet(batch[w]) /\ Cardinality(batch[w]) \in Nat
      /\ Cardinality(todo[w]) <= Cardinality(batch[w])
  <2>1. batch[w] \in SUBSET Msgs /\ todo[w] \in SUBSET batch[w]
    BY DEF TypeOK, WorkerInv, LoopInv
  <2> QED
    BY <2>1, FS_Subset, FS_CardinalityType DEF Finite
<1>3. CASE pc[w] \in {"idle", "loop"}
  <2>1. Remaining(w) <= 1 + Cardinality(todo[w]) * PerRecord
    <3>1. StageRank(w) = 0 \/ pc[w] = "idle"
      BY <1>3 DEF StageRank
    <3>2. Cardinality(todo[w]) * PerRecord \in Nat
      BY <1>1
    <3> QED
      BY <3>1, <3>2 DEF Remaining
  <2>2. Cardinality(todo[w]) <= BatchSize
    BY <1>1, <1>2 DEF BatchFits
  <2>3. PerRecord * Cardinality(todo[w]) <= PerRecord * BatchSize
    BY <1>1, <2>2, Times
  <2>4. /\ PerRecord * Cardinality(todo[w]) = Cardinality(todo[w]) * PerRecord
        /\ PerRecord * BatchSize = BatchSize * PerRecord
        /\ Cardinality(todo[w]) * PerRecord \in Nat /\ BatchSize * PerRecord \in Nat
    BY <1>1
  <2>5. Remaining(w) \in Nat
    BY RemainingType
  <2> QED
    BY <2>1, <2>3, <2>4, <2>5
<1>4. CASE pc[w] \notin {"idle", "loop"}
  <2>1. cur[w] \in batch[w] \ todo[w]
    BY <1>4 DEF WorkerInv, LoopInv
  <2>2. Cardinality(todo[w]) + 1 <= BatchSize
    <3>1. todo[w] \in SUBSET (batch[w] \ {cur[w]})
      BY <2>1 DEF WorkerInv, LoopInv
    <3>2. /\ IsFiniteSet(batch[w] \ {cur[w]})
          /\ Cardinality(batch[w] \ {cur[w]}) = Cardinality(batch[w]) - 1
      BY <1>2, <2>1, FS_RemoveElement
    <3>3. Cardinality(todo[w]) <= Cardinality(batch[w]) - 1
      BY <3>1, <3>2, FS_Subset
    <3> QED
      BY <1>1, <1>2, <3>3 DEF BatchFits
  <2>3. PerRecord * (Cardinality(todo[w]) + 1) <= PerRecord * BatchSize
    BY <1>1, <2>2, Times
  <2>4. /\ PerRecord * (Cardinality(todo[w]) + 1) = Cardinality(todo[w]) * PerRecord + PerRecord
        /\ PerRecord * BatchSize = BatchSize * PerRecord
        /\ Cardinality(todo[w]) * PerRecord \in Nat /\ BatchSize * PerRecord \in Nat
    BY <1>1
  <2>5. StageRank(w) < PerRecord
    BY Sizes DEF StageRank, PerRecord
  <2>6. Remaining(w) = 1 + Cardinality(todo[w]) * PerRecord + StageRank(w)
    BY <1>4 DEF Remaining
  <2> QED
    BY <1>1, <2>3, <2>4, <2>5, <2>6
<1> QED
  BY <1>3, <1>4

LEMMA NextNeverLonger ==
  ASSUME Finite, IInv, TypeOK', [Next]_vars
  PROVE  NeverLonger
<1> SUFFICES ASSUME NEW w \in Workers, pc[w] # "idle" PROVE Remaining(w)' <= Remaining(w)
  BY DEF NeverLonger
<1>1. Remaining(w) \in Nat
  BY RemainingType DEF IInv
<1>2. CASE Loop(w) \/ Handle(w) \/ Crash(w)
  <2>1. Remaining(w)' < Remaining(w)
    BY <1>2, LoopRank, HandleRank
  <2>2. Remaining(w)' \in Int
    <3>1. todo'[w] \in SUBSET Msgs /\ toBump'[w] \in SUBSET Quests
      BY DEF TypeOK
    <3>2. Cardinality(todo'[w]) \in Nat /\ Cardinality(toBump'[w]) \in Nat /\ Cardinality(Quests) \in Nat
      BY <3>1, FS_Subset, FS_CardinalityType DEF Finite
    <3>3. PerRecord \in Nat /\ StageRank(w)' \in Nat
      BY <3>2 DEF PerRecord, StageRank
    <3>4. Cardinality(todo'[w]) * PerRecord \in Nat
      BY <3>2, <3>3
    <3> QED
      BY <3>3, <3>4 DEF Remaining, PerRecord
  <2> QED
    BY <1>1, <2>1, <2>2
<1>3. CASE ~(Loop(w) \/ Handle(w) \/ Crash(w))
  <2>1. SameLocal(w)
    BY <1>3, OneContainer
    DEF IInv, Next, Invoke, Recycle, Publish, Bury, MountQuests, CloseQuest, vars, loopVars, SameLocal
  <2>2. Remaining(w)' = Remaining(w)
    BY <2>1 DEF SameLocal, Remaining, StageRank, PerRecord
  <2> QED
    BY <1>1, <2>2
<1> QED
  BY <1>2, <1>3

\* An invocation is over after a number of its own steps that depends on the
\* batch size and the user's quests alone, whatever the other containers do
\* meanwhile; the retries of a call count as that call (handler.py, the loop
\* of lambda_handler).
THEOREM InvocationIsShort == Finite => (Spec => []Short /\ [][NeverLonger]_vars)
<1> SUFFICES ASSUME Finite PROVE Spec => []Short /\ [][NeverLonger]_vars
  OBVIOUS
<1> DEFINE Fits == \A w \in Workers : BatchFits(w)
<1>1. Init => Fits
  BY FS_EmptySet, WorkerAssumption DEF Init, BatchFits
<1>2. IInv /\ [Next]_vars /\ Fits => Fits'
  BY NextFits
<1>3. IInv /\ Fits => Short
  BY FitIsShort DEF Short
<1>4. IInv /\ IInv' /\ [Next]_vars => [NeverLonger]_vars
  BY NextNeverLonger DEF IInv
<1> QED
  BY <1>1, <1>2, <1>3, <1>4, Inductive, PTL DEF Spec

-----------------------------------------------------------------------------
(* Nobody waits for ever.                                                  *)

\* The guards of the actions that move a queued message on: the container can
\* take a step of its loop or its handler, be invoked, or SQS redrives m.
CanGoOn(w) ==
  \/ pc[w] = "loop" /\ todo[w] = {}
  \/ pc[w] = "loop" /\ \E m \in todo[w] : Escapes(body[m]) \/ Saved(rows, m) # {}
  \/ pc[w] = "credit" /\ CallResults # {}
  \/ pc[w] \in {"weekly", "monthly"} /\ WriteResults # {}
  \/ pc[w] = "quests"
  \/ pc[w] = "bump" /\ toBump[w] # {} /\ CallResults # {}
  \/ pc[w] = "record" /\ Updated(rows, cur[w], FinalStatus(w)) # {}

CanInvoke(w) ==
  /\ pc[w] = "idle"
  /\ \E S \in SUBSET {m \in Msgs : Deliverable(m)} : S # {} /\ Cardinality(S) <= BatchSize

CanBury(m) == place[m] = "queue" /\ receives[m] = MaxReceive /\ ~InFlight(m)

NobodyIsStuck ==
  /\ \A w \in Workers : pc[w] = "idle" \/ CanGoOn(w)
  /\ \A m \in Msgs : place[m] = "queue" =>
       CanBury(m) \/ \E w \in Workers : CanInvoke(w) \/ CanGoOn(w)

\* The handler is at the quest steps only while one is left to make.
Listed(w) == pc[w] = "bump" => toBump[w] # {}

LEMMA NextListed ==
  ASSUME IInv, [Next]_vars, NEW v \in Workers, Listed(v)
  PROVE  Listed(v)'
<1> USE DEF IInv, TypeOK
<1>1. CASE ListQuests(v)
  BY <1>1 DEF ListQuests, Listed
<1>2. CASE Bump(v)
  <2>1. PICK q \in toBump[v], r \in CallResults :
          LET rest == IF r.ok THEN toBump[v] \ {q} ELSE {}
          IN  /\ toBump' = [toBump EXCEPT ![v] = rest]
              /\ Proceed(v, r.ok, IF rest = {} THEN "record" ELSE "bump")
    BY <1>2 DEF Bump
  <2> QED
    BY <2>1 DEF Proceed, Listed
<1>3. CASE ~ListQuests(v) /\ ~Bump(v)
  <2>1. CASE Invoke(v) \/ Loop(v) \/ Handle(v) \/ Crash(v) \/ Recycle(v)
    <3>1. pc'[v] # "bump"
      <4>1. Invoke(v) \/ EndInvocation(v) \/ Record(v) \/ Recycle(v) => pc'[v] # "bump"
        BY DEF Invoke, EndInvocation, Record, Recycle
      <4>2. ASSUME NEW m \in Msgs, Accept(v, m) \/ RejectInvalid(v, m) PROVE pc'[v] # "bump"
        <5>1. FirstEffect(body[m]) # "bump"
          BY NothingOwed
        <5>2. pc'[v] \in {FirstEffect(body[m]), "record"}
          BY <4>2 DEF Accept, RejectInvalid, Take
        <5> QED
          BY <5>1, <5>2
      <4>3. Credit(v) \/ Weekly(v) \/ Monthly(v) => pc'[v] # "bump"
        BY NothingOwed DEF Credit, Weekly, Monthly, Proceed
      <4>4. SkipQuests(v) \/ ListFails(v) => pc'[v] # "bump"
        BY DEF SkipQuests, ListFails, Proceed
      <4> QED
        BY <1>3, <2>1, <4>1, <4>2, <4>3, <4>4
        DEF Loop, Handle, Crash, RepoUnavailable, ParseEscapes, Return
    <3> QED
      BY <3>1 DEF Listed
  <2>2. CASE ~(Invoke(v) \/ Loop(v) \/ Handle(v) \/ Crash(v) \/ Recycle(v))
    <3>1. SameLocal(v)
      BY <2>2, OneContainer
      DEF Next, Publish, Bury, MountQuests, CloseQuest, vars, loopVars, SameLocal
    <3> QED
      BY <3>1 DEF SameLocal, Listed
  <2> QED
    BY <2>1, <2>2
<1> QED
  BY <1>1, <1>2, <1>3

LEMMA StoresAnswer ==
  /\ CallResults # {} /\ WriteResults # {}
  /\ \A R, m, s : Saved(R, m) # {} /\ Updated(R, m, s) # {}
<1>1. CleanOutcome \in CallOutcomes(MaxAttempts) /\ CleanOutcome \in CallOutcomes(WriteAttempts)
  BY WorkerAssumption DEF CleanOutcome, CallOutcomes
<1>2. \A R, m, s : DynamoUpdates(R, m, s) # {}
  BY DEF DynamoUpdates
<1> QED
  BY <1>1, <1>2 DEF CallResults, WriteResults, Saved, Updated, OrFails

LEMMA RunningGoesOn ==
  ASSUME IInv, NEW w \in Workers, Listed(w), pc[w] # "idle"
  PROVE  CanGoOn(w)
<1>1. pc[w] \in {"loop", "credit", "weekly", "monthly", "quests", "bump", "record"}
  BY DEF IInv, TypeOK
<1>2. pc[w] = "loop" /\ todo[w] # {} => \E m \in todo[w] : Saved(rows, m) # {}
  BY StoresAnswer
<1>3. pc[w] = "bump" => toBump[w] # {}
  BY DEF Listed
<1> QED
  BY <1>1, <1>2, <1>3, StoresAnswer DEF CanGoOn

\* As long as a message is queued, SQS can redrive it, a container can be
\* invoked, or one that is running can take its next step: no state of the
\* loop, of a handler or of the log is a dead end.  With EverythingRunsDown
\* this is why every published message leaves the queue (EventuallySettled).
THEOREM SomebodyGoesOn == Workers # {} /\ BatchSize >= 1 => (Spec => []NobodyIsStuck)
<1> SUFFICES ASSUME Workers # {}, BatchSize >= 1 PROVE Spec => []NobodyIsStuck
  OBVIOUS
<1> DEFINE AllListed == \A w \in Workers : Listed(w)
<1>1. Init => AllListed
  BY DEF Init, Listed
<1>2. IInv /\ [Next]_vars /\ AllListed => AllListed'
  BY NextListed
<1>3. IInv /\ AllListed => NobodyIsStuck
  <2> SUFFICES ASSUME IInv, AllListed PROVE NobodyIsStuck
    OBVIOUS
  <2>1. \A w \in Workers : pc[w] = "idle" \/ CanGoOn(w)
    BY RunningGoesOn
  <2>2. ASSUME NEW m \in Msgs, place[m] = "queue", \A w \in Workers : pc[w] = "idle"
        PROVE  CanBury(m) \/ \E w \in Workers : CanInvoke(w)
    <3>1. ~InFlight(m)
      BY <2>2 DEF IInv, WorkerInv, LoopInv, InFlight
    <3>2. CASE receives[m] = MaxReceive
      BY <2>2, <3>1, <3>2 DEF CanBury
    <3>3. CASE receives[m] # MaxReceive
      <4>1. receives[m] < MaxReceive
        <5>1. m \in Msgs /\ receives[m] \in 0..MaxReceive /\ MaxReceive \in Nat
          BY <2>2, WorkerAssumption DEF IInv, TypeOK
        <5> QED
          BY <3>3, <5>1
      <4>2. Deliverable(m)
        BY <2>2, <3>1, <4>1 DEF Deliverable
      <4>3. Cardinality({m}) = 1
        BY FS_Singleton
      <4>4. {m} \in SUBSET {x \in Msgs : Deliverable(x)} /\ {m} # {} /\ Cardinality({m}) <= BatchSize
        BY <4>2, <4>3, WorkerAssumption
      <4>5. PICK w \in Workers : TRUE
        OBVIOUS
      <4> QED
        BY <2>2, <4>4, <4>5 DEF CanInvoke
    <3> QED
      BY <3>2, <3>3
  <2> QED
    BY <2>1, <2>2 DEF NobodyIsStuck
<1> QED
  BY <1>1, <1>2, <1>3, Inductive, PTL DEF Spec

\* Nothing of the worker or its queue can move.
AtRest ==
  /\ \A w \in Workers : ~CanInvoke(w) /\ ~CanGoOn(w)
  /\ \A m \in Msgs : ~CanBury(m)

LEMMA PublishedStays ==
  ASSUME IInv, [Next]_vars, NEW m \in Msgs, place[m] # "unsent"
  PROVE  place'[m] # "unsent"
<1> USE DEF IInv, TypeOK
<1>1. CASE \E w \in Workers : Return(w)
  BY <1>1 DEF Return
<1>2. CASE \E x \in Msgs : Publish(x) \/ Bury(x)
  BY <1>2 DEF Publish, Bury
<1>3. CASE /\ ~\E w \in Workers : Return(w)
           /\ ~\E x \in Msgs : Publish(x) \/ Bury(x)
  BY <1>3
  DEF Next, Invoke, Loop, RepoUnavailable, ParseEscapes, Accept, RejectInvalid, Take, Record,
      Handle, Credit, Weekly, Monthly, SkipQuests, ListQuests, ListFails, Bump, Crash, Recycle,
      MountQuests, CloseQuest, vars, queueVars
<1> QED
  BY <1>1, <1>2, <1>3

\* A worker that comes to rest has settled every message it was given.  That
\* it does come to rest is EverythingRunsDown and the fairness of its steps,
\* which TLC puts together on the worker_liveness run.
THEOREM SettledAtRest ==
  Workers # {} /\ BatchSize >= 1 => (Spec => (<>[]AtRest => EventuallySettled))
<1> SUFFICES ASSUME Workers # {}, BatchSize >= 1
             PROVE  Spec => (<>[]AtRest => EventuallySettled)
  OBVIOUS
<1>1. Spec => []NobodyIsStuck
  BY SomebodyGoesOn
<1>2. ASSUME NEW m \in Msgs
      PROVE  Spec => (<>[]AtRest => (place[m] = "queue" ~> place[m] \in {"done", "dlq"}))
  <2>1. NobodyIsStuck /\ AtRest => place[m] # "queue"
    BY DEF NobodyIsStuck, AtRest
  <2>2. IInv /\ [Next]_vars /\ place[m] # "unsent" => (place[m] # "unsent")'
    BY PublishedStays
  <2>3. IInv /\ place[m] # "unsent" /\ place[m] # "queue" => place[m] \in {"done", "dlq"}
    BY DEF IInv, TypeOK
  <2>4. place[m] = "queue" => place[m] # "unsent"
    OBVIOUS
  <2> QED
    BY <1>1, <2>1, <2>2, <2>3, <2>4, Inductive, PTL DEF Spec
<1> QED
  BY <1>2 DEF EventuallySettled
=============================================================================
