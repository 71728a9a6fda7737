-------------------------- MODULE DlqReplay_proofs --------------------------
(***************************************************************************)
(* The safety of the replay script for any DLQ, filter, maximum and batch  *)
(* size, any interruptions and any number of runs, and how long a run is.  *)
(***************************************************************************)
EXTENDS DlqReplay, FiniteSetTheorems, TLAPS

\* A pass works on messages of the DLQ, and while it has some it is short of
\* its maximum; only a run that applies gets past the dry run.
PassInv ==
  /\ ~InPass => inbox = {}
  /\ \A m \in inbox : where[m] = "dlq"
  /\ inbox # {} /\ sent = None => matched < MaxMessages
  /\ phase \in {"confirm", "apply"} => apply
  /\ phase # "off" => runs >= 1

\* The message between the two queues.
SentInv ==
  sent # None =>
    /\ phase = "apply"
    /\ sent \in inbox
    /\ copies[sent] >= 1

\* What a run may still send it has sent in earlier runs only.
FreshInv ==
  \A m \in Msgs :
    phase # "off" /\ where[m] # "replayed" /\ m # sent =>
      copies[m] <= SendAttempts * (runs - 1)

\* What the runs may have sent altogether: while one applies, what it has not
\* matched yet is still to its credit.
Allowed ==
  IF phase = "apply" THEN MaxMessages * (grants - 1) + matched ELSE MaxMessages * grants

GrantInv ==
  /\ \A m \in Moved : Matches(m)
  /\ phase = "apply" => grants >= 1
  /\ IsFiniteSet(Moved) /\ Cardinality(Moved) <= Allowed

IInv ==
  /\ TypeOK
  /\ PassInv
  /\ SentInv
  /\ FreshInv
  /\ NothingIsLost
  /\ SentOncePerRun
  /\ GrantInv

\* The sends one more run allows.
LEMMA OneMoreRun ==
  ASSUME NEW r \in Nat
  PROVE  /\ SendAttempts * r \in Nat
         /\ SendAttempts * (r + 1) = SendAttempts * r + SendAttempts
         /\ r >= 1 => SendAttempts * (r - 1) + SendAttempts = SendAttempts * r
         /\ r >= 1 => SendAttempts * (r - 1) \in Nat
<1>1. SendAttempts \in Nat
  BY ReplayAssumption
<1> QED
  BY <1>1, SMT

\* The messages one more grant allows.
LEMMA OneMoreGrant ==
  ASSUME NEW g \in Nat
  PROVE  /\ MaxMessages * g \in Nat
         /\ MaxMessages * (g + 1) = MaxMessages * g + MaxMessages
         /\ g >= 1 => MaxMessages * (g - 1) + MaxMessages = MaxMessages * g
         /\ g >= 1 => MaxMessages * (g - 1) \in Nat
<1>1. MaxMessages \in Nat
  BY ReplayAssumption
<1> QED
  BY <1>1, SMT

LEMMA InitInv == Init => IInv
<1> SUFFICES ASSUME Init PROVE IInv
  OBVIOUS
<1>1. SendAttempts * 0 = 0
  BY ReplayAssumption
<1>2. TypeOK
  <2>1. where \in [Msgs -> {"away", "dlq", "replayed"}]
    BY DEF Init
  <2>2. hidden = {} /\ copies = [m \in Msgs |-> 0] /\ matched = 0 /\ runs = 0 /\ grants = 0
    BY DEF Init
  <2>3. phase = "off" /\ inbox = {} /\ previewed = {} /\ sent = None /\ apply \in BOOLEAN
    BY DEF Init
  <2> QED
    BY <2>1, <2>2, <2>3, ReplayAssumption DEF TypeOK
<1>3. GrantInv
  <2>1. Moved = {}
    BY DEF Init, Moved
  <2>2. Cardinality(Moved) = 0 /\ IsFiniteSet(Moved)
    BY <2>1, FS_EmptySet
  <2>3. Allowed \in Nat
    BY OneMoreGrant DEF Init, Allowed
  <2> QED
    BY <2>1, <2>2, <2>3 DEF Init, GrantInv
<1> QED
  BY <1>1, <1>2, <1>3 DEF Init, IInv, PassInv, SentInv, FreshInv, InPass, NothingIsLost,
     SentOncePerRun

-----------------------------------------------------------------------------
(* One lemma per group of actions.                                         *)

\* What a step does not send is paid for already: an answer of the operator
\* buys MaxMessages, and a pass that ends gives its rest away.
LEMMA GrantKept ==
  ASSUME TypeOK, TypeOK', PassInv, GrantInv,
         \/ Start \/ Stop \/ \E m \in Msgs : Arrive(m) \/ Reappear(m)
         \/ Receive \/ EndPass \/ Confirm \/ Delete
         \/ \E m \in Msgs : Skip(m) \/ Preview(m)
         \/ UNCHANGED vars
  PROVE  GrantInv'
<1>1. copies' = copies
  BY DEF Start, Stop, Arrive, Reappear, Receive, EndPass, Confirm, Delete, Skip, Preview,
     vars, queues
<1>2. Moved' = Moved
  BY <1>1 DEF Moved
<1>3. /\ grants \in Nat /\ matched \in 0..MaxMessages /\ MaxMessages \in Nat
      /\ Cardinality(Moved) \in Nat
  BY ReplayAssumption, FS_CardinalityType DEF TypeOK, GrantInv
<1>4. /\ phase' = "apply" => grants' >= 1
      /\ Allowed' >= Allowed /\ Allowed \in Nat /\ Allowed' \in Nat
  <2>1. /\ phase = "apply" => grants >= 1
        /\ MaxMessages * grants \in Nat
        /\ MaxMessages * (grants + 1) = MaxMessages * grants + MaxMessages
        /\ grants >= 1 => /\ MaxMessages * (grants - 1) + MaxMessages = MaxMessages * grants
                          /\ MaxMessages * (grants - 1) \in Nat
    BY <1>3, OneMoreGrant DEF GrantInv
  <2>2. CASE grants' = grants /\ phase' = phase /\ (phase = "apply" => matched' = matched)
    BY <1>3, <2>1, <2>2 DEF Allowed
  <2>3. CASE grants' = grants /\ phase' # "apply"
    BY <1>3, <2>1, <2>3 DEF Allowed
  <2>4. CASE /\ phase = "confirm" /\ phase' = "apply"
             /\ grants' = grants + 1 /\ matched' = 0
    <3>1. Allowed = MaxMessages * grants /\ Allowed' = MaxMessages * (grants' - 1)
      BY <1>3, <2>1, <2>4 DEF Allowed
    <3>2. grants' - 1 = grants
      BY <1>3, <2>4
    <3> QED
      BY <1>3, <2>1, <2>4, <3>1, <3>2
  <2>5. CASE Confirm
    <3>1. apply
      BY <2>5 DEF Confirm, PassInv
    <3> QED
      BY <1>3, <2>3, <2>4, <2>5, <3>1 DEF Confirm, BeginPass
  <2>6. CASE Start \/ Stop \/ EndPass
    BY <2>3, <2>6 DEF Start, Stop, EndPass, BeginPass, operator
  <2>7. CASE Delete
    BY <2>2, <2>7 DEF Delete, operator
  <2>8. CASE \/ Receive \/ UNCHANGED vars
             \/ \E m \in Msgs : Arrive(m) \/ Reappear(m) \/ Skip(m) \/ Preview(m)
    BY <2>2, <2>8 DEF Receive, Arrive, Reappear, Skip, Preview, vars, operator
  <2> QED
    BY <2>5, <2>6, <2>7, <2>8
<1> QED
  BY <1>2, <1>3, <1>4 DEF GrantInv, Matches

\* Around the script.
LEMMA AroundInv ==
  ASSUME IInv, Start \/ Stop \/ \E m \in Msgs : Arrive(m) \/ Reappear(m)
  PROVE  IInv'
<1> USE ReplayAssumption
<1>1. ASSUME NEW m \in Msgs, Arrive(m) PROVE IInv'
  <2>1. TypeOK'
    BY <1>1 DEF IInv, TypeOK, Arrive, operator
  <2>2. GrantInv'
    BY <1>1, <2>1, GrantKept DEF IInv
  <2> QED
    BY <1>1, <2>1, <2>2 DEF IInv, TypeOK, Arrive, operator, PassInv, SentInv, FreshInv,
       InPass, NothingIsLost, SentOncePerRun
<1>2. ASSUME NEW m \in Msgs, Reappear(m) PROVE IInv'
  <2>1. TypeOK'
    BY <1>2 DEF IInv, TypeOK, Reappear, operator
  <2>2. GrantInv'
    BY <1>2, <2>1, GrantKept DEF IInv
  <2> QED
    BY <1>2, <2>1, <2>2 DEF IInv, TypeOK, Reappear, operator, PassInv, SentInv, FreshInv,
       InPass, NothingIsLost, SentOncePerRun
<1>3. ASSUME Start PROVE IInv'
  <2> USE <1>3
  <2>1. TypeOK'
    BY DEF IInv, TypeOK, Start, BeginPass, queues
  <2>2. PassInv' /\ SentInv'
    BY DEF IInv, TypeOK, Start, BeginPass, queues, PassInv, SentInv, InPass
  <2>3. FreshInv' /\ SentOncePerRun'
    BY OneMoreRun DEF IInv, TypeOK, Start, BeginPass, queues, FreshInv, SentOncePerRun
  <2>4. GrantInv'
    BY <2>1, GrantKept DEF IInv
  <2> QED
    BY <2>1, <2>2, <2>3, <2>4 DEF IInv, Start, queues, NothingIsLost
<1>4. ASSUME Stop PROVE IInv'
  <2>1. TypeOK'
    BY <1>4 DEF IInv, TypeOK, Stop, queues, operator
  <2>2. GrantInv'
    BY <1>4, <2>1, GrantKept DEF IInv
  <2> QED
    BY <1>4, <2>1, <2>2 DEF IInv, TypeOK, Stop, queues, operator, PassInv, SentInv,
       FreshInv, InPass, NothingIsLost, SentOncePerRun
<1> QED
  BY <1>1, <1>2, <1>3, <1>4

\* The steps of the script that leave the queues' content alone.
LEMMA ReadingInv ==
  ASSUME IInv,
         \/ Receive \/ EndPass \/ Confirm
         \/ \E m \in Msgs : Skip(m) \/ Preview(m)
  PROVE  IInv'
<1> USE ReplayAssumption
<1>1. UNCHANGED <<where, copies, sent, runs>>
  BY DEF Receive, EndPass, Confirm, Skip, Preview, queues, operator
<1>2. phase # "off"
  BY DEF Receive, EndPass, Confirm, Skip, Preview, InPass
<1>3. NothingIsLost' /\ SentOncePerRun' /\ FreshInv'
  BY <1>1, <1>2 DEF IInv, NothingIsLost, SentOncePerRun, FreshInv
<1>4. TypeOK' /\ PassInv' /\ SentInv'
  <2>1. CASE Receive
    BY <2>1 DEF IInv, TypeOK, Receive, operator, Visible, PassInv, SentInv, InPass
  <2>2. CASE EndPass
    BY <2>2 DEF IInv, TypeOK, EndPass, queues, operator, PassInv, SentInv, InPass
  <2>3. CASE Confirm
    BY <2>3 DEF IInv, TypeOK, Confirm, BeginPass, queues, PassInv, SentInv, InPass
  <2>4. ASSUME NEW m \in Msgs, Skip(m) PROVE TypeOK' /\ PassInv' /\ SentInv'
    BY <2>4 DEF IInv, TypeOK, Skip, queues, operator, PassInv, SentInv, InPass
  <2>5. ASSUME NEW m \in Msgs, Preview(m) PROVE TypeOK' /\ PassInv' /\ SentInv'
    BY <2>5 DEF IInv, TypeOK, Preview, DoneWith, queues, operator, PassInv, SentInv,
       InPass
  <2> QED
    BY <2>1, <2>2, <2>3, <2>4, <2>5
<1>5. GrantInv'
  BY <1>4, GrantKept DEF IInv
<1> QED
  BY <1>3, <1>4, <1>5 DEF IInv

\* A message is sent: earlier runs sent it SendAttempts times each at most.
LEMMA SendInv ==
  ASSUME IInv, NEW m \in Msgs, Send(m)
  PROVE  IInv'
<1> USE ReplayAssumption
<1>1. PICK n \in 1..SendAttempts : copies' = [copies EXCEPT ![m] = @ + n]
  BY DEF Send
<1>2. /\ phase = "apply" /\ phase' = phase /\ runs' = runs /\ where' = where
      /\ sent = None /\ sent' = m /\ m \in inbox /\ inbox' = inbox
      /\ matched' = matched + 1 /\ Matches(m) /\ grants' = grants
  BY DEF Send, operator
<1>3. /\ runs \in Nat /\ runs >= 1 /\ where[m] = "dlq" /\ matched < MaxMessages
      /\ apply /\ m # None
  BY <1>2 DEF IInv, TypeOK, PassInv
<1>4. /\ copies'[m] = copies[m] + n
      /\ \A k \in Msgs \ {m} : copies'[k] = copies[k]
      /\ copies' \in [Msgs -> Nat]
  BY <1>1 DEF IInv, TypeOK
<1>5. TypeOK'
  BY <1>2, <1>3, <1>4 DEF IInv, TypeOK, Send, operator
<1>6. PassInv' /\ SentInv'
  BY <1>2, <1>3, <1>4 DEF IInv, TypeOK, Send, operator, PassInv, SentInv, InPass
<1>7. FreshInv' /\ SentOncePerRun'
  <2>1. copies[m] <= SendAttempts * (runs - 1)
    BY <1>2, <1>3 DEF IInv, FreshInv
  <2>2. copies'[m] <= SendAttempts * runs
    BY <2>1, <1>3, <1>4, OneMoreRun DEF IInv, TypeOK
  <2> QED
    BY <2>2, <1>2, <1>3, <1>4 DEF IInv, FreshInv, SentOncePerRun
<1>8. NothingIsLost'
  BY <1>2, <1>3, <1>4 DEF IInv, TypeOK, NothingIsLost
<1>9. GrantInv'
  <2>1. Moved' = Moved \cup {m}
    BY <1>4 DEF IInv, TypeOK, Moved
  <2>2. /\ grants \in Nat /\ grants >= 1 /\ matched \in Nat /\ MaxMessages \in Nat
        /\ IsFiniteSet(Moved) /\ Cardinality(Moved) <= Allowed
        /\ Cardinality(Moved) \in Nat
    BY <1>2, FS_CardinalityType DEF IInv, TypeOK, GrantInv
  <2>3. Allowed \in Nat /\ Allowed' = Allowed + 1
    BY <1>2, <2>2, OneMoreGrant DEF Allowed
  <2>4. IsFiniteSet(Moved') /\ Cardinality(Moved') <= Cardinality(Moved) + 1
    <3>1. /\ IsFiniteSet(Moved \cup {m})
          /\ \/ Cardinality(Moved \cup {m}) = Cardinality(Moved)
             \/ Cardinality(Moved \cup {m}) = Cardinality(Moved) + 1
      BY <2>2, FS_AddElement
    <3> QED
      BY <2>1, <2>2, <3>1
  <2>5. \A k \in Moved' : Matches(k)'
    BY <1>2, <2>1 DEF IInv, GrantInv, Matches
  <2>6. Cardinality(Moved') <= Allowed'
    BY <2>2, <2>3, <2>4, FS_CardinalityType
  <2> QED
    BY <1>2, <2>2, <2>4, <2>5, <2>6 DEF GrantInv
<1> QED
  BY <1>5, <1>6, <1>7, <1>8, <1>9 DEF IInv

\* It leaves the DLQ, having been sent.
LEMMA DeleteInv ==
  ASSUME IInv, Delete
  PROVE  IInv'
<1> USE ReplayAssumption
<1>1. /\ sent \in Msgs /\ sent \in inbox /\ copies[sent] >= 1 /\ phase = "apply"
      /\ sent # None
  BY DEF IInv, TypeOK, SentInv, Delete
<1>2. /\ where'[sent] = "replayed" /\ \A k \in Msgs \ {sent} : where'[k] = where[k]
      /\ where' \in [Msgs -> {"away", "dlq", "replayed"}]
  BY <1>1 DEF IInv, TypeOK, Delete
<1>3. /\ sent' = None /\ copies' = copies /\ phase' = phase /\ runs' = runs
      /\ matched' = matched /\ hidden' = hidden \ {sent}
      /\ previewed' = previewed /\ apply' = apply /\ grants' = grants
      /\ inbox' \subseteq inbox \ {sent} /\ (inbox' # {} => matched < MaxMessages)
  BY DEF Delete, DoneWith, operator, IInv, TypeOK
<1>4. TypeOK'
  BY <1>1, <1>2, <1>3 DEF IInv, TypeOK
<1>5. PassInv' /\ SentInv'
  BY <1>1, <1>2, <1>3 DEF IInv, TypeOK, PassInv, SentInv, InPass
<1>6. FreshInv' /\ SentOncePerRun'
  BY <1>1, <1>2, <1>3 DEF IInv, FreshInv, SentOncePerRun
<1>7. NothingIsLost'
  BY <1>1, <1>2, <1>3 DEF IInv, NothingIsLost
<1>8. GrantInv'
  BY <1>4, GrantKept DEF IInv
<1> QED
  BY <1>4, <1>5, <1>6, <1>7, <1>8 DEF IInv

LEMMA NextInv == IInv /\ [Next]_vars => IInv'
<1> SUFFICES ASSUME IInv, [Next]_vars PROVE IInv'
  OBVIOUS
<1>1. CASE Start \/ Stop \/ \E m \in Msgs : Arrive(m) \/ Reappear(m)
  BY <1>1, AroundInv
<1>2. CASE \/ Receive \/ EndPass \/ Confirm
           \/ \E m \in Msgs : Skip(m) \/ Preview(m)
  BY <1>2, ReadingInv
<1>3. CASE Delete
  BY <1>3, DeleteInv
<1>4. CASE \E m \in Msgs : Send(m)
  BY <1>4, SendInv
<1>5. CASE UNCHANGED vars
  <2>1. TypeOK'
    BY <1>5 DEF vars, queues, operator, IInv, TypeOK
  <2>2. GrantInv'
    BY <1>5, <2>1, GrantKept DEF IInv
  <2> QED
    BY <1>5, <2>1, <2>2 DEF vars, queues, operator, IInv, PassInv, SentInv, FreshInv,
       InPass, NothingIsLost, SentOncePerRun
<1> QED
  BY <1>1, <1>2, <1>3, <1>4, <1>5 DEF Next, Script

LEMMA Inductive == Spec => []IInv
BY InitInv, NextInv, PTL DEF Spec

-----------------------------------------------------------------------------
\* Every variable keeps its type; in particular a pass never matches more
\* messages than --max, in whatever batches they come (dlq-replay.py:87-123).
THEOREM TypeCorrect == Spec => []TypeOK
<1>1. IInv => TypeOK
  BY DEF IInv
<1> QED
  BY Inductive, <1>1, PTL

\* Send before delete: wherever the script is interrupted, a message that left
\* the DLQ is on the main queue (dlq-replay.py:81-83).
THEOREM LosesNothing == Spec => []NothingIsLost
<1>1. IInv => NothingIsLost
  BY DEF IInv
<1> QED
  BY Inductive, <1>1, PTL

\* However many runs, answers and interruptions: only what the filter matches
\* is ever sent, and of that no more than --max for each run with --apply that
\* the operator let go on (dlq-replay.py:87-123, 182-194).
THEOREM MovesAreGranted == Spec => []OnlyGrantedMove
<1>1. IInv => OnlyGrantedMove
  <2> SUFFICES ASSUME IInv PROVE OnlyGrantedMove
    OBVIOUS
  <2>1. /\ grants \in Nat /\ matched \in 0..MaxMessages /\ MaxMessages \in Nat
        /\ Cardinality(Moved) \in Nat
    BY ReplayAssumption, FS_CardinalityType DEF IInv, TypeOK, GrantInv
  <2>2. Cardinality(Moved) <= MaxMessages * grants
    BY <2>1, OneMoreGrant DEF IInv, GrantInv, Allowed
  <2> QED
    BY <2>2 DEF IInv, GrantInv, OnlyGrantedMove
<1> QED
  BY Inductive, <1>1, PTL

\* Copies beyond the first come from interrupted runs and repeated requests
\* only, even when a message reappears before the script is done with it.
THEOREM DuplicatesNeedRuns == Spec => []SentOncePerRun
<1>1. IInv => SentOncePerRun
  BY DEF IInv
<1> QED
  BY Inductive, <1>1, PTL

-----------------------------------------------------------------------------
(* What the operator was shown.                                            *)

\* The dry run hides nothing, so that what it showed is still visible when the
\* apply pass begins; that pass hides only what its loop will come to.
ShownInv ==
  /\ phase # "off" => \A m \in previewed : Matches(m) /\ where[m] # "away"
  /\ phase \in {"preview", "confirm"} => previewed \cap hidden = {}
  /\ phase = "preview" => inbox \cap hidden = {}
  /\ phase = "apply" /\ matched < MaxMessages => previewed \cap hidden \subseteq inbox

LEMMA ShownStep ==
  ASSUME IInv, ShownInv, [Next]_vars
  PROVE  ShownInv'
<1> USE ReplayAssumption DEF IInv, TypeOK, ShownInv, queues
<1>1. CASE Start \/ Stop
  BY <1>1 DEF Start, Stop, BeginPass
<1>2. ASSUME NEW m \in Msgs, Arrive(m) \/ Reappear(m) PROVE ShownInv'
  BY <1>2 DEF Arrive, Reappear, Matches
<1>3. CASE Receive
  <2>1. PICK S \in SUBSET Visible :
          /\ inbox' = S
          /\ hidden' = IF phase = "apply" THEN hidden \cup S ELSE hidden
    BY <1>3 DEF Receive
  <2>2. UNCHANGED <<where, phase, matched, previewed>> /\ inbox = {} /\ matched < MaxMessages
    BY <1>3 DEF Receive
  <2>3. S \cap hidden = {}
    BY DEF Visible
  <2> QED
    BY <2>1, <2>2, <2>3 DEF Matches
<1>4. CASE EndPass
  BY <1>4 DEF EndPass, InPass, Matches
<1>5. CASE Confirm
  BY <1>5 DEF Confirm, BeginPass, Matches
<1>6. ASSUME NEW m \in Msgs, Skip(m) PROVE ShownInv'
  BY <1>6 DEF Skip, InPass, Matches
<1>7. ASSUME NEW m \in Msgs, Preview(m) PROVE ShownInv'
  <2>1. where[m] = "dlq" /\ m \notin hidden
    BY <1>7 DEF Preview, PassInv
  <2> QED
    BY <1>7, <2>1 DEF Preview, DoneWith, Matches
<1>8. ASSUME NEW m \in Msgs, Send(m) PROVE ShownInv'
  BY <1>8 DEF Send, Matches
<1>9. CASE Delete
  <2>1. phase = "apply" /\ sent \in Msgs
    BY <1>9 DEF Delete, SentInv
  <2> QED
    BY <1>9, <2>1 DEF Delete, DoneWith, Matches
<1>10. CASE UNCHANGED vars
  BY <1>10 DEF vars, Matches
<1> QED
  BY <1>1, <1>2, <1>3, <1>4, <1>5, <1>6, <1>7, <1>8, <1>9, <1>10 DEF Next, Script

\* An apply pass that runs dry before its maximum leaves nothing behind that
\* the dry run showed, whatever arrives, reappears or was interrupted before
\* (dlq-replay.py:79-81).
THEOREM ShownMeansMoved == Spec => []AllPreviewedMoved
<1>1. Init => ShownInv
  BY DEF Init, ShownInv
<1>2. IInv /\ ShownInv /\ [Next]_vars => ShownInv'
  BY ShownStep
<1>3. IInv /\ ShownInv => AllPreviewedMoved
  <2> SUFFICES ASSUME IInv, ShownInv, phase = "apply", inbox = {}, Visible = {},
                      matched < MaxMessages, NEW m \in previewed
               PROVE  where[m] = "replayed"
    BY DEF AllPreviewedMoved
  <2>1. m \in Msgs /\ where[m] \in {"dlq", "replayed"} /\ m \notin hidden
    BY DEF IInv, TypeOK, ShownInv
  <2> QED
    BY <2>1 DEF Visible
<1> QED
  BY <1>1, <1>2, <1>3, Inductive, PTL DEF Spec

-----------------------------------------------------------------------------
(* How long a run lasts.                                                   *)

\* An upper bound of the steps a pass takes, and one of the steps a run has
\* left: the passes to come, then of this pass three steps for each message
\* it may still match, the delete after a send and the next receive.
PassLength == 3 * MaxMessages + 4

PassesLeft ==
  CASE phase = "preview" -> 3 * PassLength
    [] phase = "confirm" -> 2 * PassLength
    [] phase = "apply"   -> PassLength
    [] phase = "off"     -> 0

InThisPass ==
  IF ~InPass THEN 0
  ELSE 3 * (MaxMessages - matched)
       + (IF sent # None THEN 2 ELSE IF inbox = {} THEN 1 ELSE 0)

StepsLeft == PassesLeft + InThisPass

\* While the filter has nothing to pass over, each step of the script brings
\* the run nearer to its end, and nothing around the script takes it back.
RunsDown ==
  /\ NothingToSkip /\ Script => StepsLeft' < StepsLeft
  /\ NothingToSkip /\ phase # "off" => StepsLeft' <= StepsLeft

Measured ==
  /\ PassLength \in Nat /\ PassLength = 3 * MaxMessages + 4
  /\ PassesLeft \in Nat /\ PassesLeft <= 3 * PassLength
  /\ InThisPass \in Nat /\ InThisPass < PassLength
  /\ StepsLeft \in 0..(4 * PassLength)

LEMMA StepsLeftRange == TypeOK => Measured
<1> SUFFICES ASSUME TypeOK PROVE Measured
  OBVIOUS
<1>1. PassLength \in Nat /\ PassLength = 3 * MaxMessages + 4
  BY ReplayAssumption DEF PassLength
<1>2. PassesLeft \in {0, PassLength, 2 * PassLength, 3 * PassLength}
  BY DEF TypeOK, PassesLeft
<1>3. InThisPass \in 0..(3 * MaxMessages + 2)
  <2>1. MaxMessages - matched \in 0..MaxMessages
    BY ReplayAssumption DEF TypeOK
  <2> QED
    BY <2>1, ReplayAssumption DEF InThisPass
<1>4. PassesLeft \in Nat /\ PassesLeft <= 3 * PassLength
  BY <1>1, <1>2
<1> QED
  BY <1>1, <1>3, <1>4, ReplayAssumption DEF StepsLeft, Measured

\* The passes to come count for more than any pass.
LEMMA ScriptDescends ==
  ASSUME IInv, IInv', NothingToSkip, Script
  PROVE  StepsLeft' < StepsLeft
<1> USE ReplayAssumption
<1>1. Measured /\ Measured'
  <2>1. TypeOK' => Measured'
    BY StepsLeftRange, PTL
  <2> QED
    BY <2>1, StepsLeftRange DEF IInv
<1>2. /\ PassLength' = PassLength /\ PassLength \in Nat /\ PassLength > 0
      /\ InThisPass \in Nat /\ InThisPass < PassLength
      /\ InThisPass' \in Nat /\ InThisPass' < PassLength
  BY <1>1 DEF Measured, PassLength
<1>3. /\ TypeOK /\ PassInv /\ SentInv /\ TypeOK' /\ PassInv' /\ SentInv'
  BY DEF IInv
\* Between two passes.
<1>4. CASE EndPass
  <2>1. \/ phase = "preview" /\ phase' \in {"confirm", "off"}
        \/ phase = "apply" /\ phase' = "off"
    BY <1>4 DEF EndPass, InPass
  <2>2. InThisPass' = 0
    BY <2>1 DEF InThisPass, InPass
  <2> QED
    BY <1>2, <2>1, <2>2 DEF StepsLeft, PassesLeft
<1>5. CASE Confirm
  <2>1. phase = "confirm" /\ phase' \in {"apply", "off"}
    BY <1>5 DEF Confirm, BeginPass
  <2>2. InThisPass = 0
    BY <2>1 DEF InThisPass, InPass
  <2> QED
    BY <1>2, <2>1, <2>2 DEF StepsLeft, PassesLeft
\* Within one.
<1>6. ASSUME phase' = phase, InThisPass' < InThisPass
      PROVE  StepsLeft' < StepsLeft
  <2>1. PassesLeft' = PassesLeft /\ PassesLeft \in Nat
    BY <1>1, <1>2, <1>6 DEF PassesLeft, Measured
  <2>2. \A p, a, b \in Nat : a < b => p + a < p + b
    OBVIOUS
  <2>3. PassesLeft + InThisPass' < PassesLeft + InThisPass
    BY <1>2, <1>6, <2>1, <2>2
  <2> QED
    BY <2>1, <2>3 DEF StepsLeft
<1>7. CASE Receive
  <2>1. phase' = phase /\ InThisPass' < InThisPass
    BY <1>7, <1>3 DEF Receive, InThisPass, InPass, TypeOK
  <2> QED
    BY <1>6, <2>1
<1>8. CASE Delete
  <2>1. phase' = phase /\ InThisPass' < InThisPass
    BY <1>8, <1>3 DEF Delete, InThisPass, InPass, TypeOK, SentInv
  <2> QED
    BY <1>6, <2>1
<1>9. ASSUME NEW m \in Msgs, Preview(m)
      PROVE  StepsLeft' < StepsLeft
  <2>1. phase' = phase /\ InThisPass' < InThisPass
    BY <1>9, <1>3 DEF Preview, InThisPass, InPass, TypeOK, SentInv
  <2> QED
    BY <1>6, <2>1
<1>10. ASSUME NEW m \in Msgs, Send(m)
       PROVE  StepsLeft' < StepsLeft
  <2>1. phase' = phase /\ InThisPass' < InThisPass
    BY <1>10, <1>3 DEF Send, InThisPass, InPass, TypeOK
  <2> QED
    BY <1>6, <2>1
<1>11. ASSUME NEW m \in Msgs, Skip(m)
       PROVE  FALSE
  BY <1>11, <1>3 DEF Skip, NothingToSkip, PassInv
<1> QED
  BY <1>4, <1>5, <1>7, <1>8, <1>9, <1>10, <1>11 DEF Script

\* Around the script: it starts when it is off and stops for good.
LEMMA AroundDescends ==
  ASSUME IInv, IInv', phase # "off",
         \/ Start \/ Stop \/ UNCHANGED vars
         \/ \E m \in Msgs : Arrive(m) \/ Reappear(m)
  PROVE  StepsLeft' <= StepsLeft
<1>1. StepsLeft \in Nat
  BY StepsLeftRange DEF IInv, Measured
<1>2. ~Start
  BY DEF Start
<1>3. CASE Stop
  <2>1. PassesLeft' = 0 /\ InThisPass' = 0
    BY <1>3 DEF Stop, PassesLeft, InThisPass, InPass
  <2> QED
    BY <1>1, <2>1 DEF StepsLeft
<1>4. CASE ~Stop
  <2>1. UNCHANGED <<phase, inbox, matched, sent>>
    BY <1>2, <1>4 DEF vars, Arrive, Reappear
  <2>2. PassesLeft' = PassesLeft /\ InThisPass' = InThisPass
    BY <2>1 DEF PassesLeft, InThisPass, InPass, PassLength
  <2> QED
    BY <1>1, <2>2 DEF StepsLeft
<1> QED
  BY <1>3, <1>4

\* A run whose filter matches all there is takes at most four pass lengths of
\* steps, whatever arrives and reappears meanwhile: what is visible again at
\* once in the dry run still counts against --max (dlq-replay.py:87-123).
THEOREM RunIsShort ==
  Spec => [](StepsLeft \in 0..(4 * PassLength)) /\ [][RunsDown]_vars
<1>1. IInv => StepsLeft \in 0..(4 * PassLength)
  BY StepsLeftRange DEF IInv, Measured
<1>2. IInv /\ IInv' /\ [Next]_vars => RunsDown
  <2> SUFFICES ASSUME IInv, IInv', [Next]_vars
               PROVE  RunsDown
    OBVIOUS
  <2>1. NothingToSkip /\ Script => StepsLeft' < StepsLeft
    BY ScriptDescends
  <2>2. ASSUME NothingToSkip, phase # "off"
        PROVE  StepsLeft' <= StepsLeft
    <3>1. CASE Script
      <4>1. StepsLeft \in Nat /\ StepsLeft' \in Nat
        <5>1. TypeOK' => Measured'
          BY StepsLeftRange, PTL
        <5> QED
          BY <5>1, StepsLeftRange DEF IInv, Measured
      <4> QED
        BY <2>1, <2>2, <3>1, <4>1
    <3>2. CASE ~Script
      BY <2>2, <3>2, AroundDescends DEF Next
    <3> QED
      BY <3>1, <3>2
  <2> QED
    BY <2>1, <2>2 DEF RunsDown
<1> QED
  BY <1>1, <1>2, Inductive, PTL DEF Spec

\* The guards of the script's actions, one disjunct per action.
CanGoOn ==
  \/ /\ InPass /\ inbox = {} /\ sent = None /\ matched < MaxMessages
     /\ \E S \in SUBSET Visible :
          S # {} /\ Cardinality(S) <= SmallerOf(ReceiveBatch, MaxMessages - matched)
  \/ sent # None
  \/ InPass /\ inbox = {} /\ sent = None /\ (matched >= MaxMessages \/ Visible = {})
  \/ phase = "confirm"
  \/ \E m \in Msgs :
       \/ InPass /\ sent = None /\ m \in inbox /\ ~Matches(m)
       \/ phase = "preview" /\ m \in inbox /\ Matches(m)
       \/ phase = "apply" /\ sent = None /\ m \in inbox /\ Matches(m)

\* A started script is never without a next step, also where it passes over
\* messages: it does not wait for itself, and it is "off" only at its end.
THEOREM ScriptGoesOn == Spec => [](phase # "off" => CanGoOn)
<1>1. IInv /\ phase # "off" => CanGoOn
  <2> SUFFICES ASSUME IInv, phase # "off" PROVE CanGoOn
    OBVIOUS
  <2> USE ReplayAssumption
  <2>1. TypeOK /\ PassInv /\ SentInv
    BY DEF IInv
  <2>2. CASE sent # None \/ phase = "confirm"
    BY <2>2 DEF CanGoOn
  <2>3. CASE InPass /\ sent = None /\ inbox # {}
    <3>1. PICK m \in Msgs : m \in inbox
      BY <2>1, <2>3 DEF TypeOK
    <3> QED
      BY <2>3, <3>1 DEF CanGoOn, InPass
  <2>4. CASE /\ InPass /\ sent = None /\ inbox = {}
             /\ matched >= MaxMessages \/ Visible = {}
    BY <2>4 DEF CanGoOn
  <2>5. CASE InPass /\ sent = None /\ inbox = {} /\ matched < MaxMessages /\ Visible # {}
    <3>1. PICK m : m \in Visible
      BY <2>5
    <3>2. {m} \in SUBSET Visible /\ {m} # {} /\ Cardinality({m}) = 1
      BY <3>1, FS_Singleton
    <3>3. 1 <= SmallerOf(ReceiveBatch, MaxMessages - matched)
      BY <2>1, <2>5 DEF TypeOK, SmallerOf
    <3>4. Cardinality({m}) <= SmallerOf(ReceiveBatch, MaxMessages - matched)
      BY <3>2, <3>3
    <3>5. \E S \in SUBSET Visible :
            S # {} /\ Cardinality(S) <= SmallerOf(ReceiveBatch, MaxMessages - matched)
      BY <3>2, <3>4, Zenon
    <3> QED
      BY <2>5, <3>5 DEF CanGoOn
  <2> QED
    BY <2>1, <2>2, <2>3, <2>4, <2>5 DEF TypeOK, InPass
<1> QED
  BY <1>1, Inductive, PTL
=============================================================================
