----------------------------- MODULE DlqReplay -----------------------------
(***************************************************************************)
(* scripts/dlq-replay.py: the operator's script that moves messages from   *)
(* the dead-letter queue back to the main queue, a dry-run pass first and  *)
(* an apply pass after a confirmation.  Meanwhile messages arrive in the   *)
(* DLQ, received ones become visible again after their timeout, calls into *)
(* SQS fail and the script is interrupted and started again.               *)
(*                                                                         *)
(* A receive returns something whenever something is visible: it is a long *)
(* poll.  The counters that are only printed are left out.                 *)
(***************************************************************************)
EXTENDS Naturals, FiniteSets

CONSTANTS
  Msgs,           \* the messages that are or come into the DLQ
  Asked,          \* those whose event has the --filter string
  Readable,       \* those whose body is the bare event text, not base64
  MaxMessages,    \* --max
  ReceiveBatch,   \* _RECEIVE_BATCH
  SendAttempts,   \* requests boto3 makes for one send_message
  MaxRuns,        \* named bound: how often the script is started
  None            \* the value of sent when no message is between two queues

ASSUME ReplayAssumption ==
  /\ Asked \subseteq Msgs /\ Readable \subseteq Msgs
  /\ MaxMessages \in Nat /\ ReceiveBatch \in Nat \ {0}
  /\ SendAttempts \in Nat \ {0} /\ MaxRuns \in Nat
  /\ None \notin Msgs

VARIABLES
  where,     \* of each message: "away", "dlq" or "replayed"
  hidden,    \* messages in the DLQ that a receive has made invisible
  copies,    \* copies of each message sent to the main queue
  phase,     \* "off", "preview", "confirm" or "apply"
  inbox,     \* received messages the for loop has not reached
  matched,   \* result.matched of the pass
  previewed, \* history: the messages the dry-run pass matched
  sent,      \* the message that was sent and is not deleted yet
  runs,      \* starts of the script
  apply,     \* --apply of the run
  grants     \* history: runs with --apply that the operator let go on

queues == <<where, hidden, copies>>
operator == <<runs, apply, grants>>
vars == <<queues, phase, inbox, matched, previewed, sent, operator>>

TypeOK ==
  /\ where \in [Msgs -> {"away", "dlq", "replayed"}]
  /\ hidden \subseteq {m \in Msgs : where[m] = "dlq"}
  /\ copies \in [Msgs -> Nat]
  /\ phase \in {"off", "preview", "confirm", "apply"}
  /\ inbox \subseteq Msgs
  /\ matched \in 0..MaxMessages
  /\ previewed \subseteq Msgs
  /\ sent \in Msgs \cup {None}
  /\ runs \in 0..MaxRuns
  /\ apply \in BOOLEAN /\ grants \in Nat

Init ==
  /\ where \in [Msgs -> {"away", "dlq"}]
  /\ hidden = {}
  /\ copies = [m \in Msgs |-> 0]
  /\ phase = "off"
  /\ inbox = {}
  /\ matched = 0
  /\ previewed = {}
  /\ sent = None
  /\ runs = 0 /\ apply = FALSE /\ grants = 0

\* The filter is looked for in the body as SQS holds it.
Matches(m) == m \in Asked \cap Readable

Visible == {m \in Msgs : where[m] = "dlq"} \ hidden

-----------------------------------------------------------------------------
(* Around the script.                                                      *)

Arrive(m) ==
  /\ where[m] = "away"
  /\ where' = [where EXCEPT ![m] = "dlq"]
  /\ UNCHANGED <<hidden, copies, phase, inbox, matched, previewed, sent, operator>>

Reappear(m) ==
  /\ m \in hidden
  /\ hidden' = hidden \ {m}
  /\ UNCHANGED <<where, copies, phase, inbox, matched, previewed, sent, operator>>

\* A new pass of replay().
BeginPass(p) == phase' = p /\ inbox' = {} /\ matched' = 0

Start ==
  /\ phase = "off" /\ runs < MaxRuns
  /\ runs' = runs + 1
  /\ apply' \in BOOLEAN
  /\ BeginPass("preview")
  /\ previewed' = {}
  /\ UNCHANGED <<queues, sent, grants>>

\* Interrupted, or an exception from SQS.
Stop ==
  /\ phase # "off"
  /\ phase' = "off" /\ inbox' = {} /\ sent' = None
  /\ UNCHANGED <<queues, matched, previewed, operator>>

-----------------------------------------------------------------------------
(* replay().                                                               *)

InPass == phase \in {"preview", "apply"}

SmallerOf(a, b) == IF a < b THEN a ELSE b

\* Broken: the dry run parks what it receives, too.
BrokenReceive ==
  /\ InPass /\ inbox = {} /\ sent = None
  /\ matched < MaxMessages
  /\ \E S \in SUBSET Visible :
       /\ S # {} /\ Cardinality(S) <= SmallerOf(ReceiveBatch, MaxMessages - matched)
       /\ inbox' = S
       /\ hidden' = hidden \cup S
  /\ UNCHANGED <<where, copies, phase, matched, previewed, sent, operator>>

\* Only the apply pass hides what it receives.
Receive ==
  /\ InPass /\ inbox = {} /\ sent = None
  /\ matched < MaxMessages
  /\ \E S \in SUBSET Visible :
       /\ S # {} /\ Cardinality(S) <= SmallerOf(ReceiveBatch, MaxMessages - matched)
       /\ inbox' = S
       /\ hidden' = IF phase = "apply" THEN hidden \cup S ELSE hidden
  /\ UNCHANGED <<where, copies, phase, matched, previewed, sent, operator>>

Skip(m) ==
  /\ InPass /\ sent = None
  /\ m \in inbox /\ ~Matches(m)
  /\ inbox' = inbox \ {m}
  /\ UNCHANGED <<queues, phase, matched, previewed, sent, operator>>

\* The loop is done with m; at the maximum it drops the rest of the batch.
DoneWith(m) == inbox' = IF matched' >= MaxMessages THEN {} ELSE inbox \ {m}

\* Broken: the dry run does not count.
BrokenPreview(m) ==
  /\ phase = "preview"
  /\ m \in inbox /\ Matches(m)
  /\ matched' = matched
  /\ previewed' = previewed \cup {m}
  /\ DoneWith(m)
  /\ UNCHANGED <<queues, phase, sent, operator>>

Preview(m) ==
  /\ phase = "preview"
  /\ m \in inbox /\ Matches(m)
  /\ matched' = matched + 1
  /\ previewed' = previewed \cup {m}
  /\ DoneWith(m)
  /\ UNCHANGED <<queues, phase, sent, operator>>

\* Broken: requests are counted where messages should be.
BrokenCount(m) ==
  /\ phase = "apply" /\ sent = None
  /\ m \in inbox /\ Matches(m)
  /\ \E n \in 1..SendAttempts :
       copies' = [copies EXCEPT ![m] = @ + n] /\ matched' = matched + n
  /\ sent' = m
  /\ UNCHANGED <<where, hidden, phase, inbox, previewed, operator>>

\* Broken: the message leaves the DLQ before it is sent, and is sent never.
BrokenOrder(m) ==
  /\ phase = "apply" /\ sent = None
  /\ m \in inbox /\ Matches(m)
  /\ matched' = matched + 1
  /\ where' = [where EXCEPT ![m] = "replayed"]
  /\ hidden' = hidden \ {m}
  /\ sent' = m
  /\ UNCHANGED <<copies, phase, inbox, previewed, operator>>

Send(m) ==
  /\ phase = "apply" /\ sent = None
  /\ m \in inbox /\ Matches(m)
  /\ matched' = matched + 1
  /\ \E n \in 1..SendAttempts : copies' = [copies EXCEPT ![m] = @ + n]
  /\ sent' = m
  /\ UNCHANGED <<where, hidden, phase, inbox, previewed, operator>>

\* Broken: the message stays in the DLQ.
BrokenDelete ==
  /\ sent # None
  /\ sent' = None
  /\ hidden' = hidden
  /\ matched' = matched
  /\ DoneWith(sent)
  /\ UNCHANGED <<where, copies, phase, previewed, operator>>

Delete ==
  /\ sent # None
  /\ where' = [where EXCEPT ![sent] = "replayed"]
  /\ hidden' = hidden \ {sent}
  /\ sent' = None
  /\ matched' = matched
  /\ DoneWith(sent)
  /\ UNCHANGED <<copies, phase, previewed, operator>>

\* Broken: the run goes on whether --apply was given or not.
BrokenEndPass ==
  /\ InPass /\ inbox = {} /\ sent = None
  /\ matched >= MaxMessages \/ Visible = {}
  /\ phase' = IF phase = "preview" /\ matched > 0 THEN "confirm" ELSE "off"
  /\ UNCHANGED <<queues, inbox, matched, previewed, sent, operator>>

\* The pass is over; main() goes on.
EndPass ==
  /\ InPass /\ inbox = {} /\ sent = None
  /\ matched >= MaxMessages \/ Visible = {}
  /\ phase' = IF phase = "preview" /\ apply /\ matched > 0 THEN "confirm" ELSE "off"
  /\ UNCHANGED <<queues, inbox, matched, previewed, sent, operator>>

\* The operator answers, or --yes answers for him.
Confirm ==
  /\ phase = "confirm"
  /\ \/ BeginPass("apply") /\ grants' = grants + (IF apply THEN 1 ELSE 0)
     \/ phase' = "off" /\ UNCHANGED <<inbox, matched, grants>>
  /\ UNCHANGED <<queues, previewed, sent, runs, apply>>

Script ==
  \/ Receive \/ Delete \/ EndPass \/ Confirm
  \/ \E m \in Msgs : Skip(m) \/ Preview(m) \/ Send(m)

Next ==
  \/ Start \/ Script \/ Stop
  \/ \E m \in Msgs : Arrive(m) \/ Reappear(m)

Spec == Init /\ [][Next]_vars

\* A started script keeps running until it ends or is stopped.
FairSpec == Spec /\ WF_vars(Script)

-----------------------------------------------------------------------------
(* Properties.                                                             *)

\* A message leaves the DLQ only after it was sent: an interrupted run loses
\* nothing (dlq-replay.py:81-83).
NothingIsLost == \A m \in Msgs : where[m] = "replayed" => copies[m] >= 1

\* Nothing moves that the filter leaves out, and nothing in a dry run or without
\* the operator's yes: all runs together have sent no more messages than --max
\* for each run that he let go on, whatever arrived after the dry run he saw
\* and however often he was interrupted (dlq-replay.py:87-123, 182-194).
Moved == {m \in Msgs : copies[m] > 0}

OnlyGrantedMove ==
  /\ \A m \in Moved : Matches(m)
  /\ Cardinality(Moved) <= MaxMessages * grants

\* One run sends a message once, however often it is received and however
\* early it becomes visible again, so duplicates come from interruptions.
SentOncePerRun == \A m \in Msgs : copies[m] <= SendAttempts * runs

\* An apply pass that finds the queue empty before it reaches its maximum has
\* moved everything the operator was shown: the dry run parked nothing
\* (dlq-replay.py:79-81).
AllPreviewedMoved ==
  phase = "apply" /\ inbox = {} /\ sent = None /\ Visible = {} /\ matched < MaxMessages
    => \A m \in previewed : where[m] = "replayed"

\* A run whose operator answers ends, if the filter never has to pass over a
\* message (see OperatorSeesPreview).
NothingToSkip == \A m \in Msgs : where[m] # "away" => Matches(m)
RunsEnd == []NothingToSkip => (phase # "off" ~> phase = "off")

\* dlq-replay.py:167-168: "Always do a dry-run pass first so the operator sees
\* exactly what would move before anything is touched": the pass ends.
OperatorSeesPreview == phase = "preview" ~> phase # "preview"
=============================================================================
