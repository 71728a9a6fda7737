------------------------------ MODULE Delivery ------------------------------
(***************************************************************************)
(* What the worker promises its queue: every message is either completed   *)
(* with its obligations met, or given up after MaxReceive deliveries and   *)
(* kept.  Nothing is said about how often an obligation is met.            *)
(***************************************************************************)
EXTENDS Naturals

CONSTANTS Msgs, MaxReceive

VARIABLES
  status,  \* of each message: "unsent", "pending", "done" or "dead"
  tries,   \* deliveries of each message so far
  met      \* the messages whose obligations are met

vars == <<status, tries, met>>

Init ==
  /\ status = [m \in Msgs |-> "unsent"]
  /\ tries = [m \in Msgs |-> 0]
  /\ met \in SUBSET Msgs

Send(m) ==
  /\ status[m] = "unsent"
  /\ status' = [status EXCEPT ![m] = "pending"]
  /\ UNCHANGED <<tries, met>>

\* A batch is handed to a worker.
Try(S) ==
  /\ \A m \in S : status[m] = "pending" /\ tries[m] < MaxReceive
  /\ tries' = [m \in Msgs |-> IF m \in S THEN tries[m] + 1 ELSE tries[m]]
  /\ UNCHANGED <<status, met>>

\* Obligations, once met, stay met, whatever becomes of the message.
Work ==
  /\ met' \in SUBSET Msgs /\ met \subseteq met'
  /\ UNCHANGED <<status, tries>>

Complete(S) ==
  /\ S \subseteq met
  /\ \A m \in S : status[m] = "pending"
  /\ status' = [m \in Msgs |-> IF m \in S THEN "done" ELSE status[m]]
  /\ UNCHANGED <<tries, met>>

GiveUp(m) ==
  /\ status[m] = "pending"
  /\ tries[m] = MaxReceive
  /\ status' = [status EXCEPT ![m] = "dead"]
  /\ UNCHANGED <<tries, met>>

Next ==
  \/ \E m \in Msgs : Send(m) \/ GiveUp(m)
  \/ \E S \in SUBSET Msgs : Try(S) \/ Complete(S)
  \/ Work

Spec == Init /\ [][Next]_vars
=============================================================================
