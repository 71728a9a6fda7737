----------------------------- MODULE RemoteCall -----------------------------
(***************************************************************************)
(* A callback into lingo-core as the handlers see it: it is refused on the *)
(* spot, or it is made and comes back with an outcome of CoreCall.  How    *)
(* often it was sent, how long that took and what the breaker learned of   *)
(* it is none of their business.                                           *)
(***************************************************************************)
EXTENDS CoreCall

CONSTANT Attempts  \* requests one call makes at most

VARIABLES
  calling,  \* a call has been made and has not come back
  outcome   \* of the last call; NotApplied until there is one

vars == <<calling, outcome>>

NotApplied == [applied |-> 0, ok |-> FALSE]

Init == calling = FALSE /\ outcome = NotApplied

\* The breaker is open: lingo-core never hears of the call.
Refuse ==
  /\ ~calling
  /\ outcome' = NotApplied
  /\ UNCHANGED calling

Call ==
  /\ ~calling
  /\ calling' = TRUE
  /\ outcome' = NotApplied

Return ==
  /\ calling
  /\ calling' = FALSE
  /\ outcome' \in CallOutcomes(Attempts)

Next == Refuse \/ Call \/ Return

Spec == Init /\ [][Next]_vars
=============================================================================
