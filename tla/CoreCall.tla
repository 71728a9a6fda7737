------------------------------ MODULE CoreCall ------------------------------
(***************************************************************************)
(* What a caller of a non-idempotent remote write may conclude from one    *)
(* call: how often the write took effect at the callee, and whether the    *)
(* call returned or raised.  CoreClient implements it for the HTTP         *)
(* callbacks into lingo-core; AsyncWorker is written against it.           *)
(***************************************************************************)
EXTENDS Naturals

\* A call that returned was applied at least once.  A call that raised may
\* have been applied any number of times up to the number of attempts: a
\* request that timed out may still have reached the callee.
CallOutcomes(attempts) ==
  {r \in [applied : 0..attempts, ok : BOOLEAN] : r.ok => r.applied >= 1}

\* The same call when nothing goes wrong.
CleanOutcome == [applied |-> 1, ok |-> TRUE]
=============================================================================
