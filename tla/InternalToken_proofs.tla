------------------------ MODULE InternalToken_proofs ------------------------
(***************************************************************************)
(* The safety properties of InternalToken for any set of tokens.           *)
(***************************************************************************)
EXTENDS InternalToken, TLAPS

\* A container that has booted resolves its token to the one it booted with.
ContainerInv ==
  /\ phase = "cold" =>
       cached = Unresolved /\ bearer = Empty /\ report = "none" /\ verdict = "none"
  /\ phase # "cold" => bearer = Resolved /\ (env = Empty => cached # Unresolved)

\* What the probe's report says of that token.
ReportInv ==
  /\ phase = "probing" => bearer # Empty /\ report = "none" /\ verdict = "none"
  /\ phase \in {"warm", "calling"} =>
       /\ report # "none"
       /\ bearer = Empty => report = "error"
       /\ ~rotated /\ report = "ok" => bearer = expected
       /\ ~rotated /\ report = "error" => bearer # expected

IInv == TypeOK /\ ContainerInv /\ ReportInv /\ BootVerdictHolds

-----------------------------------------------------------------------------
LEMMA Strings ==
  /\ Empty \notin Tokens /\ Unresolved \notin Tokens /\ Unresolved # Empty
  /\ Values = Tokens \cup {Empty} /\ Tokens \subseteq Values
BY TokenAssumption DEF Values

LEMMA ResolvedIsValue ==
  ASSUME TypeOK
  PROVE  /\ Fetched \in Values /\ Resolved \in Values
         /\ (cached' = IF MustFetch THEN Fetched ELSE cached) => cached' \in Values \cup {Unresolved}
<1>1. Fetched \in Values
  BY Strings DEF TypeOK, Fetched
<1>2. Resolved \in Values
  BY <1>1, Strings DEF TypeOK, Resolved, MustFetch
<1>3. (cached' = IF MustFetch THEN Fetched ELSE cached) => cached' \in Values \cup {Unresolved}
  BY <1>1 DEF TypeOK
<1> QED
  BY <1>1, <1>2, <1>3

\* The first construction fixes what every later one resolves to.
LEMMA ConstructSettles ==
  ASSUME TypeOK, Construct, UNCHANGED world
  PROVE  /\ bearer' = Resolved /\ bearer' = Resolved' /\ bearer' \in Values
         /\ cached' \in Values \cup {Unresolved}
         /\ env' = Empty => cached' # Unresolved
<1>1. /\ bearer' = Resolved /\ env' = env
      /\ cached' = IF MustFetch THEN Fetched ELSE cached
  BY DEF Construct, Resolve, world
<1>2. /\ Fetched \in Values /\ Resolved \in Values
      /\ cached' \in Values \cup {Unresolved}
  BY <1>1, ResolvedIsValue
<1>3. env' = Empty => cached' # Unresolved
  BY <1>1, <1>2, Strings DEF MustFetch
<1>4. Resolved = Resolved'
  BY <1>1, <1>3 DEF Resolved, MustFetch
<1> QED
  BY <1>1, <1>2, <1>3, <1>4

\* A container that has booted keeps its token, whatever SSM says by now.
LEMMA ConstructKeeps ==
  ASSUME IInv, phase # "cold", Construct
  PROVE  bearer' = bearer /\ cached' = cached
BY DEF IInv, ContainerInv, Construct, Resolve, Resolved, MustFetch

LEMMA InitInv == Init => IInv
BY Strings DEF Init, IInv, TypeOK, ContainerInv, ReportInv, BootVerdictHolds

\* A container that is gone leaves nothing behind.
LEMMA GoneInv ==
  ASSUME IInv, Gone,
         env' \in Values, ssm' = ssm, readable' = readable, expected' = expected,
         reachable' = reachable, mounted' = mounted
  PROVE  IInv'
BY Strings DEF IInv, Gone, TypeOK, ContainerInv, ReportInv, BootVerdictHolds

LEMMA NextInv == IInv /\ [Next]_vars => IInv'
<1> SUFFICES ASSUME IInv, [Next]_vars PROVE IInv'
  OBVIOUS
<1>0. TypeOK /\ ContainerInv /\ ReportInv /\ BootVerdictHolds
  BY DEF IInv
<1>1. CASE BootWithoutToken
  <2>1. /\ bearer' = Empty /\ bearer' = Resolved' /\ bearer' \in Values
        /\ cached' \in Values \cup {Unresolved} /\ (env' = Empty => cached' # Unresolved)
    BY <1>0, <1>1, ConstructSettles DEF BootWithoutToken
  <2>2. /\ report' = "error" /\ phase' = "warm" /\ rotated' = FALSE /\ verdict' = verdict
        /\ verdict = "none" /\ UNCHANGED world
    BY <1>0, <1>1 DEF BootWithoutToken, ContainerInv
  <2>3. TypeOK'
    BY <1>0, <2>1, <2>2 DEF TypeOK, world
  <2>4. ContainerInv' /\ ReportInv' /\ BootVerdictHolds'
    BY <1>0, <2>1, <2>2, Strings DEF ContainerInv, ReportInv, BootVerdictHolds, world, TypeOK
  <2> QED
    BY <2>3, <2>4 DEF IInv
<1>2. CASE BootWithToken
  <2>1. /\ bearer' # Empty /\ bearer' = Resolved' /\ bearer' \in Values
        /\ cached' \in Values \cup {Unresolved} /\ (env' = Empty => cached' # Unresolved)
    BY <1>0, <1>2, ConstructSettles DEF BootWithToken
  <2>2. /\ report' = "none" /\ phase' = "probing" /\ rotated' = rotated /\ verdict' = "none"
        /\ UNCHANGED world
    BY <1>0, <1>2 DEF BootWithToken, ContainerInv
  <2>3. TypeOK'
    BY <1>0, <2>1, <2>2 DEF TypeOK, world
  <2>4. ContainerInv' /\ ReportInv' /\ BootVerdictHolds'
    BY <1>0, <2>1, <2>2 DEF ContainerInv, ReportInv, BootVerdictHolds
  <2> QED
    BY <2>3, <2>4 DEF IInv
<1>3. CASE ProbeAnswered
  <2>1. /\ phase = "probing" /\ phase' = "warm" /\ rotated' = FALSE
        /\ bearer' = bearer /\ cached' = cached /\ verdict' = verdict /\ verdict = "none"
        /\ bearer # Empty /\ UNCHANGED world /\ report' = ProbeReport
    BY <1>0, <1>3 DEF ProbeAnswered, ReportInv
  <2>2. /\ ProbeReport \in {"ok", "warning", "error"}
        /\ ProbeReport = "ok" => bearer = expected
        /\ ProbeReport = "error" => bearer # expected
    BY DEF ProbeReport
  <2>3. Resolved' = Resolved
    BY <2>1 DEF world, Resolved, MustFetch, Fetched
  <2>4. TypeOK'
    BY <1>0, <2>1, <2>2 DEF TypeOK, world
  <2>5. ContainerInv' /\ ReportInv' /\ BootVerdictHolds'
    BY <1>0, <2>1, <2>2, <2>3 DEF ContainerInv, ReportInv, BootVerdictHolds, world
  <2> QED
    BY <2>4, <2>5 DEF IInv
<1>4. CASE Call
  <2>1. /\ phase = "warm" /\ phase' = "calling" /\ UNCHANGED <<world, report, verdict, rotated>>
        /\ bearer' = bearer /\ cached' = cached
    BY <1>4, ConstructKeeps DEF Call
  <2>2. Resolved' = Resolved
    BY <2>1 DEF world, Resolved, MustFetch, Fetched
  <2>3. TypeOK'
    BY <1>0, <2>1 DEF TypeOK, world
  <2>4. ContainerInv' /\ ReportInv' /\ BootVerdictHolds'
    BY <1>0, <2>1, <2>2 DEF ContainerInv, ReportInv, BootVerdictHolds, world
  <2> QED
    BY <2>3, <2>4 DEF IInv
<1>5. CASE Answer
  <2>1. /\ phase = "calling" /\ phase' = "warm" /\ UNCHANGED <<world, cached, bearer, report, rotated>>
        /\ verdict' \in {"failed", "accepted", "refused"}
        /\ verdict' = "accepted" => bearer = expected
        /\ verdict' = "refused" => bearer # expected
    BY <1>5 DEF Answer
  <2>2. Resolved' = Resolved
    BY <2>1 DEF world, Resolved, MustFetch, Fetched
  <2>3. TypeOK'
    BY <1>0, <2>1 DEF TypeOK, world
  <2>4. ContainerInv' /\ ReportInv' /\ BootVerdictHolds'
    BY <1>0, <2>1, <2>2 DEF ContainerInv, ReportInv, BootVerdictHolds, world
  <2> QED
    BY <2>3, <2>4 DEF IInv
<1>6. CASE Recycle
  BY <1>0, <1>6, GoneInv DEF Recycle, world, TypeOK
<1>7. ASSUME NEW t \in Values, Redeploy(t) PROVE IInv'
  BY <1>7, GoneInv DEF Redeploy
<1>8. ASSUME NEW t \in Values, SetParameter(t) PROVE IInv'
  <2>1. Resolved' = Resolved \/ phase = "cold"
    BY <1>0, <1>8 DEF SetParameter, container, Resolved, MustFetch, ContainerInv
  <2> QED
    BY <1>0, <1>8, <2>1
    DEF SetParameter, container, IInv, TypeOK, ContainerInv, ReportInv, BootVerdictHolds
<1>9. ASSUME NEW t \in Tokens, Rotate(t) PROVE IInv'
  <2>1. Resolved' = Resolved
    BY <1>9 DEF Rotate, container, Resolved, MustFetch, Fetched
  <2>2. rotated' = (rotated \/ t # expected) /\ expected' = t
    BY <1>9 DEF Rotate
  <2>3. rotated' \in BOOLEAN
    BY <2>2, Zenon
  <2>4. ~rotated' => ~rotated /\ expected' = expected
    BY <2>2, Zenon
  <2>5. TypeOK'
    BY <1>0, <1>9, <2>3 DEF Rotate, container, TypeOK
  <2>6. ContainerInv' /\ ReportInv' /\ BootVerdictHolds'
    BY <1>0, <1>9, <2>1, <2>4
    DEF Rotate, container, ContainerInv, ReportInv, BootVerdictHolds
  <2> QED
    BY <2>5, <2>6 DEF IInv
<1>10. CASE Weather
  <2>1. Resolved' = Resolved \/ phase = "cold"
    BY <1>0, <1>10 DEF Weather, container, Resolved, MustFetch, ContainerInv
  <2>2. TypeOK'
    BY <1>0, <1>10, Zenon DEF Weather, container, TypeOK
  <2>3. ContainerInv' /\ ReportInv' /\ BootVerdictHolds'
    BY <1>0, <1>10, <2>1
    DEF Weather, container, ContainerInv, ReportInv, BootVerdictHolds
  <2> QED
    BY <2>2, <2>3 DEF IInv
<1>11. CASE UNCHANGED vars
  BY <1>0, <1>11 DEF vars, world, container, IInv, TypeOK, ContainerInv, ReportInv,
     BootVerdictHolds, Resolved, MustFetch, Fetched
<1> QED
  BY <1>1, <1>2, <1>3, <1>4, <1>5, <1>6, <1>7, <1>8, <1>9, <1>10, <1>11 DEF Next, Boot

LEMMA AlwaysInv == Spec => []IInv
BY InitInv, NextInv, PTL DEF Spec

-----------------------------------------------------------------------------
\* Every variable keeps its type.
THEOREM TypeCorrect == Spec => []TypeOK
<1>1. IInv => TypeOK
  BY DEF IInv
<1> QED
  BY <1>1, AlwaysInv, PTL

\* What the boot probe reports comes true (handler.py:80-84, 89-92, 117-120).
THEOREM ReportIsTrue == Spec => []BootVerdictHolds
<1>1. IInv => BootVerdictHolds
  BY DEF IInv
<1> QED
  BY <1>1, AlwaysInv, PTL

\* A container has one token for life (internal_token.py:16-19).
THEOREM OneToken == Spec => OneTokenPerContainer
<1>1. IInv /\ [Next]_vars => [phase # "cold" /\ phase' # "cold" => bearer' = bearer]_vars
  <2> SUFFICES ASSUME IInv, Next, phase # "cold", phase' # "cold" PROVE bearer' = bearer
    OBVIOUS
  <2>1. CASE Call
    BY <2>1, ConstructKeeps DEF Call
  <2>2. CASE BootWithoutToken \/ BootWithToken \/ Recycle \/ \E t \in Values : Redeploy(t)
    BY <2>2 DEF BootWithoutToken, BootWithToken, Recycle, Redeploy, Gone
  <2>3. CASE ProbeAnswered \/ Answer
    BY <2>3 DEF ProbeAnswered, Answer
  <2>4. CASE \/ \E t \in Values : SetParameter(t)
             \/ \E t \in Tokens : Rotate(t)
             \/ Weather
    BY <2>4 DEF SetParameter, Rotate, Weather, container
  <2> QED
    BY <2>1, <2>2, <2>3, <2>4 DEF Next, Boot
<1> QED
  BY <1>1, AlwaysInv, PTL DEF Spec, OneTokenPerContainer
-----------------------------------------------------------------------------
(* How a rotation is picked up.                                            *)

\* The container, if it has booted, carries the token lingo-core expects.
RightToken == phase # "cold" => bearer = expected

\* While the sources agree with lingo-core no step gives a container a wrong
\* token: one that boots gets the right one, one that has it keeps it.
LEMMA RightTokenStays ==
  ASSUME IInv, [Next]_vars, Aligned, Aligned', RightToken
  PROVE  RightToken'
<1> SUFFICES ASSUME phase' # "cold" PROVE bearer' = expected'
  BY DEF RightToken
<1>1. CASE BootWithoutToken \/ BootWithToken
  <2>1. bearer' = Resolved /\ expected' = expected
    BY <1>1 DEF BootWithoutToken, BootWithToken, Construct, world
  <2>2. Resolved = expected
    BY <1>1 DEF BootWithoutToken, BootWithToken, IInv, ContainerInv, Aligned, Resolved,
       MustFetch, Fetched
  <2> QED
    BY <2>1, <2>2
<1>2. CASE Call
  BY <1>2, ConstructKeeps DEF Call, RightToken, world
<1>3. CASE ProbeAnswered \/ Answer
  BY <1>3 DEF ProbeAnswered, Answer, RightToken, world
<1>4. CASE Recycle \/ \E t \in Values : Redeploy(t)
  BY <1>4 DEF Recycle, Redeploy, Gone
<1>5. CASE \/ \E t \in Values : SetParameter(t)
           \/ \E t \in Tokens : Rotate(t)
           \/ Weather \/ UNCHANGED vars
  <2>1. phase' = phase /\ bearer' = bearer
    BY <1>5 DEF SetParameter, Rotate, Weather, container, vars
  <2>2. expected' = expected
    BY <1>5 DEF SetParameter, Rotate, Weather, vars, world, Aligned
  <2> QED
    BY <2>1, <2>2 DEF RightToken
<1> QED
  BY <1>1, <1>2, <1>3, <1>4, <1>5 DEF Next, Boot

\* Rotation needs nothing but the end of the containers that hold the old
\* token: if containers are recycled again and again, which is all that FairSpec
\* is fair about here, callbacks are refused only until then.
THEOREM RotationNeedsRecycling ==
  Spec => ([]<>(phase = "cold") => RotationIsPickedUp)
<1>1. IInv /\ [Next]_vars /\ Aligned /\ Aligned' /\ RightToken => RightToken'
  BY RightTokenStays
<1>2. phase = "cold" => RightToken
  BY DEF RightToken
<1>3. RightToken => (phase = "calling" => bearer = expected)
  BY DEF RightToken
<1> QED
  BY <1>1, <1>2, <1>3, AlwaysInv, PTL DEF Spec, RotationIsPickedUp
=============================================================================
