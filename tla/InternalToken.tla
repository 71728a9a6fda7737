--------------------------- MODULE InternalToken ---------------------------
(***************************************************************************)
(* The bearer token of one Lambda container: where it comes from           *)
(* (http/internal_token.py), how the boot probe judges it                  *)
(* (_verify_internal_token_on_boot of handler.py) and what becomes of the  *)
(* callbacks that carry it, while the token in SSM and the one lingo-core  *)
(* expects are rotated independently and containers come and go.           *)
(***************************************************************************)
EXTENDS Naturals

CONSTANTS
  Tokens,     \* tokens in use, the empty string not among them
  Empty,      \* the empty string
  Unresolved  \* None, the initial value of _cached_token

ASSUME TokenAssumption ==
  /\ Empty \notin Tokens
  /\ Unresolved \notin Tokens \cup {Empty}

VARIABLES
  env,       \* settings.INTERNAL_SERVICE_TOKEN, fixed with the deployment
  ssm,       \* value of the SSM parameter, Empty if there is none
  readable,  \* SSM answers
  expected,  \* the token lingo-core expects
  reachable, \* lingo-core answers
  mounted,   \* lingo-core serves the quests router
  cached,    \* _cached_token
  phase,     \* "cold", "probing" (boot probe out), "warm", "calling"
  bearer,    \* the token of the client constructed last in this container
  report,    \* what the boot probe logged: "none", "ok", "warning", "error"
  verdict,   \* how the last callback ended: "none", "accepted", "refused", "failed"
  rotated    \* history: lingo-core's token changed since the boot probe's verdict

world     == <<env, ssm, readable, expected, reachable, mounted>>
container == <<cached, phase, bearer, report, verdict>>
vars == <<world, container, rotated>>

Values == Tokens \cup {Empty}

TypeOK ==
  /\ env \in Values /\ ssm \in Values /\ expected \in Tokens
  /\ readable \in BOOLEAN /\ reachable \in BOOLEAN /\ mounted \in BOOLEAN
  /\ cached \in Values \cup {Unresolved}
  /\ phase \in {"cold", "probing", "warm", "calling"}
  /\ bearer \in Values
  /\ report \in {"none", "ok", "warning", "error"}
  /\ verdict \in {"none", "accepted", "refused", "failed"}
  /\ rotated \in BOOLEAN

Init ==
  /\ env \in Values /\ ssm \in Values /\ expected \in Tokens
  /\ readable \in BOOLEAN /\ reachable \in BOOLEAN /\ mounted \in BOOLEAN
  /\ cached = Unresolved
  /\ phase = "cold"
  /\ bearer = Empty
  /\ report = "none"
  /\ verdict = "none"
  /\ rotated = FALSE

-----------------------------------------------------------------------------
\* Broken: a failed lookup gives None instead of the empty string.
BrokenFetched == IF readable THEN ssm ELSE Unresolved

\* _fetch_from_ssm: every failure counts as an empty parameter.
Fetched == IF readable THEN ssm ELSE Empty

\* Broken: an empty result is not kept, so the next callback asks again.
BrokenMustFetch == env = Empty /\ cached \in {Unresolved, Empty}

\* resolve_internal_service_token goes to SSM.
MustFetch == env = Empty /\ cached = Unresolved

\* What resolve_internal_service_token returns.
Resolved == IF env # Empty THEN env ELSE IF MustFetch THEN Fetched ELSE cached

\* ... and does to the cache.
Resolve == cached' = IF MustFetch THEN Fetched ELSE cached

\* LingoCoreClient(): a client carries the token it was constructed with.
Construct == Resolve /\ bearer' = Resolved

-----------------------------------------------------------------------------
\* The import of handler.py runs the probe; no source has a token.
BootWithoutToken ==
  /\ phase = "cold"
  /\ Resolved = Empty
  /\ Construct
  /\ report' = "error"
  /\ phase' = "warm"
  /\ rotated' = FALSE
  /\ UNCHANGED <<world, verdict>>

BootWithToken ==
  /\ phase = "cold"
  /\ Resolved # Empty
  /\ Construct
  /\ phase' = "probing"
  /\ UNCHANGED <<world, report, verdict, rotated>>

\* Broken: any answer at all is good news.
BrokenProbeReport == IF reachable THEN "ok" ELSE "warning"

\* What the probe logs.  It goes to the quests router: without that router
\* the answer is 404 whatever the token.
ProbeReport ==
  CASE ~reachable \/ ~mounted -> "warning"
    [] reachable /\ mounted /\ bearer = expected -> "ok"
    [] OTHER -> "error"

ProbeAnswered ==
  /\ phase = "probing"
  /\ report' = ProbeReport
  /\ phase' = "warm"
  /\ rotated' = FALSE
  /\ UNCHANGED <<world, cached, bearer, verdict>>

\* A handler constructs a client for a callback, here one to a router that
\* every surface mode serves, such as add_xp.
Call ==
  /\ phase = "warm"
  /\ Construct
  /\ phase' = "calling"
  /\ UNCHANGED <<world, report, verdict, rotated>>

\* lingo-core answers, or the retries of _request are used up.
Answer ==
  /\ phase = "calling"
  /\ verdict' = CASE ~reachable -> "failed"
                  [] reachable /\ bearer = expected -> "accepted"
                  [] OTHER -> "refused"
  /\ phase' = "warm"
  /\ UNCHANGED <<world, cached, bearer, report, rotated>>

\* The container is gone and with it the module's globals.
Gone ==
  /\ phase' = "cold"
  /\ cached' = Unresolved
  /\ bearer' = Empty
  /\ report' = "none"
  /\ verdict' = "none"
  /\ rotated' = FALSE

\* Broken: the new container starts from a snapshot of the old one's globals.
BrokenRecycle ==
  /\ phase # "cold"
  /\ phase' = "cold"
  /\ bearer' = Empty
  /\ report' = "none"
  /\ verdict' = "none"
  /\ rotated' = FALSE
  /\ UNCHANGED <<world, cached>>

\* AWS reclaims or kills it; the next invocation is a cold start.
Recycle == phase # "cold" /\ Gone /\ UNCHANGED world

-----------------------------------------------------------------------------
\* A deployment, which replaces the containers.
Redeploy(t) ==
  /\ env' = t
  /\ Gone
  /\ UNCHANGED <<ssm, readable, expected, reachable, mounted>>

\* lingo-core gets another token; the SSM parameter is written, or removed.
Rotate(t) ==
  /\ expected' = t
  /\ rotated' = (rotated \/ t # expected)
  /\ UNCHANGED <<env, ssm, readable, reachable, mounted, container>>

SetParameter(t) ==
  /\ ssm' = t
  /\ UNCHANGED <<env, readable, expected, reachable, mounted, container, rotated>>

\* SSM or lingo-core goes away or comes back, or the surface mode changes.
Weather ==
  /\ \/ readable' = ~readable /\ UNCHANGED <<reachable, mounted>>
     \/ reachable' = ~reachable /\ UNCHANGED <<readable, mounted>>
     \/ mounted' = ~mounted /\ UNCHANGED <<readable, reachable>>
  /\ UNCHANGED <<env, ssm, expected, container, rotated>>

Boot == BootWithoutToken \/ BootWithToken \/ ProbeAnswered

Next ==
  \/ Boot \/ Call \/ Answer \/ Recycle
  \/ \E t \in Values : Redeploy(t) \/ SetParameter(t)
  \/ \E t \in Tokens : Rotate(t)
  \/ Weather

Spec == Init /\ [][Next]_vars

\* What has begun goes on, and no container lives for ever: the docstring of
\* internal_token.py counts on that as well.
FairSpec == Spec /\ WF_vars(Boot) /\ WF_vars(Answer) /\ WF_vars(Recycle)

-----------------------------------------------------------------------------
\* All callbacks of a container carry the token its boot probe was about:
\* what the probe said is said of them, and no answer of SSM half way through
\* changes it (internal_token.py:16-19).
OneTokenPerContainer ==
  [][phase # "cold" /\ phase' # "cold" => bearer' = bearer]_vars

\* The probe's verdict foretells that of the callbacks until lingo-core's
\* token changes: "ok" is never followed by a 401, "error" is never a false
\* alarm, and no callback goes out without a token unless boot was loud about
\* it (handler.py:80-84, 89-92, 117-120).
BootVerdictHolds ==
  /\ ~rotated => /\ report = "ok" => verdict # "refused"
                 /\ report = "error" => verdict # "accepted"
  /\ phase = "calling" /\ bearer = Empty => report = "error"

\* The sources and lingo-core agree on the token.
Aligned == IF env # Empty THEN env = expected ELSE readable /\ ssm = expected

\* Once they agree for good, callbacks are refused only until the containers
\* that cached another token, or an empty one, are gone (internal_token.py:17-19).
RotationIsPickedUp == <>[]Aligned => <>[](phase = "calling" => bearer = expected)

-----------------------------------------------------------------------------
\* handler.py:75-77: the probe "makes the failure loud and unambiguous on the
\* first warm-up of every container": a token that lingo-core, being there to
\* answer, would refuse is reported as an error.
MismatchIsLoud ==
  [][phase = "probing" /\ phase' = "warm" /\ reachable /\ bearer # expected
       => report' = "error"]_vars
=============================================================================
