------------------------------- MODULE Events -------------------------------
(***************************************************************************)
(* What one queue message asks of the worker, as functions of its body:    *)
(* whether it parses (contracts/messages.py) and which effects its handler *)
(* owes (handlers/, leaderboard/updater.py, quests/evaluator.py).          *)
(*                                                                         *)
(* A body is a record with the fields the code branches on; the others     *)
(* (user_id, lesson_id, score...) are only copied through.                 *)
(***************************************************************************)
EXTENDS Integers, WireFormat

CONSTANTS
  LEADERBOARD_ENABLED,  \* settings.LEADERBOARD_ENABLED
  Quests,               \* the quests of the user the messages are about
  UnitOf                \* the progress unit of each quest

Units == {"XP", "lessons", "cards", "friends"}

ASSUME EventsAssumption ==
  /\ LEADERBOARD_ENABLED \in BOOLEAN
  /\ UnitOf \in [Quests -> Units]

EventTypes == {"xp_awarded", "lesson_completed", "review_completed",
               "friend_added", "ad_watched", "subscription_changed"}

Sources == {"lesson", "review", "manual", "quest", "streak"}

Body ==
  [wire : Texts, type : EventTypes \cup {"unknown"}, version : Int,
   source : Sources \cup {"unknown"}, amount : Int, opt_in : BOOLEAN,
   language : BOOLEAN, test_out : BOOLEAN, count : Int]

-----------------------------------------------------------------------------
\* parse_event raises something that is not a ValidationError.
Escapes(b) == UnwrapRaises(b.wire)

\* The payload parse_event validates is the event itself: the unwrapping
\* peeled every layer there was.
Unwraps(b) == ~Escapes(b) /\ Unwrap(b.wire) = <<"event">>

\* The event matches its branch of the discriminated union.
WellFormed(b) ==
  /\ b.type \in EventTypes
  /\ b.version = 1
  /\ b.type = "xp_awarded" => b.amount >= 0 /\ b.source \in Sources
  /\ b.type = "review_completed" => b.count >= 1

\* parse_event returns an event.
Valid(b) == Unwraps(b) /\ WellFormed(b)

-----------------------------------------------------------------------------
\* xp_awarded.handle credits user.xp, unless the producer already did.
NeedsCredit(b) ==
  b.type = "xp_awarded" /\ b.source \notin {"lesson"} /\ b.amount > 0

\* update_leaderboard writes both buckets.
WritesBoard(b) ==
  /\ LEADERBOARD_ENABLED
  /\ b.type = "xp_awarded"
  /\ b.amount > 0 /\ b.opt_in /\ b.language

\* The delta _event_unit_and_delta gives for a progress unit, 0 for all but
\* the one unit the event advances.
QuestDelta(b, unit) ==
  CASE b.type = "xp_awarded"       /\ unit = "XP"      -> b.amount
    [] b.type = "lesson_completed" /\ unit = "lessons" -> IF b.test_out THEN 0 ELSE 1
    [] b.type = "review_completed" /\ unit = "cards"   -> b.count
    [] b.type = "friend_added"     /\ unit = "friends" -> 1
    [] OTHER -> 0

\* evaluate_quests_for gets as far as asking lingo-core for the quest list.
EvaluatesQuests(b) == \E u \in Units : QuestDelta(b, u) > 0

\* The quests the event advances, whatever their status.
Advances(b) == {q \in Quests : QuestDelta(b, UnitOf[q]) > 0}

\* The order in which a handler runs its effects: the first one that b needs
\* from each point on.  "record" is the end of _dispatch.
AfterBoard(b) == IF EvaluatesQuests(b) THEN "quests" ELSE "record"
AfterCredit(b) == IF WritesBoard(b) THEN "weekly" ELSE AfterBoard(b)

FirstEffect(b) == IF NeedsCredit(b) THEN "credit" ELSE AfterCredit(b)
=============================================================================
