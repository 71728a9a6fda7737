--------------------------- MODULE MCAsyncWorker ---------------------------
(***************************************************************************)
(* Instances of AsyncWorker for TLC.  The constants named MC... are the    *)
(* values the .cfg files give to the parameters.                           *)
(***************************************************************************)
EXTENDS AsyncWorker, TLC

CONSTANTS m1, m2, m3, q1, q2, w1, w2

Awarded ==
  [wire |-> KombuSqs(<<"event">>), type |-> "xp_awarded", version |-> 1,
   source |-> "manual", amount |-> 10, opt_in |-> TRUE, language |-> TRUE,
   test_out |-> FALSE, count |-> 1]

FromLesson == [Awarded EXCEPT !.source = "lesson"]
NoXp       == [Awarded EXCEPT !.amount = 0]
NegativeXp == [Awarded EXCEPT !.amount = -1]
OptedOut   == [Awarded EXCEPT !.opt_in = FALSE]
Lesson     == [Awarded EXCEPT !.type = "lesson_completed", !.wire = <<"event">>]
TestOut    == [Lesson EXCEPT !.test_out = TRUE]
Reviews    == [Lesson EXCEPT !.type = "review_completed", !.count = 3, !.wire = <<"envelope64", "event">>]
Friend     == [Lesson EXCEPT !.type = "friend_added", !.wire = <<"envelope", "event">>]
Ad         == [Lesson EXCEPT !.type = "ad_watched", !.wire = <<"base64", "envelope", "event">>]
NotAnEvent == [Awarded EXCEPT !.wire = <<"base64", "event">>]
Spoilt     == [Awarded EXCEPT !.wire = <<"base64", "envelope64", "bytes">>]

MCFanout     == {Awarded, FromLesson, NegativeXp}
MCEveryKind  == {Awarded, FromLesson, NoXp, OptedOut, Lesson, TestOut, Reviews,
                 Friend, Ad, NotAnEvent}
MCWithBroken == {Awarded, Ad, Spoilt}
MCPoison     == {Lesson, NotAnEvent, Spoilt}

\* The messages of a batch are interchangeable: the loop takes any next.
MCSymmetry == Permutations(Msgs)

\* One quest, on lessons.
MCOneLesson == q1 :> "lessons"

\* Both quests advance on one award; or one on lessons and one on cards.
MCBothXp == (q1 :> "XP") @@ (q2 :> "XP")
MCMixed  == (q1 :> "lessons") @@ (q2 :> "cards")
=============================================================================
