---------------------------- MODULE MCHumanPause ----------------------------
(* HumanPause with two messages and two requests. *)
EXTENDS HumanPause

CONSTANTS m1, m2

MCMsg == {m1, m2}
Mix(some) == [move \in Kinds |-> IF move \in some THEN 1 ELSE 0]
Twice(some, move) == [Mix(some) EXCEPT ![move] = 2]

(* A send without a message id may go past a card ("over") wherever every save
   succeeds: it has to be refused. *)
OrdinarySettings ==
  ({"steers"} \X { Twice({"stop", "die", "fail", "over"}, "ask"),
                   Twice({"handFail", "exit", "cli", "refuse", "over"}, "ask"),
                   Twice({"saveFail", "fail", "die"}, "ask"),
                   Twice({"cli", "refuse", "stop", "handFail", "over"}, "ask"),
                   Twice({"direct", "ask", "stop", "saveFail"}, "handFail"),
                   Twice({"ask", "die", "fail", "cli", "over"}, "direct"),
                   Twice({"ask", "cli", "exit"}, "saveFail") })
  \cup ({"stops"} \X { Mix({"ask", "die", "saveFail", "stop"}) })
  \cup ({"bare"} \X { Mix({"ask", "die", "handFail", "fail", "over"}),
                       Mix({"ask", "exit", "stop", "over"}) })

(* A failed continuation and a restart, for what the restart does not retry. *)
RestartSetting == {<<"steers", Mix({"direct", "ask", "handFail", "die"})>>}

(* Four moves the settings above leave out, because each breaks a property: an
   agent that asks although it was not told of an answer given meanwhile loses it
   (AnswerIsKept); an answer changed after a failed save stays in the chat as it
   was (AnswerIsKept); a send without a message id runs an ordinary turn past a card
   once a failed save has lost the status that says it waits (CardStopsWork, and
   GrantIsApplied after it); one that comes before the decision is carried out
   leaves a process in its own mode (GrantIsApplied). *)
LateSetting == {<<"steers", Mix({"ask", "late", "refuse"})>>}
ChangedSetting == {<<"steers", Mix({"ask", "saveFail", "change"})>>}
OverSetting == {<<"steers", Mix({"ask", "saveFail", "over"})>>}
BetweenSetting == {<<"steers", Mix({"ask", "stop", "between"})>>}
=============================================================================
