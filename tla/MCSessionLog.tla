---------------------------- MODULE MCSessionLog ----------------------------
(* SessionLog with three items, texts of two steps and two turns. *)
EXTENDS SessionLog

Mix(some) == [move \in Kinds |-> IF move \in some THEN 1 ELSE 0]
Twice(some, move) == [Mix(some) EXCEPT ![move] = 2]

OrdinaryMixtures ==
  {Twice({"saveFail", "note"}, "die"), Twice({"loadFail", "leftover"}, "die"),
   Twice({"die", "leftover", "note", "loadFail"}, "saveFail")}

(* A flush of the dispatcher while a turn runs, or a turn that begins while one is
   under way: what is said after it reaches the log in part (NothingIsForgotten),
   and the checkpoint of the turn is removed with it (KeptNeverShrinks). *)
AsideMixture == {Mix({"aside", "die"})}
=============================================================================
