--------------------------- MODULE MCSessionInbox ---------------------------
(* SessionInbox with two messages of a person and one notice of a script. *)
EXTENDS SessionInbox

CONSTANTS m1, m2, n1

MCHuman == {m1, m2}
MCSystem == {n1}
Mix(some) == [kind \in Kinds |-> IF kind \in some THEN 1 ELSE 0]
OrdinarySettings ==
  ({"steers"} \X { Mix({"direct", "die", "fail", "refuse"}),
                   Mix({"stop", "die", "handFail", "unknown"}),
                   Mix({"exit", "fail", "stop"}),
                   Mix({"saveFail", "die", "refuse", "fail"}),
                   [Mix({"direct"}) EXCEPT !["saveFail"] = 2] })
  \cup ({"stops"} \X { Mix({"exit", "handFail"}), Mix({"saveFail", "stop", "direct"}) })
  \cup ({"bare"} \X { Mix({"die", "fail"}), Mix({"exit", "saveFail"}) })

(* One kind of trouble each, for what the code does not keep. *)
ExitSetting == {<<"steers", Mix({"exit"})>>}
UnknownSetting == {<<"steers", Mix({"unknown"})>>}
SaveSetting == {<<"steers", Mix({"saveFail"})>>}
=============================================================================
