------------------------ MODULE MCSessionExecution ------------------------
(* SessionExecution on small mixtures of what the environment may do. *)
EXTENDS SessionExecution

Mix(some) == [kind \in Kinds |-> IF kind \in some THEN 1 ELSE 0]

(* Mixtures in which a session switches Agent only while nothing else claims it
   by a direct send, and a failed stop leaves an execution that owns it.  What is
   proved without a hypothesis holds for the other mixtures too. *)
OrdinaryMixtures ==
  { Mix({"direct", "stop", "crash", "drop", "handFail"}),
    Mix({"direct", "stop", "closeFail", "saveFail"}),
    Mix({"direct", "handFail", "closeFail", "saveFail"}),
    Mix({"direct", "stop", "crash", "closeFail", "abort"}),
    Mix({"direct", "stop", "exit", "drop"}),
    Mix({"direct", "close", "crash", "closeFail"}),
    Mix({"direct", "stop", "repeat"}),
    Mix({"switch", "exit"}),
    Mix({"stop", "switch", "crash"}),
    Mix({"stop", "switch", "saveFail"}) }

(* Mixtures in which they meet, for what the code does not keep. *)
AnyMixtures ==
  { Mix({"direct", "stop", "switch", "closeFail"}),
    Mix({"direct", "stop", "drop", "crash", "handFail"}) }

(* The least mixtures that are not calm, in the sense of SessionExecution_proofs.
   A direct send under a switch, a switch that cuts its wait for the pump short,
   and a wait cut short for an execution whose successor then counts as the one
   that failed, break SomebodyEndsIt; a switch whose close fails breaks
   UncleanTakesNoPrompt. *)
StrainedMixtures ==
  { Mix({"direct", "switch"}), Mix({"switch", "abort"}),
    Mix({"direct", "saveFail", "abort"}), Mix({"switch", "closeFail"}) }

(* Mixtures for what must happen eventually. *)
FairMixtures ==
  { Mix({"direct", "stop", "drop"}),
    Mix({"direct", "exit"}),
    Mix({"stop", "switch"}), Mix({"switch", "closeFail", "abort"}) }
=============================================================================
