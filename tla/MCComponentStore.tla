-------------------------- MODULE MCComponentStore --------------------------
(* ComponentStore with two Hosts and four releases: an App that bundles the first
   and runs three, and a later App with another interface. *)
EXTENDS ComponentStore, TLC

MCBuilt == [v \in Version |-> IF v < 4 THEN "old" ELSE "new"]
MCApps == {[baseline |-> 1, abi |-> "old"], [baseline |-> 3, abi |-> "new"]}

Mix(some) == [kind \in Kinds |-> IF kind \in some THEN 1 ELSE 0]
Mixtures == {Mix(Kinds \ {"unread"}), Mix(Kinds \ {"corrupt"})}
Symmetry == Permutations(Host)
=============================================================================
